----------------------------- MODULE Redirector -----------------------------
(***************************************************************************)
(* src/src/tracer/stdio_redirecting.rs: standard output and error of the   *)
(* script are pipes.  A thread per pipe relays what it reads to the        *)
(* context's stream and, for a test that says what is expected on it,      *)
(* captures it.  read returns what is there, up to the size of the buffer, *)
(* and nothing when the pipe is empty and no process has its write end.    *)
(* After an error the thread ends; nobody reads the pipe any more, but its *)
(* read end, which is a plain number, stays open.                          *)
(***************************************************************************)
EXTENDS Naturals, Sequences

CONSTANTS
    Stream,       \* stdout and stderr
    Byte,
    Capacity,     \* of a pipe
    BufferSize,   \* of a relay thread
    Capture       \* the streams that are captured

ASSUME RedirectorAssumption ==
    /\ {Capacity, BufferSize} \subseteq Nat \ {0}
    /\ Capture \subseteq Stream

VARIABLES
    open,         \* does a process still have the write ends?
    written,      \* history: what the processes wrote to each pipe
    pipe,         \* what is in it
    relay,        \* what its thread does: read, write, capture, done or failed
    buffer,       \* the thread's buffer
    out,          \* what was written to the context's stream
    captured

redirectorVars == <<open, written, pipe, relay, buffer, out, captured>>

Empty == [s \in Stream |-> <<>>]

-----------------------------------------------------------------------------
\* A process writes a byte; it blocks as long as the pipe is full.
WriteByte(s, b) ==
    /\ open
    /\ Len(pipe[s]) < Capacity
    /\ written' = [written EXCEPT ![s] = Append(@, b)]
    /\ pipe' = [pipe EXCEPT ![s] = Append(@, b)]
    /\ UNCHANGED <<open, relay, buffer, out, captured>>

\* The last process that had the write ends closed them.
Close ==
    /\ open
    /\ open' = FALSE
    /\ UNCHANGED <<written, pipe, relay, buffer, out, captured>>

Count(s) == IF Len(pipe[s]) < BufferSize THEN Len(pipe[s]) ELSE BufferSize

Read(s) ==
    /\ relay[s] = "read"
    /\ pipe[s] # <<>>
    /\ buffer' = [buffer EXCEPT ![s] = SubSeq(pipe[s], 1, Count(s))]
    /\ pipe' = [pipe EXCEPT ![s] = SubSeq(@, Count(s) + 1, Len(@))]
    /\ relay' = [relay EXCEPT ![s] = "write"]
    /\ UNCHANGED <<open, written, out, captured>>

ReadEnd(s) ==
    /\ relay[s] = "read"
    /\ pipe[s] = <<>>
    /\ ~open
    /\ relay' = [relay EXCEPT ![s] = "done"]
    /\ UNCHANGED <<open, written, pipe, buffer, out, captured>>

\* What was relayed is captured, if the stream is to be.
Relays(s) ==
    IF s \in Capture
    THEN relay' = [relay EXCEPT ![s] = "capture"] /\ UNCHANGED buffer
    ELSE relay' = [relay EXCEPT ![s] = "read"] /\ buffer' = [buffer EXCEPT ![s] = <<>>]

\* Broken: write instead of write_all; what it did not take is lost.
WriteSome(s) ==
    /\ relay[s] = "write"
    /\ \E n \in 1..Len(buffer[s]) : out' = [out EXCEPT ![s] = @ \o SubSeq(buffer[s], 1, n)]
    /\ Relays(s)
    /\ UNCHANGED <<open, written, pipe, captured>>

WriteAll(s) ==
    /\ relay[s] = "write"
    /\ out' = [out EXCEPT ![s] = @ \o buffer[s]]
    /\ Relays(s)
    /\ UNCHANGED <<open, written, pipe, captured>>

\* The context's stream takes a part and then no more.
WriteFails(s) ==
    /\ relay[s] = "write"
    /\ \E n \in 0..(Len(buffer[s]) - 1) : out' = [out EXCEPT ![s] = @ \o SubSeq(buffer[s], 1, n)]
    /\ relay' = [relay EXCEPT ![s] = "failed"]
    /\ buffer' = [buffer EXCEPT ![s] = <<>>]
    /\ UNCHANGED <<open, written, pipe, captured>>

\* Broken: what was captured before is replaced.
CaptureLast(s) ==
    /\ relay[s] = "capture"
    /\ captured' = [captured EXCEPT ![s] = buffer[s]]
    /\ relay' = [relay EXCEPT ![s] = "read"]
    /\ buffer' = [buffer EXCEPT ![s] = <<>>]
    /\ UNCHANGED <<open, written, pipe, out>>

CaptureAll(s) ==
    /\ relay[s] = "capture"
    /\ captured' = [captured EXCEPT ![s] = @ \o buffer[s]]
    /\ relay' = [relay EXCEPT ![s] = "read"]
    /\ buffer' = [buffer EXCEPT ![s] = <<>>]
    /\ UNCHANGED <<open, written, pipe, out>>

-----------------------------------------------------------------------------
\* Redirector::new and parent_relay_streams.
Fresh ==
    /\ open = TRUE
    /\ relay = [s \in Stream |-> "read"]
    /\ written = Empty /\ pipe = Empty /\ buffer = Empty /\ out = Empty /\ captured = Empty

Joined == \A s \in Stream : relay[s] = "done"

NextStreams ==
    /\ Joined
    /\ open' = TRUE
    /\ relay' = [s \in Stream |-> "read"]
    /\ written' = Empty /\ pipe' = Empty /\ buffer' = Empty /\ out' = Empty /\ captured' = Empty

RelayStep(s) == Read(s) \/ ReadEnd(s) \/ WriteAll(s) \/ CaptureAll(s)

RedirectorNext ==
    \/ \E s \in Stream, b \in Byte : WriteByte(s, b)
    \/ Close
    \/ \E s \in Stream : RelayStep(s) \/ WriteFails(s)
    \/ NextStreams

RedirectorSpec == Fresh /\ [][RedirectorNext]_redirectorVars

-----------------------------------------------------------------------------
RelayState == {"read", "write", "capture", "done", "failed"}

\* Every variable has its type.
RedirectorTypeOK ==
    /\ open \in BOOLEAN
    /\ relay \in [Stream -> RelayState]
    /\ {written, pipe, buffer, out, captured} \subseteq [Stream -> Seq(Byte)]
    /\ \A s \in Stream : Len(pipe[s]) <= Capacity /\ Len(buffer[s]) <= BufferSize

(***************************************************************************)
(* As long as a thread did not fail, what was written is what was relayed, *)
(* what the thread has in its buffer and what is in the pipe, in this      *)
(* order; what was captured lags behind what was relayed by a buffer at    *)
(* most.                                                                   *)
(***************************************************************************)
Unrelayed(s) == IF relay[s] = "write" THEN buffer[s] ELSE <<>>

NothingIsLost ==
    \A s \in Stream : relay[s] # "failed" =>
        /\ written[s] = (out[s] \o Unrelayed(s)) \o pipe[s]
        /\ s \in Capture => out[s] = captured[s] \o (IF relay[s] = "capture" THEN buffer[s] ELSE <<>>)

(***************************************************************************)
(* The relayed output is a reliable stream of what the processes wrote.    *)
(***************************************************************************)
Relayed == INSTANCE ByteStream WITH
    sent <- written,
    delivered <- out,
    ended <- {s \in Stream : relay[s] = "done"},
    broken <- {s \in Stream : relay[s] = "failed"}

ImplementsStream == Relayed!Spec
=============================================================================
