----------------------------- MODULE OutputRun -----------------------------
(***************************************************************************)
(* Tracer composed with Redirector: the processes of a script write to its *)
(* pipes, wait in the middle of a write while a pipe is full, may be       *)
(* killed there, and pass the write ends on to their children, while the   *)
(* relay threads take what is there and the tracer stops and resumes the   *)
(* processes.                                                              *)
(***************************************************************************)
EXTENDS Tracer, Redirector

CONSTANT
    Length        \* the numbers of bytes that are written at once

VARIABLE
    writing       \* what each process has still to write: to which stream, how much

outputVars == <<vars, redirectorVars, writing>>

ASSUME OutputRunAssumption ==
    /\ Stream = {"stdout", "stderr"}
    /\ Length \subseteq Nat \ {0}
    /\ ~MockMayFail /\ ~Faults /\ ~Background

\* Nothing is written or relayed.  The write ends are open as long as a process
\* has them.
NothingRelayed ==
    /\ open' = (writers' # {})
    /\ UNCHANGED <<written, pipe, relay, buffer, out, captured>>

NoWrite == [to |-> "stdout", left |-> 0]

-----------------------------------------------------------------------------
(***************************************************************************)
(* The processes.  The syscalls that are no business of the mock are       *)
(* writes to the pipes, done byte by byte, as long as they are not closed. *)
(***************************************************************************)
Writes(p, s) ==
    IF s = "other" /\ p \in writers THEN [to : Stream, left : Length] ELSE {NoWrite}

MakeSyscall(p, s) ==
    /\ Enter(p, s)
    /\ \E w \in Writes(p, s) : writing' = [writing EXCEPT ![p] = w]
    /\ NothingRelayed

\* The bytes are told apart by their position (Byte has enough of them).
Write(p) ==
    LET w == writing[p] IN
    /\ pstate[p] = "kernel"
    /\ p \in writers
    /\ w.left > 0
    /\ UNCHANGED vars
    /\ \E b \in Byte : b = Len(written[w.to]) + 1 /\ WriteByte(w.to, b)
    /\ writing' = [writing EXCEPT ![p].left = @ - 1]

CompleteCall(p) ==
    /\ writing[p].left = 0
    /\ Complete(p)
    /\ NothingRelayed
    /\ UNCHANGED writing

\* Bound: only in a write; Tracer has the other kills.
KillWriting(p) ==
    /\ pstate[p] = "kernel" /\ writing[p].left > 0
    /\ Killed(p)
    /\ writing' = [writing EXCEPT ![p] = NoWrite]
    /\ NothingRelayed

Process(p) ==
    \/ Write(p)
    \/ \E s \in Syscall : MakeSyscall(p, s)
    \/ CompleteCall(p)
    \/ /\ \/ IsRoot(p) /\ (ChildStops \/ ChildFailsEarly \/ ChildExecve)
          \/ \E c \in Pid : Fork(p, c)
          \/ Exit(p)
       /\ NothingRelayed
       /\ UNCHANGED writing

-----------------------------------------------------------------------------
(***************************************************************************)
(* The tracer and the relay threads.                                       *)
(***************************************************************************)
Relay(s) == UNCHANGED <<vars, writing>> /\ RelayStep(s)

RelayBreaks(s) == RelayMayFail /\ UNCHANGED <<vars, writing>> /\ WriteFails(s)

\* Broken: the thread of stderr is not joined.
JoinStdout ==
    /\ JoinStreams
    /\ relay["stdout"] = "done"
    /\ NothingRelayed
    /\ UNCHANGED writing

JoinBoth ==
    /\ JoinStreams
    /\ Joined
    /\ NothingRelayed
    /\ UNCHANGED writing

\* stdout is joined first.
JoinOneFails ==
    /\ JoinFails
    /\ \/ relay["stdout"] = "failed"
       \/ relay["stdout"] = "done" /\ relay["stderr"] = "failed"
    /\ NothingRelayed
    /\ UNCHANGED writing

NextRun(c) ==
    /\ StartRun(c)
    /\ NextStreams
    /\ UNCHANGED writing

Tracing ==
    \/ /\ \/ WaitForChild \/ ChildNeverStopped
          \/ \E p \in Pid : Wait(p) \/ HandleStatus(p)
          \/ ReturnFromRun
       /\ NothingRelayed
       /\ UNCHANGED writing
    \/ JoinBoth \/ JoinOneFails
    \/ \E c \in Pid : NextRun(c)

OutputInit ==
    /\ Init
    /\ Fresh
    /\ writing = [p \in Pid |-> NoWrite]

OutputNext ==
    \/ \E p \in Pid :
        \/ Process(p) \/ KillWriting(p)
        \/ Signalled(p) /\ NothingRelayed /\ UNCHANGED writing
    \/ Tracing
    \/ \E s \in Stream : Relay(s) \/ RelayBreaks(s)
    \/ Finished /\ NothingRelayed /\ UNCHANGED writing

(***************************************************************************)
(* Fairness: the kernel schedules the tracer, its threads and every        *)
(* process that can run; a write goes on when there is room.  Signals,     *)
(* kills and errors need not happen.                                       *)
(***************************************************************************)
OutputSpec ==
    /\ OutputInit
    /\ [][OutputNext]_outputVars
    /\ WF_outputVars(Tracing)
    /\ \A p \in Pid : WF_outputVars(Process(p))
    /\ \A s \in Stream : WF_outputVars(Relay(s))

-----------------------------------------------------------------------------
(***************************************************************************)
(* When the verdict is made everything that any process of the script      *)
(* wrote was relayed and captured, in order, whatever the sizes of writes, *)
(* pipes and buffers, and however the process ended.                       *)
(***************************************************************************)
VerdictHasAllOutput ==
    outcome = "verdict" => \A s \in Stream :
        /\ out[s] = written[s]
        /\ s \in Capture => captured[s] = written[s]

(***************************************************************************)
(* Every run of the script ends with a verdict or an error: no process     *)
(* waits for a relay thread that waits for the tracer.  The exception is   *)
(* a process in the middle of a write to a full pipe whose thread failed.  *)
(***************************************************************************)
Stuck(p) ==
    LET w == writing[p] IN
    /\ pstate[p] = "kernel" /\ w.left > 0
    /\ relay[w.to] = "failed" /\ Len(pipe[w.to]) = Capacity

RunsReturnUnlessStuck == []<>(tpc = "returned" \/ \E p \in Pid : Stuck(p))

=============================================================================
