----------------------------- MODULE ByteStream -----------------------------
(***************************************************************************)
(* What Redirector promises of the output of a script: every byte that is  *)
(* sent is delivered once and in order, and a stream ends only when all of *)
(* it was delivered.  It may break instead; then nothing more comes.       *)
(***************************************************************************)
EXTENDS Naturals, Sequences

CONSTANTS
    Stream,
    Byte

VARIABLES
    sent,         \* per stream, what the script wrote
    delivered,    \* what arrived
    ended,        \* the streams that ended
    broken        \* the streams that broke

streamVars == <<sent, delivered, ended, broken>>

Init ==
    /\ sent = [s \in Stream |-> <<>>]
    /\ delivered = [s \in Stream |-> <<>>]
    /\ ended = {}
    /\ broken = {}

Send(s) ==
    /\ s \notin ended
    /\ \E b \in Byte : sent' = [sent EXCEPT ![s] = Append(@, b)]
    /\ UNCHANGED <<delivered, ended, broken>>

\* More of what was sent is delivered.
Progress(s) ==
    \E n \in Len(delivered[s])..Len(sent[s]) :
        delivered' = [delivered EXCEPT ![s] = SubSeq(sent[s], 1, n)]

Deliver(s) ==
    /\ s \notin ended \cup broken
    /\ Progress(s)
    /\ UNCHANGED <<sent, ended, broken>>

End(s) ==
    /\ s \notin ended \cup broken
    /\ delivered[s] = sent[s]
    /\ ended' = ended \cup {s}
    /\ UNCHANGED <<sent, delivered, broken>>

Break(s) ==
    /\ s \notin ended \cup broken
    /\ Progress(s)
    /\ broken' = broken \cup {s}
    /\ UNCHANGED <<sent, ended>>

\* The next script has streams of its own.
Restart ==
    /\ ended = Stream
    /\ Init'

Next ==
    \/ \E s \in Stream : Send(s) \/ Deliver(s) \/ End(s) \/ Break(s)
    \/ Restart

Spec == Init /\ [][Next]_streamVars
=============================================================================
