------------------------------ MODULE Recorder ------------------------------
(***************************************************************************)
(* The mock that records a test: src/src/recorder/mod.rs.  It lets every   *)
(* command run, remembers in one slot the command executed last, and makes *)
(* a step of it when the next process exits.                               *)
(***************************************************************************)
EXTENDS Sequences

CONSTANTS
    ExactMatch,   \* ExactMatch[c]: the matcher CommandMatcher::ExactMatch(c)
    NoOutput,     \* the empty output
    NoCommand     \* the empty slot

VARIABLES
    recorder_test, \* the test recorded so far
    command        \* the slot

recorderVars == <<recorder_test, command>>

RecordExecve(c, unmocked) ==
    /\ command' = IF c \in unmocked THEN command ELSE c
    /\ UNCHANGED recorder_test

RecordedStep(c, code) == [matcher |-> ExactMatch[c], stdout |-> NoOutput, exitcode |-> code]

\* Broken: only commands that succeed are recorded.
OnlySuccessRecorded(code) ==
    IF command = NoCommand \/ code # 0
    THEN command' = NoCommand /\ UNCHANGED recorder_test
    ELSE /\ command' = NoCommand
         /\ recorder_test' = [recorder_test EXCEPT !.steps = Append(@, RecordedStep(command, code))]

RecordExited(code) ==
    \/ /\ command = NoCommand
       /\ UNCHANGED recorderVars
    \/ /\ command # NoCommand
       /\ command' = NoCommand
       /\ recorder_test' = [recorder_test EXCEPT !.steps = Append(@, RecordedStep(command, code))]

\* Broken: no exit code is recorded.
ExitcodeForgotten(t, exitcode) == t

\* handle_end: an exit code of 0 is not recorded.
RecordEnd(t, exitcode) == IF exitcode # 0 THEN [t EXCEPT !.exitcode = exitcode] ELSE t
=============================================================================
