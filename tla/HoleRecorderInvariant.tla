------------------------ MODULE HoleRecorderInvariant ------------------------
(***************************************************************************)
(* The inductive invariant of HoleRecorder: how what the mock has in       *)
(* memory corresponds to what the script did.                              *)
(***************************************************************************)
EXTENDS HoleRecorder

\* A checker has not been told about a hole yet; it knows of no command that runs.
CheckerPart ==
    mode = "checker" =>
        /\ ~recording
        /\ C!CheckerInv
        /\ command = NoCommand

\* A recorder was made when the steps were used up without an error, and keeps
\* the expected exit code.
RecorderPart ==
    mode = "recorder" =>
        /\ result = C!Pass
        /\ Len(received) = Len(test.steps)
        /\ recorder_test.exitcode = test.exitcode

\* The result reports on the commands that were checked, also after the hole.
ReportPart == C!V!StepsReport(result, test, received)

\* What the processes execute; a mentioned command without a mock was recorded.
ProcessPart ==
    \A p \in Pid : Busy(p) =>
        /\ running[p].command \in Command
        /\ running[p].nth \in 0..Len(truth)
        /\ Mentioned(running[p].command) /\ running[p].mock = 0 => mode = "recorder"
        /\ nested = 0 => running[p].of = NoPid

\* If no command runs another one, the commands checked are those the script ran
\* first, and all of them before the hole.
TruthPart ==
    nested = 0 =>
        /\ Len(received) <= Len(truth)
        /\ mode = "checker" => Len(truth) = Len(received)
        /\ \A i \in 1..Len(received) : truth[i].command = received[i]

\* The mock of the n-th command is the n-th one, and knows the exit code of its step.
MockIsNth ==
    nested = 0 /\ (mode = "checker" \/ ~concurrent) =>
        \A p \in Pid : Busy(p) /\ running[p].nth # 0 /\ running[p].nth <= Len(test.steps) =>
            /\ mode = "checker"
            /\ running[p].mock = running[p].nth
            /\ running[p].mock <= Len(received)
            /\ running[p].code # NoValue =>
                running[p].code = ProcessCode(test.steps[running[p].nth].exitcode)

\* The recorder of a sequential script: the slot holds the command that runs, if
\* it is a mentioned one, and all commands before it are recorded.  While nothing runs
\* the slot is empty, so that the exit of any other process changes nothing.
SequencePart ==
    Sequential =>
        /\ \A p, q \in Pid : Busy(p) /\ Busy(q) => p = q
        /\ mode = "recorder" =>
            /\ \A p \in Pid : Busy(p) /\ running[p].nth # 0 =>
                running[p].nth = Len(truth) /\ command # NoCommand
            /\ command # NoCommand =>
                /\ Len(truth) > Len(test.steps)
                /\ command = truth[Len(truth)].command
                /\ \E p \in Pid : Busy(p) /\ running[p].nth = Len(truth)
            /\ Len(recorder_test.steps) =
                IF command = NoCommand THEN Len(truth) ELSE Len(truth) - 1
            /\ \A i \in 1..Len(recorder_test.steps) :
                recorder_test.steps[i] =
                    IF i <= Len(test.steps) THEN test.steps[i]
                    ELSE RecordedStep(truth[i].command, truth[i].exitcode)

\* The outcome is that of the mock at the end, when no command runs any more.
OutcomePart ==
    outcome # NoValue =>
        /\ \A p \in Pid : ~Busy(p)
        /\ script_exitcode \in ProcessExitCode
        /\ outcome =
            IF mode = "recorder" THEN <<"Recorded", RecordEnd(recorder_test, script_exitcode)>>
            ELSE IF result = C!Pass THEN <<"Recorded", RecordEnd(test, script_exitcode)>>
            ELSE <<"Checked", test, result>>

IInv ==
    /\ TypeOK
    /\ CheckerPart
    /\ RecorderPart
    /\ ReportPart
    /\ ProcessPart
    /\ TruthPart
    /\ MockIsNth
    /\ StepsAreObeyed
    /\ SequencePart
    /\ OutcomePart
=============================================================================
