----------------------------- MODULE TestVerdict -----------------------------
(***************************************************************************)
(* What scriptkeeper promises about a test, as one judgement at the end:   *)
(* the verdict names the first deviation of what the script did from what  *)
(* the test says, and passes if there is none.  TestChecker, which works   *)
(* through the steps while the script runs, implements it.                 *)
(***************************************************************************)
EXTENDS Naturals, Sequences

CONSTANTS
    Command,      \* executable and arguments, as the tracer reads them
    Matcher,      \* the commands and regular expressions a step can expect
    Accepts,      \* Accepts[m]: the commands matcher m matches
    Output,       \* what a command or the script writes
    ExitCode,     \* exit codes
    NoValue,      \* a field the test leaves out (None)
    Test          \* the tests considered

\* A step of a test: src/src/test_spec/mod.rs, Step.
Step == [matcher : Matcher, stdout : Output, exitcode : ExitCode]

\* The fields of a test that are judged.
TestRecord ==
    [steps : Seq(Step), exitcode : ExitCode \cup {NoValue},
     stdout : Output \cup {NoValue}, stderr : Output \cup {NoValue}]

\* Assumed of the constants by the modules that use this one.
VerdictAssumption ==
    /\ Accepts \in [Matcher -> SUBSET Command]
    /\ Test \subseteq TestRecord
    /\ 0 \in ExitCode
    /\ NoValue \notin ExitCode \cup Output

Pass == <<"pass">>
Failure(expected, received) == <<"failure", expected, received>>

\* The i-th command does not do what the test says.
Deviates(t, commands, i) ==
    i > Len(t.steps) \/ commands[i] \notin Accepts[t.steps[i].matcher]

StepFailure(t, commands, i) ==
    Failure(IF i > Len(t.steps) THEN <<"script_termination">> ELSE <<"step", t.steps[i].matcher>>,
            <<"command", commands[i]>>)

\* v reports on the commands the script ran so far.
StepsReport(v, t, commands) ==
    \/ /\ \A i \in 1..Len(commands) : ~Deviates(t, commands, i)
       /\ v = Pass
    \/ \E i \in 1..Len(commands) :
        /\ Deviates(t, commands, i)
        /\ \A j \in 1..(i - 1) : ~Deviates(t, commands, j)
        /\ v = StepFailure(t, commands, i)

ExpectedExitcode(t) == IF t.exitcode = NoValue THEN 0 ELSE t.exitcode

\* The first thing that is wrong after all commands conformed.
EndReport(t, commands, exitcode, stdout, stderr) ==
    IF Len(commands) < Len(t.steps)
    THEN Failure(<<"step", t.steps[Len(commands) + 1].matcher>>, <<"script_terminated">>)
    ELSE IF exitcode # ExpectedExitcode(t)
    THEN Failure(<<"exitcode", ExpectedExitcode(t)>>, <<"exitcode", exitcode>>)
    ELSE IF t.stdout \notin {NoValue, stdout}
    THEN Failure(<<"stdout", t.stdout>>, <<"stdout", stdout>>)
    ELSE IF t.stderr \notin {NoValue, stderr}
    THEN Failure(<<"stderr", t.stderr>>, <<"stderr", stderr>>)
    ELSE Pass

\* v reports on the whole run.
Report(v, t, commands, exitcode, stdout, stderr) ==
    \/ v # Pass /\ StepsReport(v, t, commands)
    \/ StepsReport(Pass, t, commands) /\ v = EndReport(t, commands, exitcode, stdout, stderr)

VARIABLES test, received, verdict

vVars == <<test, received, verdict>>

Init ==
    /\ test \in Test
    /\ received = <<>>
    /\ verdict = NoValue

Receive(command) ==
    /\ verdict = NoValue
    /\ received' = Append(received, command)
    /\ UNCHANGED <<test, verdict>>

Judge(exitcode, stdout, stderr) ==
    /\ verdict = NoValue
    /\ Report(verdict', test, received, exitcode, stdout, stderr)
    /\ UNCHANGED <<test, received>>

Next ==
    \/ \E command \in Command : Receive(command)
    \/ \E exitcode \in ExitCode, stdout, stderr \in Output : Judge(exitcode, stdout, stderr)

Spec == Init /\ [][Next]_vVars
=============================================================================
