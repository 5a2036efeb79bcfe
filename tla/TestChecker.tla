----------------------------- MODULE TestChecker -----------------------------
(***************************************************************************)
(* The mock that checks a script against a test: src/src/test_checker.     *)
(* Each command the script executes takes the next step off the test, is   *)
(* compared with it, and is replaced by a mock executable that behaves as  *)
(* the step says; the first error is kept.  Commands of unmockedCommands   *)
(* are left alone.                                                         *)
(***************************************************************************)
EXTENDS Naturals, Sequences

CONSTANTS Command, Matcher, Accepts, Output, ExitCode, NoValue, Test,
    Unmocked,     \* the commands whose executable is in unmockedCommands
    MaxReceived,  \* bound on the commands of a run
    NoOutput      \* the empty output

VARIABLES
    test,         \* the test as it was given
    steps,        \* test.steps of the checker: the steps not used up yet
    result,       \* CheckerResult: Pass or the first failure
    temporary_executables, \* the configs of the mock executables, in order
    received,     \* history: the commands that were checked
    verdict       \* what handle_end returned, or NoValue

checkerVars == <<test, steps, result, temporary_executables, received, verdict>>

\* The judgement that the checker implements, on the same test and commands.
V == INSTANCE TestVerdict WITH test <- test, received <- received, verdict <- verdict

Pass == V!Pass
Failure(expected, got) == V!Failure(expected, got)

\* What an error can say was expected, and what was received.
Expectations ==
    {<<"script_termination">>} \cup {<<"step", m>> : m \in Matcher}
        \cup {<<"exitcode", c>> : c \in ExitCode}
        \cup {<<"stdout", o>> : o \in Output} \cup {<<"stderr", o>> : o \in Output}

Receptions ==
    {<<"script_terminated">>} \cup {<<"command", c>> : c \in Command}
        \cup {<<"exitcode", c>> : c \in ExitCode}
        \cup {<<"stdout", o>> : o \in Output} \cup {<<"stderr", o>> : o \in Output}

Results == {Pass} \cup {Failure(e, r) : e \in Expectations, r \in Receptions}

ASSUME CheckerAssumption ==
    /\ V!VerdictAssumption
    /\ Unmocked \subseteq Command
    /\ MaxReceived \in Nat
    /\ NoOutput \in Output
    /\ NoValue \notin Results

\* executable_mock::Config
Config == [stdout : Output, exitcode : ExitCode]

\* Broken: the last error is kept.
LastError(res, failure) == failure

\* register_error keeps the first error.
RegisterError(res, failure) == IF res = Pass THEN failure ELSE res
RegisterIf(wrong, res, failure) == IF wrong THEN RegisterError(res, failure) ELSE res

AllowFailingScriptsToContinue == [stdout |-> NoOutput, exitcode |-> 0]

\* Broken: the mock of a command that does not match succeeds.
MismatchSucceeds(command) ==
    /\ steps # <<>>
    /\ steps' = Tail(steps)
    /\ result' = RegisterIf(command \notin Accepts[Head(steps).matcher], result,
                            Failure(<<"step", Head(steps).matcher>>, <<"command", command>>))
    /\ temporary_executables' = Append(temporary_executables,
            IF command \in Accepts[Head(steps).matcher]
            THEN [stdout |-> Head(steps).stdout, exitcode |-> Head(steps).exitcode]
            ELSE AllowFailingScriptsToContinue)

\* A step is there: it is used up whether or not it matches, and says what the
\* mock executable does.
NextStep(command) ==
    /\ steps # <<>>
    /\ steps' = Tail(steps)
    /\ result' = RegisterIf(command \notin Accepts[Head(steps).matcher], result,
                            Failure(<<"step", Head(steps).matcher>>, <<"command", command>>))
    /\ temporary_executables' = Append(temporary_executables,
            [stdout |-> Head(steps).stdout, exitcode |-> Head(steps).exitcode])

NoStepLeft(command) ==
    /\ steps = <<>>
    /\ steps' = steps
    /\ result' = RegisterError(result, Failure(<<"script_termination">>, <<"command", command>>))
    /\ temporary_executables' = Append(temporary_executables, AllowFailingScriptsToContinue)

HandleStep(command) ==
    /\ NextStep(command) \/ NoStepLeft(command)
    /\ received' = Append(received, command)

CheckExecve(command) ==
    \/ command \in Unmocked /\ UNCHANGED <<steps, result, temporary_executables, received>>
    \/ command \notin Unmocked /\ HandleStep(command)

HandleExecveEnter(command) ==
    /\ verdict = NoValue
    /\ Len(received) < MaxReceived
    /\ CheckExecve(command)
    /\ UNCHANGED <<test, verdict>>

\* Only an output that the test says is compared.
CheckExpectedOutputStream(res, stream, expected, captured) ==
    RegisterIf(expected \notin {NoValue, captured}, res,
               Failure(<<stream, expected>>, <<stream, captured>>))

\* Broken: leftover steps are forgotten.
LeftoverForgotten(exitcode, stdout, stderr) ==
    LET expected == IF test.exitcode = NoValue THEN 0 ELSE test.exitcode
        code == RegisterIf(exitcode # expected, result,
                           Failure(<<"exitcode", expected>>, <<"exitcode", exitcode>>))
        out  == CheckExpectedOutputStream(code, "stdout", test.stdout, stdout)
    IN  CheckExpectedOutputStream(out, "stderr", test.stderr, stderr)

(***************************************************************************)
(* handle_end: a step left over, the exit code, stdout and stderr are      *)
(* looked at in this order.                                                *)
(***************************************************************************)
CheckEnd(exitcode, stdout, stderr) ==
    LET expected == IF test.exitcode = NoValue THEN 0 ELSE test.exitcode
        leftover == IF steps = <<>> THEN result
                    ELSE RegisterError(result,
                            Failure(<<"step", Head(steps).matcher>>, <<"script_terminated">>))
        code == RegisterIf(exitcode # expected, leftover,
                           Failure(<<"exitcode", expected>>, <<"exitcode", exitcode>>))
        out  == CheckExpectedOutputStream(code, "stdout", test.stdout, stdout)
    IN  CheckExpectedOutputStream(out, "stderr", test.stderr, stderr)

HandleEnd(exitcode, stdout, stderr) ==
    /\ verdict = NoValue
    /\ verdict' = CheckEnd(exitcode, stdout, stderr)
    /\ result' = verdict'
    /\ steps' = IF steps = <<>> THEN steps ELSE Tail(steps)
    /\ UNCHANGED <<test, temporary_executables, received>>

Init ==
    /\ test \in Test
    /\ steps = test.steps
    /\ result = Pass
    /\ temporary_executables = <<>>
    /\ received = <<>>
    /\ verdict = NoValue

Ended ==
    /\ verdict # NoValue
    /\ UNCHANGED checkerVars

Next ==
    \/ \E command \in Command : HandleExecveEnter(command)
    \/ \E exitcode \in ExitCode, stdout, stderr \in Output : HandleEnd(exitcode, stdout, stderr)
    \/ Ended

Spec == Init /\ [][Next]_checkerVars

-----------------------------------------------------------------------------
\* Every variable has its type.
TypeOK ==
    /\ test \in Test
    /\ steps \in Seq(V!Step)
    /\ temporary_executables \in Seq(Config)
    /\ received \in Seq(Command \ Unmocked)
    /\ result \in Results
    /\ verdict \in Results \cup {NoValue}

(***************************************************************************)
(* The i-th mocked command of a run behaves as the i-th step says, also    *)
(* after a command that was not the expected one, and like true(1) when    *)
(* the test has no more steps; unmocked commands use no step up.           *)
(***************************************************************************)
MocksFollowSteps ==
    /\ Len(temporary_executables) = Len(received)
    /\ \A i \in 1..Len(received) :
        temporary_executables[i] =
            IF i > Len(test.steps) THEN AllowFailingScriptsToContinue
            ELSE [stdout |-> test.steps[i].stdout, exitcode |-> test.steps[i].exitcode]

\* Until the end, the steps left are those after the ones used up.
StepsLeft ==
    verdict = NoValue =>
        LET n == Len(received) IN
        /\ Len(steps) = IF n <= Len(test.steps) THEN Len(test.steps) - n ELSE 0
        /\ \A i \in 1..Len(steps) : steps[i] = test.steps[n + i]

\* Until the end, the result reports on the commands so far.
ResultReportsSteps == verdict = NoValue => V!StepsReport(result, test, received)

(***************************************************************************)
(* The inductive invariant: at any time the steps left, the result and the *)
(* mock executables are functions of the test and of the commands so far.  *)
(***************************************************************************)
CheckerInv == TypeOK /\ StepsLeft /\ ResultReportsSteps /\ MocksFollowSteps

(***************************************************************************)
(* The incremental checker implements the judgement of TestVerdict: the    *)
(* verdict names the first deviation, of the commands, the missing         *)
(* commands, the exit code, stdout and stderr, in this order.              *)
(***************************************************************************)
ImplementsVerdict == V!Spec
=============================================================================
