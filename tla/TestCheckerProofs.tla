-------------------------- MODULE TestCheckerProofs --------------------------
(***************************************************************************)
(* Theorems about TestChecker for every set of tests and commands.         *)
(***************************************************************************)
EXTENDS TestChecker, TLAPS, SequenceTheorems

USE CheckerAssumption DEF V!VerdictAssumption

\* A test has steps, and a failure is not a pass.
LEMMA TestSteps == ASSUME NEW t \in Test PROVE t.steps \in Seq(V!Step)
  BY DEF V!TestRecord

\* A failure differs from a pass.
LEMMA FailureIsNoPass == ASSUME NEW e, NEW r PROVE Failure(e, r) # Pass
  BY DEF Failure, Pass, V!Failure, V!Pass

\* A failure between what can be expected and received is a result.
LEMMA FailureIsResult ==
    ASSUME NEW e \in Expectations, NEW r \in Receptions PROVE Failure(e, r) \in Results
  BY DEF Results

\* Registering a result gives a result.
LEMMA RegisterIsResult ==
    ASSUME NEW wrong, NEW res \in Results, NEW failure, wrong => failure \in Results
    PROVE  RegisterIf(wrong, res, failure) \in Results
  BY DEF RegisterIf, RegisterError

\* What can be expected and received.
LEMMA Reports ==
    /\ <<"script_termination">> \in Expectations
    /\ \A m \in Matcher : <<"step", m>> \in Expectations
    /\ <<"script_terminated">> \in Receptions
    /\ \A c \in Command : <<"command", c>> \in Receptions
    /\ \A c \in ExitCode : <<"exitcode", c>> \in Expectations /\ <<"exitcode", c>> \in Receptions
    /\ \A o \in Output : <<"stdout", o>> \in Expectations /\ <<"stdout", o>> \in Receptions
    /\ \A o \in Output : <<"stderr", o>> \in Expectations /\ <<"stderr", o>> \in Receptions
  BY DEF Expectations, Receptions

-----------------------------------------------------------------------------
(***************************************************************************)
(* How the report on the commands so far changes with one more command.    *)
(***************************************************************************)
\* One more command changes nothing about the earlier ones.
LEMMA EarlierCommands ==
    ASSUME NEW t, NEW cs \in Seq(Command), NEW c \in Command, NEW i \in 1..Len(cs)
    PROVE  /\ V!Deviates(t, Append(cs, c), i) <=> V!Deviates(t, cs, i)
           /\ V!StepFailure(t, Append(cs, c), i) = V!StepFailure(t, cs, i)
<1>1. Append(cs, c)[i] = cs[i]
  OBVIOUS
<1> QED
  BY <1>1 DEF V!Deviates, V!StepFailure

\* The last of the commands is the new one.
LEMMA LastCommand ==
    ASSUME NEW cs \in Seq(Command), NEW c \in Command
    PROVE  /\ Append(cs, c) \in Seq(Command)
           /\ Len(Append(cs, c)) = Len(cs) + 1
           /\ Len(cs) + 1 \in 1..Len(Append(cs, c))
           /\ Append(cs, c)[Len(cs) + 1] = c
  OBVIOUS

\* A failure stays the first one.
LEMMA ReportKept ==
    ASSUME NEW t, NEW cs \in Seq(Command), NEW c \in Command, NEW v, v # Pass,
           V!StepsReport(v, t, cs)
    PROVE  V!StepsReport(v, t, Append(cs, c))
<1>1. PICK i \in 1..Len(cs) :
        /\ V!Deviates(t, cs, i)
        /\ \A j \in 1..(i - 1) : ~V!Deviates(t, cs, j)
        /\ v = V!StepFailure(t, cs, i)
  BY DEF V!StepsReport, Pass
<1>2. i \in 1..Len(Append(cs, c))
  BY LastCommand
<1>3. V!Deviates(t, Append(cs, c), i) /\ v = V!StepFailure(t, Append(cs, c), i)
  BY <1>1, EarlierCommands
<1>4. \A j \in 1..(i - 1) : ~V!Deviates(t, Append(cs, c), j)
  <2> TAKE j \in 1..(i - 1)
  <2>1. j \in 1..Len(cs)
    OBVIOUS
  <2> QED
    BY <1>1, <2>1, EarlierCommands
<1> QED
  BY <1>2, <1>3, <1>4 DEF V!StepsReport

\* All commands conform when the report is a pass.
LEMMA PassMeansConform ==
    ASSUME NEW t, NEW cs, V!StepsReport(Pass, t, cs)
    PROVE  \A i \in 1..Len(cs) : ~V!Deviates(t, cs, i)
<1>1. \A i : V!StepFailure(t, cs, i) # Pass
  BY DEF V!StepFailure, V!Failure, Pass, V!Pass
<1> QED
  BY <1>1 DEF V!StepsReport, Pass

\* A new command after conforming ones decides the report.
LEMMA ReportNew ==
    ASSUME NEW t, NEW cs \in Seq(Command), NEW c \in Command, V!StepsReport(Pass, t, cs)
    PROVE  V!StepsReport(IF V!Deviates(t, Append(cs, c), Len(cs) + 1)
                         THEN V!StepFailure(t, Append(cs, c), Len(cs) + 1) ELSE Pass,
                         t, Append(cs, c))
<1> DEFINE all == Append(cs, c)
           n == Len(cs) + 1
<1>1. \A j \in 1..(n - 1) : ~V!Deviates(t, all, j)
  <2> TAKE j \in 1..(n - 1)
  <2>1. j \in 1..Len(cs)
    OBVIOUS
  <2> QED
    BY <2>1, PassMeansConform, EarlierCommands
<1>2. n \in 1..Len(all) /\ Len(all) = n
  BY LastCommand
<1>3. CASE V!Deviates(t, all, n)
  BY <1>1, <1>2, <1>3 DEF V!StepsReport
<1>4. CASE ~V!Deviates(t, all, n)
  <2>1. \A j \in 1..Len(all) : ~V!Deviates(t, all, j)
    <3> TAKE j \in 1..Len(all)
    <3>1. j = n \/ j \in 1..(n - 1)
      BY <1>2
    <3> QED
      BY <1>1, <1>4, <3>1
  <2> QED
    BY <1>4, <2>1 DEF V!StepsReport, Pass
<1> QED
  BY <1>3, <1>4

\* The report after one more command, however the result was before: a failure
\* is kept, as register_error does.
LEMMA ReportStep ==
    ASSUME NEW t, NEW cs \in Seq(Command), NEW c \in Command, NEW v, V!StepsReport(v, t, cs)
    PROVE  V!StepsReport(RegisterIf(V!Deviates(t, Append(cs, c), Len(cs) + 1), v,
                                    V!StepFailure(t, Append(cs, c), Len(cs) + 1)),
                         t, Append(cs, c))
<1>1. CASE v = Pass
  BY <1>1, ReportNew DEF RegisterIf, RegisterError
<1>2. CASE v # Pass
  BY <1>2, ReportKept DEF RegisterIf, RegisterError
<1> QED
  BY <1>1, <1>2

-----------------------------------------------------------------------------
(***************************************************************************)
(* The inductive invariant.                                                *)
(***************************************************************************)
\* It holds before the script starts.
LEMMA InitInv == Init => CheckerInv
<1> SUFFICES ASSUME Init PROVE CheckerInv
  OBVIOUS
<1>1. test.steps \in Seq(V!Step)
  BY TestSteps DEF Init
<1>2. Pass \in Results
  BY DEF Results
<1>3. TypeOK
  BY <1>1, <1>2 DEF Init, TypeOK
<1> QED
  BY <1>1, <1>3 DEF Init, CheckerInv, StepsLeft, ResultReportsSteps, MocksFollowSteps,
     V!StepsReport, Pass

\* A command with a step left keeps it.
LEMMA NextStepInv ==
    ASSUME CheckerInv, NEW command \in Command \ Unmocked, verdict = NoValue,
           NextStep(command), received' = Append(received, command), UNCHANGED <<test, verdict>>
    PROVE  CheckerInv'
<1> DEFINE n == Len(received)
<1> USE DEF CheckerInv
<1>1. /\ test \in Test /\ test.steps \in Seq(V!Step) /\ steps \in Seq(V!Step)
      /\ received \in Seq(Command \ Unmocked) /\ received \in Seq(Command)
      /\ temporary_executables \in Seq(Config) /\ n \in Nat
  BY TestSteps DEF TypeOK
<1>2. /\ n < Len(test.steps)
      /\ Len(steps) = Len(test.steps) - n
      /\ \A i \in 1..Len(steps) : steps[i] = test.steps[n + i]
  <2>1. Len(steps) # 0 /\ Len(steps) \in Nat /\ Len(test.steps) \in Nat
    BY <1>1, EmptySeq DEF NextStep
  <2>2. /\ Len(steps) = IF n <= Len(test.steps) THEN Len(test.steps) - n ELSE 0
        /\ \A i \in 1..Len(steps) : steps[i] = test.steps[n + i]
    BY DEF StepsLeft
  <2> QED
    BY <1>1, <2>1, <2>2
<1>3. /\ Head(steps) = test.steps[n + 1]
      /\ Head(steps) \in V!Step
      /\ Tail(steps) \in Seq(V!Step)
      /\ Len(Tail(steps)) = Len(steps) - 1
      /\ \A i \in 1..Len(Tail(steps)) : Tail(steps)[i] = steps[i + 1]
  BY <1>1, <1>2, HeadTailProperties DEF NextStep
<1>4. Len(received') = n + 1 /\ received' \in Seq(Command \ Unmocked)
  BY <1>1
<1>5. TypeOK'
  <2>1. [stdout |-> Head(steps).stdout, exitcode |-> Head(steps).exitcode] \in Config
    BY <1>3 DEF V!Step, Config
  <2>2. result' \in Results
    <3>1. Head(steps).matcher \in Matcher
      BY <1>3 DEF V!Step
    <3>2. Failure(<<"step", Head(steps).matcher>>, <<"command", command>>) \in Results
      BY <3>1, Reports, FailureIsResult
    <3> QED
      BY <3>2, RegisterIsResult DEF NextStep, TypeOK
  <2> QED
    BY <1>1, <1>3, <1>4, <2>1, <2>2 DEF TypeOK, NextStep
<1>6. StepsLeft'
  <2>1. Len(steps') = Len(test.steps) - (n + 1) /\ n + 1 <= Len(test.steps)
    BY <1>1, <1>2, <1>3 DEF NextStep
  <2>2. \A i \in 1..Len(steps') : steps'[i] = test.steps[n + 1 + i]
    <3> TAKE i \in 1..Len(steps')
    <3>1. steps'[i] = steps[i + 1]
      BY <1>3 DEF NextStep
    <3>2. i + 1 \in 1..Len(steps)
      BY <1>1, <1>2, <1>3 DEF NextStep
    <3>3. n + (i + 1) = n + 1 + i
      BY <1>1
    <3> QED
      BY <1>2, <3>1, <3>2, <3>3
  <2> QED
    BY <1>4, <2>1, <2>2 DEF StepsLeft
<1>7. ResultReportsSteps'
  <2>1. V!Deviates(test, received', n + 1) <=> command \notin Accepts[Head(steps).matcher]
    BY <1>1, <1>2, <1>3, LastCommand DEF V!Deviates
  <2>2. V!StepFailure(test, received', n + 1)
            = Failure(<<"step", Head(steps).matcher>>, <<"command", command>>)
    <3>1. received'[n + 1] = command /\ test.steps[n + 1] = Head(steps)
      BY <1>1, <1>3, LastCommand
    <3>2. ~ (n + 1 > Len(test.steps))
      BY <1>1, <1>2
    <3> QED
      BY <3>1, <3>2 DEF V!StepFailure, Failure
  <2>3. result' = RegisterIf(V!Deviates(test, received', n + 1), result,
                             V!StepFailure(test, received', n + 1))
    BY <2>1, <2>2 DEF NextStep, RegisterIf
  <2>4. V!StepsReport(result', test, received')
    BY <1>1, <2>3, ReportStep DEF ResultReportsSteps
  <2> QED
    BY <2>4 DEF ResultReportsSteps
<1>8. MocksFollowSteps'
  <2> DEFINE config == [stdout |-> Head(steps).stdout, exitcode |-> Head(steps).exitcode]
  <2>1. /\ Len(temporary_executables') = n + 1
        /\ \A i \in 1..n : temporary_executables'[i] = temporary_executables[i]
        /\ temporary_executables'[n + 1] = config
    BY <1>1 DEF NextStep, MocksFollowSteps
  <2>2. config = [stdout |-> test.steps[n + 1].stdout, exitcode |-> test.steps[n + 1].exitcode]
    BY <1>3
  <2>3. ASSUME NEW i \in 1..(n + 1)
        PROVE  temporary_executables'[i] =
                   IF i > Len(test.steps) THEN AllowFailingScriptsToContinue
                   ELSE [stdout |-> test.steps[i].stdout, exitcode |-> test.steps[i].exitcode]
    <3>1. CASE i \in 1..n
      BY <2>1, <3>1 DEF MocksFollowSteps
    <3>2. CASE i = n + 1
      BY <1>1, <1>2, <2>1, <2>2, <3>2
    <3> QED
      BY <1>1, <3>1, <3>2
  <2>4. test' = test /\ Len(received') = n + 1
    BY <1>4
  <2> QED
    BY <2>1, <2>3, <2>4 DEF MocksFollowSteps
<1> QED
  BY <1>5, <1>6, <1>7, <1>8

\* A command without a step keeps it.
LEMMA NoStepLeftInv ==
    ASSUME CheckerInv, NEW command \in Command \ Unmocked, verdict = NoValue,
           NoStepLeft(command), received' = Append(received, command), UNCHANGED <<test, verdict>>
    PROVE  CheckerInv'
<1> DEFINE n == Len(received)
<1> USE DEF CheckerInv
<1>1. /\ test \in Test /\ test.steps \in Seq(V!Step) /\ steps \in Seq(V!Step)
      /\ received \in Seq(Command \ Unmocked) /\ received \in Seq(Command)
      /\ temporary_executables \in Seq(Config) /\ n \in Nat
  BY TestSteps DEF TypeOK
<1>2. n >= Len(test.steps) /\ Len(steps) = 0
  BY <1>1 DEF NoStepLeft, StepsLeft
<1>4. Len(received') = n + 1 /\ received' \in Seq(Command \ Unmocked)
  BY <1>1
<1>5. TypeOK'
  <2>1. AllowFailingScriptsToContinue \in Config
    BY DEF AllowFailingScriptsToContinue, Config
  <2>2. result' \in Results
    <3>1. Failure(<<"script_termination">>, <<"command", command>>) \in Results
      BY Reports, FailureIsResult
    <3> QED
      BY <3>1 DEF NoStepLeft, TypeOK, RegisterError
  <2> QED
    BY <1>1, <1>4, <2>1, <2>2 DEF TypeOK, NoStepLeft
<1>6. StepsLeft'
  BY <1>1, <1>2, <1>4 DEF StepsLeft, NoStepLeft
<1>7. ResultReportsSteps'
  <2>1. V!Deviates(test, received', n + 1)
    BY <1>1, <1>2 DEF V!Deviates
  <2>2. V!StepFailure(test, received', n + 1)
            = Failure(<<"script_termination">>, <<"command", command>>)
    <3>1. received'[n + 1] = command
      BY <1>1, LastCommand
    <3>2. n + 1 > Len(test.steps)
      BY <1>1, <1>2
    <3> QED
      BY <3>1, <3>2 DEF V!StepFailure, Failure
  <2>3. result' = RegisterIf(V!Deviates(test, received', n + 1), result,
                             V!StepFailure(test, received', n + 1))
    BY <2>1, <2>2 DEF NoStepLeft, RegisterIf
  <2>4. V!StepsReport(result', test, received')
    BY <1>1, <2>3, ReportStep DEF ResultReportsSteps
  <2> QED
    BY <2>4 DEF ResultReportsSteps
<1>8. MocksFollowSteps'
  <2>1. /\ Len(temporary_executables') = n + 1
        /\ \A i \in 1..n : temporary_executables'[i] = temporary_executables[i]
        /\ temporary_executables'[n + 1] = AllowFailingScriptsToContinue
    BY <1>1 DEF NoStepLeft, MocksFollowSteps
  <2>3. ASSUME NEW i \in 1..(n + 1)
        PROVE  temporary_executables'[i] =
                   IF i > Len(test.steps) THEN AllowFailingScriptsToContinue
                   ELSE [stdout |-> test.steps[i].stdout, exitcode |-> test.steps[i].exitcode]
    <3>1. CASE i \in 1..n
      BY <2>1, <3>1 DEF MocksFollowSteps
    <3>2. CASE i = n + 1
      BY <1>1, <1>2, <2>1, <3>2
    <3> QED
      BY <1>1, <3>1, <3>2
  <2>4. test' = test /\ Len(received') = n + 1
    BY <1>4
  <2> QED
    BY <2>1, <2>3, <2>4 DEF MocksFollowSteps
<1> QED
  BY <1>5, <1>6, <1>7, <1>8

\* The verdict is a result.
LEMMA EndIsResult ==
    ASSUME CheckerInv, NEW exitcode \in ExitCode, NEW stdout \in Output, NEW stderr \in Output
    PROVE  CheckEnd(exitcode, stdout, stderr) \in Results
<1> DEFINE expected == IF test.exitcode = NoValue THEN 0 ELSE test.exitcode
           leftover == IF steps = <<>> THEN result
                       ELSE RegisterError(result,
                            Failure(<<"step", Head(steps).matcher>>, <<"script_terminated">>))
           codeFailure == Failure(<<"exitcode", expected>>, <<"exitcode", exitcode>>)
           code == RegisterIf(exitcode # expected, leftover, codeFailure)
           outFailure == Failure(<<"stdout", test.stdout>>, <<"stdout", stdout>>)
           out == RegisterIf(test.stdout \notin {NoValue, stdout}, code, outFailure)
           errFailure == Failure(<<"stderr", test.stderr>>, <<"stderr", stderr>>)
<1>1. /\ result \in Results /\ steps \in Seq(V!Step)
      /\ test.exitcode \in ExitCode \cup {NoValue}
      /\ test.stdout \in Output \cup {NoValue} /\ test.stderr \in Output \cup {NoValue}
  BY DEF CheckerInv, TypeOK, V!TestRecord
<1>2. leftover \in Results
  <2>1. CASE steps = <<>>
    BY <1>1, <2>1
  <2>2. CASE steps # <<>>
    <3>1. Head(steps).matcher \in Matcher
      <4>1. Head(steps) \in V!Step
        BY <1>1, <2>2, HeadTailProperties
      <4> QED
        BY <4>1 DEF V!Step
    <3>2. Failure(<<"step", Head(steps).matcher>>, <<"script_terminated">>) \in Results
      BY <3>1, Reports, FailureIsResult
    <3> QED
      BY <1>1, <2>2, <3>2 DEF RegisterError
  <2> QED
    BY <2>1, <2>2
<1>3. expected \in ExitCode
  BY <1>1
<1>4. codeFailure \in Results
  BY <1>3, Reports, FailureIsResult
<1>5. code \in Results
  BY <1>2, <1>4, RegisterIsResult
<1>6. test.stdout \notin {NoValue, stdout} => outFailure \in Results
  BY <1>1, Reports, FailureIsResult
<1>7. out \in Results
  BY <1>5, <1>6, RegisterIsResult
<1>8. test.stderr \notin {NoValue, stderr} => errFailure \in Results
  BY <1>1, Reports, FailureIsResult
<1>9. RegisterIf(test.stderr \notin {NoValue, stderr}, out, errFailure) \in Results
  BY <1>7, <1>8, RegisterIsResult
<1> QED
  BY <1>9 DEF CheckEnd, CheckExpectedOutputStream

\* The end of the run keeps it.
LEMMA HandleEndInv ==
    ASSUME CheckerInv, NEW exitcode \in ExitCode, NEW stdout \in Output, NEW stderr \in Output,
           HandleEnd(exitcode, stdout, stderr)
    PROVE  CheckerInv'
<1>1. verdict' \in Results /\ result' \in Results /\ verdict' # NoValue
  BY EndIsResult DEF HandleEnd
<1>2. steps \in Seq(V!Step) /\ (steps # <<>> => Tail(steps) \in Seq(V!Step))
  BY HeadTailProperties DEF CheckerInv, TypeOK
<1>3. steps' \in Seq(V!Step)
  BY <1>2 DEF HandleEnd
<1>4. TypeOK'
  BY <1>1, <1>3 DEF CheckerInv, TypeOK, HandleEnd
<1> QED
  BY <1>1, <1>4 DEF CheckerInv, StepsLeft, ResultReportsSteps, MocksFollowSteps, HandleEnd

\* Every step keeps it.
LEMMA NextInv == CheckerInv /\ [Next]_checkerVars => CheckerInv'
<1> SUFFICES ASSUME CheckerInv, [Next]_checkerVars PROVE CheckerInv'
  OBVIOUS
<1>1. CASE UNCHANGED checkerVars
  BY <1>1 DEF checkerVars, CheckerInv, TypeOK, StepsLeft, ResultReportsSteps, MocksFollowSteps
<1>2. ASSUME NEW command \in Command, HandleExecveEnter(command) PROVE CheckerInv'
  <2>1. verdict = NoValue /\ UNCHANGED <<test, verdict>> /\ CheckExecve(command)
    BY <1>2 DEF HandleExecveEnter
  <2>2. CASE command \in Unmocked
    <3>1. UNCHANGED checkerVars
      BY <2>1, <2>2 DEF CheckExecve, checkerVars
    <3> QED
      BY <1>1, <3>1
  <2>3. CASE command \notin Unmocked
    BY <2>1, <2>3, NextStepInv, NoStepLeftInv DEF CheckExecve, HandleStep
  <2> QED
    BY <2>2, <2>3
<1>3. ASSUME NEW exitcode \in ExitCode, NEW stdout \in Output, NEW stderr \in Output,
             HandleEnd(exitcode, stdout, stderr)
      PROVE  CheckerInv'
  BY <1>3, HandleEndInv
<1>4. CASE Ended
  BY <1>1, <1>4 DEF Ended
<1> QED
  BY <1>1, <1>2, <1>3, <1>4 DEF Next

-----------------------------------------------------------------------------
(***************************************************************************)
(* The theorems.                                                           *)
(***************************************************************************)
\* At any time the steps left, the result and the mock executables are what the
\* test and the commands so far say.
THEOREM CheckerInvariant == Spec => []CheckerInv
<1>1. Init => CheckerInv
  BY InitInv
<1>2. CheckerInv /\ [Next]_checkerVars => CheckerInv'
  BY NextInv
<1> QED
  BY <1>1, <1>2, PTL DEF Spec

\* Every variable has its type.
THEOREM CheckerTypeCorrect == Spec => []TypeOK
<1>1. CheckerInv => TypeOK
  BY DEF CheckerInv
<1> QED
  BY <1>1, CheckerInvariant, PTL

\* The i-th mocked command behaves as the i-th step says, whatever came before.
THEOREM MocksCorrect == Spec => []MocksFollowSteps
<1>1. CheckerInv => MocksFollowSteps
  BY DEF CheckerInv
<1> QED
  BY <1>1, CheckerInvariant, PTL

-----------------------------------------------------------------------------
(***************************************************************************)
(* The refinement.                                                         *)
(***************************************************************************)
\* What handle_end registers is the judgement of the whole run.
LEMMA EndReports ==
    ASSUME CheckerInv, verdict = NoValue,
           NEW exitcode \in ExitCode, NEW stdout \in Output, NEW stderr \in Output
    PROVE  V!Report(CheckEnd(exitcode, stdout, stderr), test, received, exitcode, stdout, stderr)
<1>1. V!StepsReport(result, test, received)
  BY DEF CheckerInv, ResultReportsSteps
<1>2. CASE result # Pass
  <2>1. CheckEnd(exitcode, stdout, stderr) = result
    BY <1>2 DEF CheckEnd, CheckExpectedOutputStream, RegisterIf, RegisterError
  <2> QED
    BY <1>1, <1>2, <2>1 DEF V!Report, Pass
<1>3. CASE result = Pass
  <2>1. /\ steps \in Seq(V!Step) /\ Len(received) \in Nat /\ Len(test.steps) \in Nat
        /\ Len(steps) = IF Len(received) <= Len(test.steps)
                        THEN Len(test.steps) - Len(received) ELSE 0
        /\ \A i \in 1..Len(steps) : steps[i] = test.steps[Len(received) + i]
    BY TestSteps DEF CheckerInv, TypeOK, StepsLeft
  <2>2. CASE steps = <<>>
    <3>1. ~ (Len(received) < Len(test.steps))
      BY <2>1, <2>2
    <3>2. CheckEnd(exitcode, stdout, stderr)
              = V!EndReport(test, received, exitcode, stdout, stderr)
      BY <1>3, <2>2, <3>1, FailureIsNoPass
         DEF CheckEnd, CheckExpectedOutputStream, RegisterIf, RegisterError, V!EndReport, V!ExpectedExitcode, Failure, Pass
    <3> QED
      BY <1>1, <1>3, <3>2 DEF V!Report, Pass
  <2>3. CASE steps # <<>>
    <3>1. Len(received) < Len(test.steps) /\ Head(steps) = test.steps[Len(received) + 1]
      BY <2>1, <2>3, EmptySeq, HeadTailProperties
    <3> DEFINE f == Failure(<<"step", Head(steps).matcher>>, <<"script_terminated">>)
    <3>2. f # Pass
      BY FailureIsNoPass
    <3>3. CheckEnd(exitcode, stdout, stderr) = f
      BY <1>3, <2>3, <3>2 DEF CheckEnd, CheckExpectedOutputStream, RegisterIf, RegisterError
    <3>4. V!EndReport(test, received, exitcode, stdout, stderr) = f
      BY <3>1 DEF V!EndReport, Failure
    <3> QED
      BY <1>1, <1>3, <3>3, <3>4 DEF V!Report, Pass
  <2> QED
    BY <2>2, <2>3
<1> QED
  BY <1>2, <1>3

\* A step of the checker is a step of the judgement or none.
LEMMA StepRefines == CheckerInv /\ [Next]_checkerVars => [V!Next]_(V!vVars)
<1> SUFFICES ASSUME CheckerInv, [Next]_checkerVars PROVE [V!Next]_(V!vVars)
  OBVIOUS
<1>1. CASE UNCHANGED checkerVars
  BY <1>1 DEF checkerVars, V!vVars
<1>2. ASSUME NEW c \in Command, HandleExecveEnter(c) PROVE [V!Next]_(V!vVars)
  <2>1. CASE c \in Unmocked
    BY <1>2, <2>1 DEF HandleExecveEnter, CheckExecve, V!vVars
  <2>2. CASE c \notin Unmocked
    <3>1. V!Receive(c)
      BY <1>2, <2>2 DEF HandleExecveEnter, CheckExecve, HandleStep, V!Receive
    <3> QED
      BY <3>1 DEF V!Next
  <2> QED
    BY <2>1, <2>2
<1>3. ASSUME NEW exitcode \in ExitCode, NEW stdout \in Output, NEW stderr \in Output,
             HandleEnd(exitcode, stdout, stderr)
      PROVE  [V!Next]_(V!vVars)
  <2>1. V!Judge(exitcode, stdout, stderr)
    BY <1>3, EndReports DEF HandleEnd, V!Judge
  <2> QED
    BY <2>1 DEF V!Next
<1>4. CASE Ended
  BY <1>1, <1>4 DEF Ended
<1> QED
  BY <1>1, <1>2, <1>3, <1>4 DEF Next

\* The checker implements the judgement: whatever the test and the commands are,
\* its verdict names the first deviation, and passes if there is none.
THEOREM CheckerImplementsVerdict == Spec => ImplementsVerdict
<1>1. Init => V!Init
  BY DEF Init, V!Init
<1>2. CheckerInv /\ [Next]_checkerVars => [V!Next]_(V!vVars)
  BY StepRefines
<1> QED
  BY <1>1, <1>2, CheckerInvariant, PTL DEF Spec, ImplementsVerdict, V!Spec
=============================================================================
