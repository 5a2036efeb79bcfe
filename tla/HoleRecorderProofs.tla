-------------------------- MODULE HoleRecorderProofs --------------------------
(***************************************************************************)
(* Theorems about HoleRecorder, for tests with any number of steps before  *)
(* the hole and scripts that run any number of commands in any number of   *)
(* processes.  The checker that it starts as is TestChecker, whose lemmas  *)
(* are used as P!...                                                       *)
(***************************************************************************)
EXTENDS HoleRecorderInvariant, SequenceTheorems, TLAPS

P == INSTANCE TestCheckerProofs

-----------------------------------------------------------------------------
(***************************************************************************)
(* What is assumed of the constants, and the lemmas about the checker.     *)
(***************************************************************************)
LEMMA CheckerAssumed == P!CheckerAssumption
<1>1. P!Results = C!Results
  BY DEF C!Results, P!Results, C!Expectations, P!Expectations, C!Receptions, P!Receptions,
     C!Pass, P!Pass, C!V!Pass, P!V!Pass, C!Failure, P!Failure, C!V!Failure, P!V!Failure
<1>2. P!V!VerdictAssumption <=> C!V!VerdictAssumption
  BY DEF P!V!VerdictAssumption, C!V!VerdictAssumption, P!V!TestRecord, C!V!TestRecord,
     P!V!Step, C!V!Step
<1> QED BY <1>1, <1>2, HoleRecorderAssumption DEF C!CheckerAssumption, P!CheckerAssumption

LEMMA ConstantTypes ==
    /\ Accepts \in [Matcher -> SUBSET Command]
    /\ Test \subseteq C!V!TestRecord
    /\ NoValue \notin ExitCode \cup Output
    /\ Unmocked \subseteq Command
    /\ NoOutput \in Output
    /\ ExactMatch \in [Command -> Matcher]
    /\ \A c \in Command : Accepts[ExactMatch[c]] = {c}
    /\ NoCommand \notin Command
    /\ NoPid \notin Pid
    /\ ExitCode \subseteq Nat
    /\ Codes \in Nat \ {0}
    /\ ProcessExitCode \subseteq ExitCode
    /\ \A code \in Nat : ProcessCode(code) \in ProcessExitCode
BY HoleRecorderAssumption
DEF HoleRecorderAssumption, C!CheckerAssumption, C!V!VerdictAssumption, ProcessExitCode,
    ProcessCode

LEMMA CheckerIsSame ==
    /\ P!CheckerInv <=> C!CheckerInv
    /\ P!CheckerInv' <=> C!CheckerInv'
BY DEF P!CheckerInv, C!CheckerInv, P!TypeOK, C!TypeOK, P!StepsLeft, C!StepsLeft,
    P!ResultReportsSteps, C!ResultReportsSteps, P!MocksFollowSteps, C!MocksFollowSteps,
    P!V!StepsReport, C!V!StepsReport, P!V!Deviates, C!V!Deviates,
    P!V!StepFailure, C!V!StepFailure,
    P!AllowFailingScriptsToContinue, C!AllowFailingScriptsToContinue,
    P!Config, C!Config, P!V!Step, C!V!Step,
    C!Results, P!Results, C!Expectations, P!Expectations, C!Receptions, P!Receptions,
    C!Pass, P!Pass, C!V!Pass, P!V!Pass, C!Failure, P!Failure, C!V!Failure, P!V!Failure

\* A command that is checked, mocked or not, keeps the checker's invariant.
LEMMA CheckKeeps ==
    ASSUME C!CheckerInv, verdict = NoValue, NEW c \in Command, C!CheckExecve(c),
           UNCHANGED <<test, verdict>>
    PROVE  C!CheckerInv'
<1>1. CASE c \in Unmocked
  BY <1>1 DEF C!CheckExecve, C!CheckerInv, C!TypeOK, C!StepsLeft, C!ResultReportsSteps,
     C!MocksFollowSteps
<1>2. CASE c \notin Unmocked
  <2>1. C!NextStep(c) \/ C!NoStepLeft(c)
    BY <1>2 DEF C!CheckExecve, C!HandleStep
  <2>2. received' = Append(received, c) /\ P!CheckerInv /\ c \in Command \ Unmocked
    BY <1>2, CheckerIsSame DEF C!CheckExecve, C!HandleStep
  <2>3. CASE C!NextStep(c)
    <3>1. P!NextStep(c)
      BY <2>3 DEF C!NextStep, P!NextStep, C!RegisterIf, P!RegisterIf, C!RegisterError,
         P!RegisterError, C!Pass, P!Pass, C!V!Pass, P!V!Pass, C!Failure, P!Failure,
         C!V!Failure, P!V!Failure
    <3> QED BY <2>2, <3>1, CheckerAssumed, P!NextStepInv, CheckerIsSame
  <2>4. CASE C!NoStepLeft(c)
    <3>1. P!NoStepLeft(c)
      BY <2>4 DEF C!NoStepLeft, P!NoStepLeft, C!RegisterError, P!RegisterError,
         C!AllowFailingScriptsToContinue, P!AllowFailingScriptsToContinue,
         C!Pass, P!Pass, C!V!Pass, P!V!Pass, C!Failure, P!Failure, C!V!Failure, P!V!Failure
    <3> QED BY <2>2, <3>1, CheckerAssumed, P!NoStepLeftInv, CheckerIsSame
  <2> QED BY <2>1, <2>3, <2>4
<1> QED BY <1>1, <1>2

\* All commands conform when the report is a pass.
LEMMA PassMeansConform ==
    ASSUME NEW t, NEW cs, C!V!StepsReport(C!Pass, t, cs)
    PROVE  \A i \in 1..Len(cs) : i <= Len(t.steps) /\ cs[i] \in Accepts[t.steps[i].matcher]
<1>1. \A i : C!V!StepFailure(t, cs, i) # C!Pass
  BY DEF C!V!StepFailure, C!V!Failure, C!Pass, C!V!Pass
<1> QED
  BY <1>1 DEF C!V!StepsReport, C!Pass, C!V!Deviates

-----------------------------------------------------------------------------
(***************************************************************************)
(* The mock: what a callback does to its part of the invariant.            *)
(***************************************************************************)
MockInv == MockTypeOK /\ CheckerPart /\ RecorderPart /\ ReportPart

\* The types that follow for the test, with or without --record.
LEMMA TestTyped ==
    ASSUME MockTypeOK
    PROVE  /\ test \in C!V!TestRecord
           /\ test.steps \in Seq(C!V!Step)
           /\ Len(test.steps) \in Nat
           /\ Len(received) \in Nat
           /\ recorder_test.steps \in Seq(C!V!Step)
<1>1. EmptyTest \in C!V!TestRecord
  BY DEF EmptyTest, C!V!TestRecord
<1>2. test \in C!V!TestRecord
  BY <1>1, ConstantTypes DEF MockTypeOK
<1>3. test.steps \in Seq(C!V!Step) /\ recorder_test.steps \in Seq(C!V!Step)
  BY <1>2 DEF C!V!TestRecord, MockTypeOK
<1> QED BY <1>2, <1>3, LenProperties DEF MockTypeOK

\* The steps are used up without an error exactly when as many commands were
\* checked as there are steps.
LEMMA UsedUp ==
    ASSUME MockInv, mode = "checker", steps = <<>>, result = C!Pass
    PROVE  Len(received) = Len(test.steps)
<1>1. /\ Len(received) \in Nat /\ Len(test.steps) \in Nat /\ Len(steps) = 0
      /\ verdict = NoValue
  BY TestTyped DEF MockInv, MockTypeOK
<1>2. Len(steps) = IF Len(received) <= Len(test.steps) THEN Len(test.steps) - Len(received) ELSE 0
  BY <1>1 DEF MockInv, CheckerPart, C!CheckerInv, C!StepsLeft
<1>3. \A i \in 1..Len(received) : i <= Len(test.steps)
  BY PassMeansConform DEF MockInv, ReportPart
<1>4. Len(received) <= Len(test.steps)
  BY <1>1, <1>3
<1> QED BY <1>1, <1>2, <1>4

\* What checking a command does besides to the steps: it gets the next mock.
LEMMA CheckOnEffect ==
    ASSUME MockInv, NEW c \in Command, CheckOn(c), UNCHANGED <<test, verdict>>
    PROVE  /\ mode = "checker" /\ mode' = "checker" /\ ~recording
           /\ UNCHANGED recorderVars
           /\ C!CheckerInv'
           /\ Len(temporary_executables') = Len(received')
           /\ c \in Unmocked => received' = received
           /\ c \notin Unmocked => received' = Append(received, c)
<1>1. mode = "checker" /\ ~recording /\ C!CheckerInv /\ C!CheckExecve(c) /\ verdict = NoValue
  BY DEF CheckOn, MockInv, CheckerPart, MockTypeOK
<1>2. C!CheckerInv'
  BY <1>1, CheckKeeps
<1>3. Len(temporary_executables') = Len(received')
  BY <1>2 DEF C!CheckerInv, C!MocksFollowSteps
<1> QED BY <1>1, <1>2, <1>3 DEF CheckOn, C!CheckExecve, C!HandleStep

LEMMA CallbackKeeps ==
    ASSUME MockInv, NEW c \in Command, HandleExecveEnter(c)
    PROVE  MockInv'
<1> USE DEF MockInv
<1>0. UNCHANGED <<test, verdict, recording>>
  BY DEF HandleExecveEnter
<1>1. CASE CheckOn(c)
  <2>1. /\ mode = "checker" /\ mode' = "checker" /\ ~recording /\ recording' = recording
        /\ recorder_test' = recorder_test /\ command' = command
        /\ C!CheckerInv'
    BY <1>0, <1>1, CheckOnEffect DEF recorderVars
  <2>2. MockTypeOK'
    BY <1>0, <2>1 DEF MockTypeOK, C!CheckerInv, C!TypeOK
  <2>3. CheckerPart'
    BY <2>1 DEF CheckerPart
  <2>4. ReportPart'
    BY <1>0, <2>1 DEF MockTypeOK, C!CheckerInv, C!ResultReportsSteps, ReportPart
  <2> QED BY <2>1, <2>2, <2>3, <2>4 DEF RecorderPart
<1>2. CASE TurnIntoRecorder(c)
  <2>1. Len(received) = Len(test.steps)
    BY <1>2, UsedUp DEF TurnIntoRecorder
  <2>2. MockTypeOK'
    <3>1. test \in C!V!TestRecord /\ <<>> \in Seq(C!Config)
      BY TestTyped
    <3> QED BY <1>0, <1>2, <3>1 DEF MockTypeOK, TurnIntoRecorder
  <2>3. CheckerPart' /\ RecorderPart' /\ ReportPart'
    BY <1>0, <1>2, <2>1 DEF CheckerPart, RecorderPart, ReportPart, TurnIntoRecorder
  <2> QED BY <2>2, <2>3
<1>3. CASE RecordOn(c)
  <2>1. MockTypeOK'
    BY <1>0, <1>3 DEF MockTypeOK, RecordOn, RecordExecve
  <2>2. CheckerPart' /\ RecorderPart' /\ ReportPart'
    BY <1>0, <1>3 DEF CheckerPart, RecorderPart, ReportPart, RecordOn, RecordExecve
  <2> QED BY <2>1, <2>2
<1> QED BY <1>1, <1>2, <1>3 DEF HandleExecveEnter

\* The end of a process lengthens what is recorded by its step.
LEMMA RecordExitedEffect ==
    ASSUME MockTypeOK, command # NoCommand, NEW code \in ProcessExitCode, RecordExited(code)
    PROVE  /\ command' = NoCommand
           /\ recorder_test' \in C!V!TestRecord
           /\ recorder_test'.exitcode = recorder_test.exitcode
           /\ recorder_test'.steps = Append(recorder_test.steps, RecordedStep(command, code))
<1>1. RecordedStep(command, code) \in C!V!Step
  BY ConstantTypes DEF MockTypeOK, RecordedStep, C!V!Step
<1>2. /\ command' = NoCommand
      /\ recorder_test' = [recorder_test EXCEPT !.steps = Append(@, RecordedStep(command, code))]
  BY DEF RecordExited
<1>3. Append(recorder_test.steps, RecordedStep(command, code)) \in Seq(C!V!Step)
  BY <1>1, TestTyped
<1> QED BY <1>2, <1>3 DEF MockTypeOK, C!V!TestRecord

LEMMA MockStays ==
    ASSUME MockInv, UNCHANGED <<recorderVars, checker, recording, mode>>
    PROVE  MockInv'
BY DEF MockInv, recorderVars, checker, MockTypeOK, CheckerPart, RecorderPart, ReportPart,
   C!CheckerInv, C!TypeOK, C!StepsLeft, C!ResultReportsSteps, C!MocksFollowSteps

LEMMA ExitedKeeps ==
    ASSUME MockInv, NEW code \in ProcessExitCode, HandleExited(code),
           UNCHANGED <<checker, recording, mode>>
    PROVE  MockInv'
<1> USE DEF MockInv
<1>0. UNCHANGED <<test, steps, result, temporary_executables, received, verdict, recording, mode>>
  BY DEF checker
<1>1. ASSUME UNCHANGED recorderVars PROVE MockInv'
  BY <1>1, MockStays
<1>2. CASE mode = "recorder" /\ command # NoCommand /\ RecordExited(code)
  <2>1. /\ command' = NoCommand
        /\ recorder_test' \in C!V!TestRecord
        /\ recorder_test'.exitcode = recorder_test.exitcode
    BY <1>2, RecordExitedEffect
  <2> QED BY <1>0, <1>2, <2>1 DEF MockTypeOK, CheckerPart, RecorderPart, ReportPart
<1> QED BY <1>1, <1>2 DEF HandleExited, RecordExited, recorderVars

-----------------------------------------------------------------------------
(***************************************************************************)
(* A command is executed, by the script (parent = NoPid) or by another     *)
(* command.                                                                *)
(***************************************************************************)
Executes(p, c, parent) ==
    /\ ~Busy(p)
    /\ nested' = IF parent = NoPid THEN nested ELSE nested + 1
    /\ concurrent' = IF parent = NoPid /\ \E q \in Pid : Busy(q) THEN TRUE ELSE concurrent
    /\ Execute(p, c, parent)

\* Is it a command of the script itself that is mentioned?
Own(c, parent) == parent = NoPid /\ Mentioned(c)

\* What the state is after it, whatever the mock did.
Effect(p, c, parent) ==
    /\ MockInv /\ MockInv' /\ ScriptTypeOK'
    /\ UNCHANGED <<test, recording, outcome, interrupted, script_exitcode>> /\ outcome = NoValue
    /\ mode = "recorder" => mode' = "recorder"
    /\ nested' = 0 => nested = 0 /\ parent = NoPid
    /\ running'[p] = [command |-> c, mock |-> MockOf(c), code |-> NoValue,
                      nth |-> IF Own(c, parent) THEN Len(truth') ELSE 0, of |-> parent]
    /\ \A q \in Pid : q # p => running'[q] = running[q]
    /\ Len(truth) \in Nat
    /\ ~Own(c, parent) => truth' = truth
    /\ Own(c, parent) => /\ Len(truth') = Len(truth) + 1
                         /\ truth'[Len(truth')].command = c
                         /\ truth'[Len(truth')].exitcode = NoValue
    /\ \A i \in 1..Len(truth) : truth'[i] = truth[i]

LEMMA ExecuteEffect ==
    ASSUME IInv, NEW p \in Pid, NEW c \in Command, NEW parent \in Pid \cup {NoPid},
           Executes(p, c, parent)
    PROVE  Effect(p, c, parent)
<1> DEFINE entry == [command |-> c, exitcode |-> NoValue]
           process == [command |-> c, mock |-> MockOf(c), code |-> NoValue,
                       nth |-> IF Own(c, parent) THEN Len(truth') ELSE 0, of |-> parent]
<1>1. MockInv /\ ScriptTypeOK
  BY DEF IInv, TypeOK, MockInv
<1>2. /\ HandleExecveEnter(c) /\ outcome = NoValue
      /\ script_exitcode' = script_exitcode /\ interrupted' = interrupted
      /\ truth' = IF Own(c, parent) THEN Append(truth, entry) ELSE truth
      /\ running' = [running EXCEPT ![p] = process]
  BY DEF Executes, Execute, Own
<1>3. MockInv'
  BY <1>1, <1>2, CallbackKeeps
<1>4. /\ running \in [Pid -> Process] /\ nested \in Nat
      /\ truth \in Seq([command : Command, exitcode : ExitCode \cup {NoValue}])
      /\ concurrent \in BOOLEAN /\ interrupted \in BOOLEAN
      /\ script_exitcode \in ExitCode \cup {NoValue}
  BY <1>1 DEF ScriptTypeOK
<1>5. entry \in [command : Command, exitcode : ExitCode \cup {NoValue}]
  OBVIOUS
<1>6. /\ truth' \in Seq([command : Command, exitcode : ExitCode \cup {NoValue}])
      /\ Len(truth) \in Nat /\ Len(truth') \in Nat
      /\ Own(c, parent) => Len(truth') = Len(truth) + 1 /\ truth'[Len(truth')] = entry
      /\ \A i \in 1..Len(truth) : truth'[i] = truth[i]
  <2> HIDE DEF entry
  <2>1. CASE Own(c, parent)
    BY <1>2, <1>4, <1>5, <2>1
  <2>2. CASE ~Own(c, parent)
    BY <1>2, <1>4, <2>2
  <2> QED BY <2>1, <2>2
<1>7. process \in Process
  <2>1. MockOf(c) \in Nat
    <3>1. temporary_executables' \in Seq(C!Config)
      BY <1>3 DEF MockInv, MockTypeOK
    <3> QED BY <3>1 DEF MockOf
  <2> QED BY <1>6, <2>1 DEF Process
<1>8. running'[p] = process /\ \A q \in Pid : q # p => running'[q] = running[q]
  BY <1>2, <1>4
<1>9. running' \in [Pid -> Process]
  BY <1>2, <1>4, <1>7
<1>10. ScriptTypeOK' /\ (nested' = 0 => nested = 0 /\ parent = NoPid)
  <2>1. concurrent' \in BOOLEAN
    BY <1>4 DEF Executes
  <2>2. nested' \in Nat /\ (nested' = 0 => nested = 0 /\ parent = NoPid)
    BY <1>4 DEF Executes
  <2> QED BY <1>2, <1>4, <1>6, <1>9, <2>1, <2>2 DEF ScriptTypeOK
<1>11. /\ UNCHANGED <<test, recording, outcome>>
       /\ mode = "recorder" => mode' = "recorder"
  BY <1>2 DEF HandleExecveEnter, CheckOn, TurnIntoRecorder, RecordOn
<1> QED BY <1>1, <1>2, <1>3, <1>6, <1>8, <1>10, <1>11 DEF Effect

\* A mentioned command that is checked is one that the callback checked.
LEMMA StillChecker ==
    ASSUME IInv, NEW c \in Command, HandleExecveEnter(c), mode' = "checker"
    PROVE  /\ CheckOn(c)
           /\ Mentioned(c) <=> c \notin Unmocked
           /\ mode = "checker" /\ UNCHANGED recorderVars
           /\ Len(received) \in Nat /\ Len(temporary_executables') = Len(received')
           /\ ~Mentioned(c) => received' = received
           /\ Mentioned(c) => /\ received' = Append(received, c)
                              /\ Len(received') = Len(received) + 1
                              /\ received'[Len(received')] = c
                              /\ \A i \in 1..Len(received) : received'[i] = received[i]
<1>1. CheckOn(c) /\ UNCHANGED <<test, verdict>>
  BY DEF HandleExecveEnter, TurnIntoRecorder, RecordOn
<1>2. MockInv
  BY DEF IInv, TypeOK, MockInv
<1>3. Mentioned(c) <=> c \notin Unmocked
  BY <1>1, <1>2, CheckOnEffect DEF Mentioned, UnmockedCommands
<1>4. received \in Seq(Command \ Unmocked)
  BY <1>2 DEF MockInv, MockTypeOK
<1> QED BY <1>1, <1>2, <1>3, <1>4, CheckOnEffect

LEMMA ExecuteProcess ==
    ASSUME IInv, NEW p \in Pid, NEW c \in Command, NEW parent \in Pid \cup {NoPid},
           Executes(p, c, parent)
    PROVE  ProcessPart' /\ TruthPart' /\ OutcomePart'
<1>0. Effect(p, c, parent)
  BY ExecuteEffect
<1> USE <1>0 DEF Effect
<1>1. ProcessPart'
  <2>0. UnmockedCommands' = UnmockedCommands /\ Len(truth') \in Nat /\ Len(truth') >= Len(truth)
    <3>1. Len(truth') \in Nat /\ Len(truth') >= Len(truth)
      <4>1. CASE Own(c, parent)
        BY <4>1
      <4>2. CASE ~Own(c, parent)
        BY <4>2
      <4> QED BY <4>1, <4>2
    <3> QED BY <3>1 DEF UnmockedCommands
  <2> SUFFICES ASSUME NEW q \in Pid, Busy(q)'
               PROVE  /\ running'[q].command \in Command
                      /\ running'[q].nth \in 0..Len(truth')
                      /\ running'[q].command \notin UnmockedCommands /\ running'[q].mock = 0
                            => mode' = "recorder"
                      /\ nested' = 0 => running'[q].of = NoPid
    BY <2>0 DEF ProcessPart, Mentioned
  <2>1. CASE q # p
    <3>1. Busy(q) /\ running'[q] = running[q]
      BY <2>1 DEF Busy
    <3>2. /\ running[q].command \in Command
          /\ running[q].nth \in 0..Len(truth)
          /\ running[q].command \notin UnmockedCommands /\ running[q].mock = 0 => mode = "recorder"
          /\ nested = 0 => running[q].of = NoPid
      BY <3>1 DEF IInv, ProcessPart, Mentioned
    <3> QED BY <2>0, <3>1, <3>2
  <2>2. CASE q = p
    <3>1. /\ running'[q].command = c /\ running'[q].mock = MockOf(c)
          /\ running'[q].nth = IF Own(c, parent) THEN Len(truth') ELSE 0
          /\ running'[q].of = parent
      BY <2>2
    <3>2. ASSUME Mentioned(c), MockOf(c) = 0 PROVE mode' # "checker"
      <4> SUFFICES ASSUME mode' = "checker" PROVE FALSE
        OBVIOUS
      <4>1. /\ Len(temporary_executables') = Len(received) + 1 /\ Len(received) \in Nat
            /\ c \notin Unmocked
        BY <3>2, StillChecker DEF Executes, Execute
      <4> QED BY <3>2, <4>1 DEF MockOf
    <3>3. mode' \in {"checker", "recorder"}
      BY DEF MockInv, MockTypeOK
    <3>4. running'[q].nth \in 0..Len(truth')
      BY <2>0, <3>1
    <3> QED BY <3>1, <3>2, <3>3, <3>4 DEF Mentioned
  <2> QED BY <2>1, <2>2
<1>2. TruthPart'
  <2> SUFFICES ASSUME nested' = 0
               PROVE  /\ Len(received') <= Len(truth')
                      /\ mode' = "checker" => Len(truth') = Len(received')
                      /\ \A i \in 1..Len(received') : truth'[i].command = received'[i]
    BY DEF TruthPart
  <2>1. /\ nested = 0 /\ parent = NoPid
        /\ Len(received) <= Len(truth)
        /\ mode = "checker" => Len(truth) = Len(received)
        /\ \A i \in 1..Len(received) : truth[i].command = received[i]
    BY DEF IInv, TruthPart
  <2>2. Own(c, parent) <=> Mentioned(c)
    BY <2>1 DEF Own
  <2>3. CASE mode' = "checker"
    <3>1. CASE Mentioned(c)
      BY <2>1, <2>2, <2>3, <3>1, StillChecker DEF Executes, Execute
    <3>2. CASE ~Mentioned(c)
      BY <2>1, <2>2, <2>3, <3>2, StillChecker DEF Executes, Execute
    <3> QED BY <3>1, <3>2
  <2>4. CASE mode' # "checker"
    <3>1. received' = received
      BY <2>4 DEF Executes, Execute, HandleExecveEnter, CheckOn, TurnIntoRecorder, RecordOn
    <3>2. Len(received) \in Nat /\ Len(truth') >= Len(truth) /\ Len(truth') \in Nat
      BY TestTyped DEF MockInv
    <3> QED BY <2>1, <2>4, <3>1, <3>2
  <2> QED BY <2>3, <2>4
<1>3. OutcomePart'
  BY DEF OutcomePart
<1> QED BY <1>1, <1>2, <1>3

\* No step of the callback checks a command when it leaves a recorder behind.
LEMMA RecorderReceivesNothing ==
    ASSUME NEW c \in Command, HandleExecveEnter(c), mode' # "checker"
    PROVE  received' = received
BY DEF HandleExecveEnter, CheckOn, TurnIntoRecorder, RecordOn

\* A script that is not concurrent afterwards was not before.
LEMMA ExecuteAlone ==
    ASSUME NEW p \in Pid, NEW c, Executes(p, c, NoPid), ~concurrent'
    PROVE  ~concurrent /\ \A q \in Pid : ~Busy(q)
BY DEF Executes

LEMMA ExecuteMocks ==
    ASSUME IInv, NEW p \in Pid, NEW c \in Command, NEW parent \in Pid \cup {NoPid},
           Executes(p, c, parent)
    PROVE  MockIsNth' /\ StepsAreObeyed'
<1>0. Effect(p, c, parent)
  BY ExecuteEffect
<1> USE <1>0 DEF Effect
<1> SUFFICES ASSUME nested' = 0, mode' = "checker" \/ ~concurrent'
             PROVE  /\ \A q \in Pid :
                        Busy(q)' /\ running'[q].nth # 0 /\ running'[q].nth <= Len(test.steps) =>
                          /\ mode' = "checker"
                          /\ running'[q].mock = running'[q].nth
                          /\ running'[q].mock <= Len(received')
                          /\ running'[q].code # NoValue =>
                              running'[q].code = ProcessCode(test.steps[running'[q].nth].exitcode)
                    /\ \A i \in 1..Len(truth') : i <= Len(test.steps) /\ truth'[i].exitcode # NoValue
                          => truth'[i].exitcode = ProcessCode(test.steps[i].exitcode)
  BY DEF MockIsNth, StepsAreObeyed, ProcessCode
<1>1. /\ nested = 0 /\ parent = NoPid /\ (mode = "checker" \/ ~concurrent)
      /\ mode' \in {"checker", "recorder"} /\ mode \in {"checker", "recorder"}
      /\ Own(c, parent) <=> Mentioned(c)
  <2>1. /\ nested = 0 /\ parent = NoPid /\ (Own(c, parent) <=> Mentioned(c))
        /\ mode' \in {"checker", "recorder"} /\ mode \in {"checker", "recorder"}
    BY DEF MockInv, MockTypeOK, Own
  <2>2. mode' = "checker" => mode = "checker"
    BY <2>1
  <2>3. ~concurrent' => ~concurrent
    BY <2>1, ExecuteAlone
  <2> QED BY <2>1, <2>2, <2>3
<1>2. /\ HandleExecveEnter(c)
      /\ Len(received) \in Nat /\ Len(received') \in Nat /\ Len(test.steps) \in Nat
      /\ Len(received) <= Len(truth)
      /\ Len(received') >= Len(received)
      /\ mode' = "recorder" => Len(received) = Len(test.steps)
  <2>1. HandleExecveEnter(c)
    BY DEF Executes, Execute
  <2>2. Len(received) \in Nat /\ Len(test.steps) \in Nat /\ Len(received) <= Len(truth)
    BY <1>1, TestTyped DEF MockInv, IInv, TruthPart
  <2>3. mode' = "recorder" => received' = received /\ Len(received') = Len(test.steps)
    BY <2>1, RecorderReceivesNothing DEF MockInv, RecorderPart
  <2>4. mode' = "checker" => received' = received \/ Len(received') = Len(received) + 1
    BY <2>1, StillChecker
  <2> QED BY <1>1, <2>1, <2>2, <2>3, <2>4
<1>3. ASSUME NEW q \in Pid, Busy(q)', running'[q].nth # 0, running'[q].nth <= Len(test.steps)
      PROVE  /\ mode' = "checker"
             /\ running'[q].mock = running'[q].nth
             /\ running'[q].mock <= Len(received')
             /\ running'[q].code # NoValue =>
                 running'[q].code = ProcessCode(test.steps[running'[q].nth].exitcode)
  <2>1. CASE q # p
    <3>1. Busy(q) /\ running'[q] = running[q]
      BY <1>3, <2>1 DEF Busy
    <3>2. /\ mode = "checker"
          /\ running[q].mock = running[q].nth /\ running[q].mock <= Len(received)
          /\ running[q].code # NoValue =>
              running[q].code = ProcessCode(test.steps[running[q].nth].exitcode)
      BY <1>1, <1>3, <3>1 DEF IInv, MockIsNth
    <3>3. running[q].mock \in Nat
      BY DEF IInv, TypeOK, ScriptTypeOK, Process
    <3>4. concurrent'
      BY <1>1, <3>1 DEF Executes
    <3> QED BY <1>1, <1>2, <3>1, <3>2, <3>3, <3>4
  <2>2. CASE q = p
    <3>1. /\ Own(c, parent) /\ running'[q].nth = Len(truth') /\ Len(truth') = Len(truth) + 1
          /\ running'[q].mock = MockOf(c) /\ running'[q].code = NoValue
      BY <1>3, <2>2
    <3>2. mode' = "checker"
      BY <1>1, <1>2, <1>3, <3>1
    <3>3. MockOf(c) = Len(received') /\ Len(received') = Len(truth')
      <4>1. c \notin Unmocked /\ Len(temporary_executables') = Len(received')
        BY <1>1, <1>2, <3>1, <3>2, StillChecker
      <4>2. Len(truth') = Len(received')
        BY <3>2, ExecuteProcess DEF TruthPart
      <4> QED BY <3>2, <4>1, <4>2 DEF MockOf
    <3> QED BY <1>2, <3>1, <3>2, <3>3
  <2> QED BY <2>1, <2>2
<1>4. ASSUME NEW i \in 1..Len(truth'), i <= Len(test.steps), truth'[i].exitcode # NoValue
      PROVE  truth'[i].exitcode = ProcessCode(test.steps[i].exitcode)
  <2>1. i \in 1..Len(truth) /\ truth'[i] = truth[i]
    <3>1. CASE Own(c, parent)
      BY <1>4, <3>1
    <3>2. CASE ~Own(c, parent)
      BY <3>2
    <3> QED BY <3>1, <3>2
  <2> QED BY <1>1, <1>4, <2>1 DEF IInv, StepsAreObeyed
<1> QED BY <1>3, <1>4

LEMMA ExecuteSequence ==
    ASSUME IInv, NEW p \in Pid, NEW c \in Command, NEW parent \in Pid \cup {NoPid},
           Executes(p, c, parent)
    PROVE  SequencePart'
<1>0. Effect(p, c, parent)
  BY ExecuteEffect
<1> USE <1>0 DEF Effect
<1> SUFFICES ASSUME ~concurrent', nested' = 0, ~interrupted' PROVE SequencePart'
  BY DEF SequencePart, Sequential
<1>1. /\ nested = 0 /\ parent = NoPid /\ ~concurrent /\ Sequential /\ Sequential'
      /\ \A q \in Pid : ~Busy(q)
      /\ Own(c, parent) <=> Mentioned(c)
  <2>1. nested = 0 /\ parent = NoPid
    OBVIOUS
  <2>2. ~concurrent /\ \A q \in Pid : ~Busy(q)
    BY <2>1, ExecuteAlone
  <2> QED BY <2>1, <2>2 DEF Own, Sequential
<1>2. \A q \in Pid : Busy(q)' => q = p
  BY <1>1 DEF Busy
<1>3. Busy(p)'
  BY ConstantTypes DEF Busy, Idle
<1>4. ASSUME mode' = "recorder"
      PROVE  /\ \A q \in Pid : Busy(q)' /\ running'[q].nth # 0 =>
                running'[q].nth = Len(truth') /\ command' # NoCommand
             /\ command' # NoCommand =>
                /\ Len(truth') > Len(test.steps)
                /\ command' = truth'[Len(truth')].command
                /\ \E q \in Pid : Busy(q)' /\ running'[q].nth = Len(truth')
             /\ Len(recorder_test'.steps) =
                IF command' = NoCommand THEN Len(truth') ELSE Len(truth') - 1
             /\ \A i \in 1..Len(recorder_test'.steps) :
                recorder_test'.steps[i] =
                    IF i <= Len(test.steps) THEN test.steps[i]
                    ELSE RecordedStep(truth'[i].command, truth'[i].exitcode)
  <2>1. HandleExecveEnter(c) /\ received' = received /\ Len(received) = Len(test.steps)
    <3>1. HandleExecveEnter(c)
      BY DEF Executes, Execute
    <3> QED BY <1>4, <3>1, RecorderReceivesNothing DEF MockInv, RecorderPart
  <2>2. /\ Len(test.steps) \in Nat /\ Len(test.steps) <= Len(truth)
        /\ mode = "checker" => Len(test.steps) = Len(truth)
    BY <1>1, <2>1, TestTyped DEF MockInv, IInv, TruthPart
  <2>3. /\ command' = IF Mentioned(c) THEN c ELSE NoCommand
        /\ Len(recorder_test'.steps) = Len(truth)
        /\ \A i \in 1..Len(truth) :
            recorder_test'.steps[i] =
                IF i <= Len(test.steps) THEN test.steps[i]
                ELSE RecordedStep(truth[i].command, truth[i].exitcode)
    <3>1. CASE TurnIntoRecorder(c)
      BY <2>2, <3>1 DEF TurnIntoRecorder, Mentioned
    <3>2. CASE RecordOn(c)
      <4>1. mode = "recorder" /\ recorder_test' = recorder_test
        BY <3>2 DEF RecordOn, RecordExecve
      <4>2. command = NoCommand
        BY <1>1, <4>1 DEF IInv, SequencePart
      <4>3. /\ Len(recorder_test.steps) = Len(truth)
            /\ \A i \in 1..Len(truth) :
                recorder_test.steps[i] =
                    IF i <= Len(test.steps) THEN test.steps[i]
                    ELSE RecordedStep(truth[i].command, truth[i].exitcode)
        BY <1>1, <4>1, <4>2 DEF IInv, SequencePart
      <4> QED BY <3>2, <4>1, <4>2, <4>3 DEF RecordOn, RecordExecve, Mentioned
    <3> QED BY <1>4, <2>1, <3>1, <3>2 DEF HandleExecveEnter, CheckOn
  <2>4. CASE Mentioned(c)
    <3>1. /\ Own(c, parent) /\ command' = c /\ c # NoCommand
          /\ Len(truth') = Len(truth) + 1 /\ truth'[Len(truth')].command = c
          /\ running'[p].nth = Len(truth')
      BY <1>1, <2>3, <2>4, ConstantTypes
    <3> QED BY <1>2, <1>3, <2>2, <2>3, <3>1
  <2>5. CASE ~Mentioned(c)
    <3>1. ~Own(c, parent) /\ command' = NoCommand /\ truth' = truth /\ running'[p].nth = 0
      BY <1>1, <2>3, <2>5
    <3> QED BY <1>2, <2>3, <3>1
  <2> QED BY <2>4, <2>5
<1> QED BY <1>2, <1>4 DEF SequencePart, RecordedStep

LEMMA ExecuteInv ==
    ASSUME IInv, NEW p \in Pid, NEW c \in Command, NEW parent \in Pid \cup {NoPid},
           Executes(p, c, parent)
    PROVE  IInv'
<1>1. MockInv' /\ ScriptTypeOK'
  BY ExecuteEffect DEF Effect
<1>2. ProcessPart' /\ TruthPart' /\ OutcomePart'
  BY ExecuteProcess
<1>3. MockIsNth' /\ StepsAreObeyed'
  BY ExecuteMocks
<1>4. SequencePart'
  BY ExecuteSequence
<1> QED BY <1>1, <1>2, <1>3, <1>4 DEF IInv, TypeOK, MockInv

-----------------------------------------------------------------------------
(***************************************************************************)
(* A mock executable reads its file.                                       *)
(***************************************************************************)
LEMMA LoadMockInv ==
    ASSUME IInv, NEW p \in Pid, LoadMock(p)
    PROVE  IInv'
<1> DEFINE config == temporary_executables[running[p].mock]
<1>1. MockInv /\ MockInv' /\ ScriptTypeOK
  BY MockStays DEF IInv, TypeOK, MockInv, LoadMock
<1>2. /\ UNCHANGED <<test, temporary_executables, received, result, recorder_test, command,
                     recording, mode, outcome, truth, concurrent, nested, interrupted,
                     script_exitcode>>
      /\ running' = [running EXCEPT ![p].code = ProcessCode(config.exitcode)]
      /\ Busy(p) /\ running[p].mock # 0 /\ MockExists(p)
  BY DEF LoadMock, checker, recorderVars
<1>3. running \in [Pid -> Process] /\ running[p].mock \in Nat
  BY <1>1 DEF ScriptTypeOK, Process
<1>4. config \in C!Config /\ ProcessCode(config.exitcode) \in ExitCode
  <2>1. temporary_executables \in Seq(C!Config)
    BY <1>1 DEF MockInv, MockTypeOK
  <2>2. running[p].mock \in 1..Len(temporary_executables)
    BY <1>2, <1>3, <2>1 DEF MockExists
  <2>3. config \in C!Config
    BY <2>1, <2>2
  <2>4. config.exitcode \in Nat
    BY <2>3, ConstantTypes DEF C!Config
  <2> QED BY <2>3, <2>4, ConstantTypes
<1>5. /\ running' \in [Pid -> Process]
      /\ running'[p].code = ProcessCode(config.exitcode)
      /\ \A q \in Pid : /\ q # p => running'[q] = running[q]
                        /\ running'[q].command = running[q].command
                        /\ running'[q].mock = running[q].mock
                        /\ running'[q].nth = running[q].nth
                        /\ running'[q].of = running[q].of
  BY <1>2, <1>3, <1>4 DEF Process
<1>6. \A q \in Pid : Busy(q)' <=> Busy(q)
  BY <1>2, <1>5 DEF Busy, Idle
<1>7. ScriptTypeOK' /\ UnmockedCommands' = UnmockedCommands
  BY <1>1, <1>2, <1>5 DEF ScriptTypeOK, UnmockedCommands
<1>8. ProcessPart'
  BY <1>2, <1>5, <1>6, <1>7 DEF IInv, ProcessPart, Mentioned
<1>9. TruthPart' /\ StepsAreObeyed'
  BY <1>2 DEF IInv, TruthPart, StepsAreObeyed, ProcessCode
<1>10. OutcomePart'
  BY <1>2 DEF IInv, OutcomePart
<1>11. SequencePart'
  BY <1>2, <1>5, <1>6 DEF IInv, SequencePart, Sequential, RecordedStep
<1>12. MockIsNth'
  <2>4. nested' = nested /\ mode' = mode /\ concurrent' = concurrent /\ test' = test
        /\ received' = received
    BY <1>2
  <2>5. \A q \in Pid : running'[q].mock = running[q].mock /\ running'[q].nth = running[q].nth
    BY <1>5
  <2> SUFFICES ASSUME nested = 0, mode = "checker" \/ ~concurrent, NEW q \in Pid, Busy(q),
                      running[q].nth # 0, running[q].nth <= Len(test.steps)
               PROVE  /\ mode = "checker"
                      /\ running[q].mock = running[q].nth
                      /\ running[q].mock <= Len(received)
                      /\ running'[q].code # NoValue =>
                          running'[q].code = ProcessCode(test.steps[running[q].nth].exitcode)
    BY <1>6, <2>4, <2>5 DEF MockIsNth, ProcessCode
  <2>1. /\ mode = "checker" /\ running[q].mock = running[q].nth
        /\ running[q].mock <= Len(received)
        /\ running[q].code # NoValue =>
            running[q].code = ProcessCode(test.steps[running[q].nth].exitcode)
    BY DEF IInv, MockIsNth
  <2>2. CASE q # p
    BY <1>5, <2>1, <2>2
  <2>3. CASE q = p
    <3>1. C!MocksFollowSteps
      BY <1>1, <2>1 DEF MockInv, CheckerPart, C!CheckerInv
    <3>2. running[p].mock \in 1..Len(received) /\ ~(running[p].mock > Len(test.steps))
      BY <1>1, <1>2, <1>3, <2>1, <2>3, TestTyped DEF MockInv
    <3>3. config = [stdout |-> test.steps[running[p].mock].stdout,
                    exitcode |-> test.steps[running[p].mock].exitcode]
      BY Zenon, <3>1, <3>2 DEF C!MocksFollowSteps
    <3> QED BY <1>5, <2>1, <2>3, <3>3
  <2> QED BY <2>2, <2>3
<1> QED BY <1>1, <1>7, <1>8, <1>9, <1>10, <1>11, <1>12 DEF IInv, TypeOK, MockInv

-----------------------------------------------------------------------------
(***************************************************************************)
(* A process exits.                                                        *)
(***************************************************************************)
LEMMA ExitInv ==
    ASSUME IInv, NEW p \in Pid, NEW code \in ProcessExitCode, Exit(p, code)
    PROVE  IInv'
<1> DEFINE Entry == [command : Command, exitcode : ExitCode \cup {NoValue}]
           nth == running[p].nth
<1>1. MockInv /\ MockInv' /\ ScriptTypeOK
  BY ExitedKeeps DEF IInv, TypeOK, MockInv, Exit
<1>2. /\ UNCHANGED <<test, temporary_executables, received, result,
                     recording, mode, outcome, concurrent, nested, interrupted,
                     script_exitcode>>
      /\ running' = [running EXCEPT ![p] = Idle]
      /\ truth' = IF nth = 0 THEN truth ELSE [truth EXCEPT ![nth].exitcode = code]
      /\ Busy(p) /\ code \in Exits(p) /\ HandleExited(code)
  BY DEF Exit, checker
<1>3. running \in [Pid -> Process] /\ truth \in Seq(Entry) /\ Len(truth) \in Nat
      /\ nth \in 0..Len(truth) /\ code \in ExitCode
  BY <1>1, <1>2, ConstantTypes DEF ScriptTypeOK, IInv, ProcessPart
<1>4. /\ running' \in [Pid -> Process] /\ ~Busy(p)'
      /\ \A q \in Pid : Busy(q)' => q # p /\ Busy(q) /\ running'[q] = running[q]
  <2>1. Idle \in Process
    BY DEF Idle, Process
  <2> QED BY <1>2, <1>3, <2>1 DEF Busy
<1>5. /\ truth' \in Seq(Entry) /\ Len(truth') = Len(truth)
      /\ \A i \in 1..Len(truth) : /\ truth'[i].command = truth[i].command
                                  /\ i # nth => truth'[i] = truth[i]
                                  /\ i = nth => truth'[i].exitcode = code
  <2>1. CASE nth = 0
    BY <1>2, <1>3, <2>1
  <2>2. CASE nth # 0
    <3>1. nth \in 1..Len(truth) /\ truth[nth] \in Entry
      <4> HIDE DEF Entry, nth
      <4>1. nth \in 1..Len(truth)
        BY <1>3, <2>2
      <4> QED BY <1>3, <4>1
    <3>2. [truth[nth] EXCEPT !.exitcode = code] \in Entry
      BY <1>3, <3>1
    <3>3. truth' = [truth EXCEPT ![nth] = [truth[nth] EXCEPT !.exitcode = code]]
      BY <1>2, <2>2
    <3>4. truth' \in Seq(Entry) /\ Len(truth') = Len(truth)
      <4> HIDE DEF Entry, nth
      <4> QED BY <1>3, <3>1, <3>2, <3>3, ExceptSeq
    <3> QED BY <1>3, <3>1, <3>3, <3>4
  <2> QED BY <2>1, <2>2
<1>6. ScriptTypeOK' /\ UnmockedCommands' = UnmockedCommands
  BY <1>1, <1>2, <1>4, <1>5 DEF ScriptTypeOK, UnmockedCommands
<1>7. ProcessPart'
  BY <1>2, <1>4, <1>5, <1>6 DEF IInv, ProcessPart, Mentioned
<1>8. TruthPart'
  BY <1>1, <1>2, <1>3, <1>5, TestTyped DEF IInv, TruthPart, MockInv
<1>9. OutcomePart'
  BY <1>2 DEF IInv, OutcomePart
<1>10. MockIsNth'
  BY <1>2, <1>4 DEF IInv, MockIsNth, ProcessCode
<1>11. StepsAreObeyed'
  <2> SUFFICES ASSUME nested = 0, mode = "checker" \/ ~concurrent, NEW i \in 1..Len(truth),
                      i <= Len(test.steps), truth'[i].exitcode # NoValue
               PROVE  truth'[i].exitcode = ProcessCode(test.steps[i].exitcode)
    BY <1>2, <1>5 DEF StepsAreObeyed, ProcessCode
  <2>1. CASE i # nth
    BY <1>5, <2>1 DEF IInv, StepsAreObeyed
  <2>2. CASE i = nth
    <3>1. /\ mode = "checker" /\ running[p].mock = nth /\ running[p].mock <= Len(received)
          /\ running[p].code # NoValue =>
              running[p].code = ProcessCode(test.steps[nth].exitcode)
      BY <1>2, <1>3, <2>2 DEF IInv, MockIsNth
    <3>2. MockExists(p)
      BY <1>1, <3>1 DEF MockInv, CheckerPart, C!CheckerInv, C!MocksFollowSteps, MockExists
    <3>3. code = running[p].code /\ running[p].code # NoValue
      BY <1>2, <1>3, <2>2, <3>1, <3>2 DEF Exits
    <3> QED BY <1>5, <2>2, <3>1, <3>3
  <2> QED BY <2>1, <2>2
<1>12. SequencePart'
  <2> SUFFICES ASSUME Sequential PROVE SequencePart'
    BY <1>2 DEF SequencePart, Sequential
  <2>1. \A q \in Pid : ~Busy(q)'
    BY <1>2, <1>4 DEF IInv, SequencePart
  <2>2. ASSUME mode = "recorder"
        PROVE  /\ command' = NoCommand
               /\ Len(recorder_test'.steps) = Len(truth)
               /\ \A i \in 1..Len(recorder_test'.steps) :
                    recorder_test'.steps[i] =
                        IF i <= Len(test.steps) THEN test.steps[i]
                        ELSE RecordedStep(truth'[i].command, truth'[i].exitcode)
    <3>1. RecordExited(code)
      BY <1>2, <2>2 DEF HandleExited
    <3>2. /\ nth # 0 => nth = Len(truth) /\ command # NoCommand
          /\ command # NoCommand => /\ Len(truth) > Len(test.steps)
                                    /\ command = truth[Len(truth)].command
                                    /\ nth = Len(truth)
          /\ Len(recorder_test.steps) =
                IF command = NoCommand THEN Len(truth) ELSE Len(truth) - 1
          /\ \A i \in 1..Len(recorder_test.steps) :
                recorder_test.steps[i] =
                    IF i <= Len(test.steps) THEN test.steps[i]
                    ELSE RecordedStep(truth[i].command, truth[i].exitcode)
      BY <1>2, <2>2 DEF IInv, SequencePart
    <3>3. CASE command = NoCommand
      <4>1. command' = NoCommand /\ recorder_test' = recorder_test /\ nth = 0
        BY <3>1, <3>2, <3>3 DEF RecordExited, recorderVars
      <4> QED BY <1>2, <3>2, <3>3, <4>1
    <3>4. CASE command # NoCommand
      <4>1. /\ command' = NoCommand
            /\ recorder_test'.steps = Append(recorder_test.steps, RecordedStep(command, code))
        BY <1>1, <3>1, <3>4, RecordExitedEffect DEF MockInv
      <4>2. /\ nth = Len(truth) /\ Len(truth) > Len(test.steps)
            /\ command = truth[Len(truth)].command
            /\ Len(recorder_test.steps) = Len(truth) - 1 /\ Len(test.steps) \in Nat
            /\ recorder_test.steps \in Seq(C!V!Step)
        BY <1>1, <3>2, <3>4, TestTyped DEF MockInv
      <4>3. Len(recorder_test'.steps) = Len(truth)
        BY <1>3, <4>1, <4>2
      <4>4. ASSUME NEW i \in 1..Len(truth)
            PROVE  recorder_test'.steps[i] =
                        IF i <= Len(test.steps) THEN test.steps[i]
                        ELSE RecordedStep(truth'[i].command, truth'[i].exitcode)
        <5>1. CASE i = Len(truth)
          <6>1. recorder_test'.steps[i] = RecordedStep(command, code)
            BY <1>3, <4>1, <4>2, <5>1
          <6>2. truth'[i].command = command /\ truth'[i].exitcode = code
            BY <1>5, <4>2, <5>1
          <6> QED BY <1>3, <4>2, <5>1, <6>1, <6>2
        <5>2. CASE i # Len(truth)
          <6>1. i \in 1..Len(recorder_test.steps)
            BY <1>3, <4>2, <5>2
          <6>2. recorder_test'.steps[i] = recorder_test.steps[i]
            BY <4>1, <4>2, <6>1
          <6>3. truth'[i] = truth[i]
            BY <1>5, <4>2, <5>2
          <6> QED BY <3>2, <6>1, <6>2, <6>3
        <5> QED BY <5>1, <5>2
      <4> QED BY <4>1, <4>3, <4>4
    <3> QED BY <3>3, <3>4
  <2> QED BY <1>2, <1>5, <2>1, <2>2 DEF SequencePart, RecordedStep
<1> QED BY <1>1, <1>6, <1>7, <1>8, <1>9, <1>10, <1>11, <1>12 DEF IInv, TypeOK, MockInv

\* A process exits that executed no command: it empties the slot of a command that
\* runs, but there is none while nothing runs.
LEMMA BystanderInv ==
    ASSUME IInv, NEW code \in ProcessExitCode, BystanderExits(code)
    PROVE  IInv'
<1>1. MockInv /\ MockInv' /\ ScriptTypeOK
  BY ExitedKeeps DEF IInv, TypeOK, MockInv, BystanderExits
<1>2. /\ UNCHANGED <<test, temporary_executables, received, result, recording, mode, outcome,
                     running, truth, concurrent, nested, script_exitcode>>
      /\ outcome = NoValue /\ HandleExited(code)
  BY DEF BystanderExits, checker
<1>3. interrupted' \in BOOLEAN
  BY <1>1 DEF BystanderExits, ScriptTypeOK
<1>4. ScriptTypeOK' /\ ProcessPart' /\ TruthPart'
  BY <1>1, <1>2, <1>3
  DEF IInv, ScriptTypeOK, ProcessPart, TruthPart, Mentioned, UnmockedCommands, Busy
<1>5. MockIsNth' /\ StepsAreObeyed' /\ OutcomePart'
  BY <1>2 DEF IInv, MockIsNth, StepsAreObeyed, OutcomePart, ProcessCode, Busy
<1>6. SequencePart'
  <2> SUFFICES ASSUME Sequential' PROVE SequencePart'
    BY DEF SequencePart
  <2>1. Sequential /\ \A p \in Pid : ~Busy(p)
    BY <1>2 DEF Sequential, BystanderExits
  <2>2. UNCHANGED recorderVars
    <3>1. mode = "recorder" => command = NoCommand
      BY <2>1 DEF IInv, SequencePart
    <3> QED BY <1>2, <3>1 DEF HandleExited, RecordExited
  <2> QED BY <1>2, <2>1, <2>2 DEF IInv, SequencePart, RecordedStep, recorderVars, Busy
<1> QED BY <1>1, <1>4, <1>5, <1>6 DEF IInv, TypeOK, MockInv

-----------------------------------------------------------------------------
(***************************************************************************)
(* The script starts and ends.                                             *)
(***************************************************************************)
LEMMA EndsInv ==
    ASSUME IInv, NEW code \in ProcessExitCode, ScriptEnds(code)
    PROVE  IInv'
<1>1. MockInv /\ MockInv' /\ ScriptTypeOK
  BY MockStays DEF IInv, TypeOK, MockInv, ScriptEnds
<1>2. /\ UNCHANGED <<test, received, result, recorder_test, command, recording, mode, running,
                     truth, concurrent, nested, interrupted>>
      /\ HandleEnd(code) /\ script_exitcode' = code /\ code \in ExitCode
      /\ \A p \in Pid : ~Busy(p)
  BY ConstantTypes DEF ScriptEnds, checker, recorderVars
<1>3. \A p \in Pid : ~Busy(p)'
  BY <1>2 DEF Busy
<1>4. ScriptTypeOK' /\ ProcessPart' /\ TruthPart' /\ MockIsNth'
  BY <1>1, <1>2, <1>3 DEF IInv, ScriptTypeOK, ProcessPart, TruthPart, MockIsNth
<1>5. StepsAreObeyed'
  BY <1>2 DEF IInv, StepsAreObeyed, ProcessCode
<1>6. SequencePart'
  BY <1>2, <1>3 DEF IInv, SequencePart, Sequential, RecordedStep, Busy
<1>7. OutcomePart'
  BY <1>2, <1>3 DEF OutcomePart, HandleEnd, ProcessExitCode, RecordEnd
<1> QED BY <1>1, <1>4, <1>5, <1>6, <1>7 DEF IInv, TypeOK, MockInv

LEMMA StutterInv == IInv /\ UNCHANGED vars => IInv'
<1> SUFFICES ASSUME IInv, UNCHANGED vars PROVE IInv'
  OBVIOUS
<1>1. MockInv'
  BY MockStays DEF IInv, TypeOK, MockInv, vars
<1>2. /\ UNCHANGED <<test, received, result, recorder_test, command, recording, mode, running,
                     truth, concurrent, nested, interrupted, script_exitcode, outcome>>
  BY DEF vars, checker, recorderVars, environment
<1>3. ScriptTypeOK' /\ ProcessPart' /\ TruthPart'
  BY <1>2 DEF IInv, TypeOK, ScriptTypeOK, ProcessPart, TruthPart, Mentioned, UnmockedCommands, Busy
<1>4. MockIsNth' /\ StepsAreObeyed'
  BY <1>2 DEF IInv, MockIsNth, StepsAreObeyed, ProcessCode, Busy
<1>5. SequencePart'
  BY <1>2 DEF IInv, SequencePart, Sequential, RecordedStep, Busy
<1>6. OutcomePart'
  BY <1>2 DEF IInv, OutcomePart, RecordEnd, Busy, ProcessExitCode
<1> QED BY <1>1, <1>3, <1>4, <1>5, <1>6 DEF IInv, TypeOK, MockInv

LEMMA InitInv == Init => IInv
<1> SUFFICES ASSUME Init PROVE IInv
  OBVIOUS
<1>1. EmptyTest \in C!V!TestRecord /\ EmptyTest.steps = <<>>
  BY DEF EmptyTest, C!V!TestRecord
<1>2. test \in C!V!TestRecord /\ test.steps \in Seq(C!V!Step)
  <2>1. test \in C!V!TestRecord
    BY <1>1, ConstantTypes DEF Init
  <2> QED BY <2>1 DEF C!V!TestRecord
<1>3. MockTypeOK
  BY <1>1, <1>2 DEF Init, MockTypeOK, C!Results
<1>4. ScriptTypeOK /\ \A p \in Pid : ~Busy(p)
  <2>1. Idle \in Process
    BY DEF Idle, Process
  <2>2. running = [p \in Pid |-> Idle] /\ truth = <<>> /\ concurrent = FALSE /\ nested = 0
        /\ interrupted = FALSE /\ script_exitcode = NoValue
    BY DEF Init
  <2>3. running \in [Pid -> Process]
    BY <2>1, <2>2
  <2>4. truth \in Seq([command : Command, exitcode : ExitCode \cup {NoValue}])
    BY <2>2
  <2> QED BY <2>2, <2>3, <2>4 DEF ScriptTypeOK, Busy
<1>5. CheckerPart
  <2> SUFFICES ASSUME mode = "checker" PROVE ~recording /\ C!CheckerInv /\ command = NoCommand
    BY DEF CheckerPart
  <2>1. ~recording /\ P!Init
    BY DEF Init, P!Init, C!Pass, P!Pass, C!V!Pass, P!V!Pass
  <2> QED BY <2>1, CheckerAssumed, P!InitInv, CheckerIsSame DEF Init
<1>6. RecorderPart
  BY <1>1 DEF Init, RecorderPart
<1>7. ReportPart
  BY DEF Init, ReportPart, C!V!StepsReport, C!Pass
<1>8. ProcessPart /\ TruthPart /\ MockIsNth /\ StepsAreObeyed /\ OutcomePart
  BY <1>4 DEF Init, ProcessPart, TruthPart, MockIsNth, StepsAreObeyed, OutcomePart
<1>9. SequencePart
  BY <1>1, <1>4 DEF Init, SequencePart
<1> QED BY <1>3, <1>4, <1>5, <1>6, <1>7, <1>8, <1>9 DEF IInv, TypeOK

LEMMA NextInv == IInv /\ [Next]_vars => IInv'
<1> SUFFICES ASSUME IInv, [Next]_vars PROVE IInv'
  OBVIOUS
<1>1. ASSUME NEW p \in Pid, NEW c \in Command, RunCommand(p, c) PROVE IInv'
  <2>1. Executes(p, c, NoPid)
    BY <1>1 DEF RunCommand, Executes
  <2> QED BY <2>1, ExecuteInv
<1>2. ASSUME NEW p \in Pid, NEW q \in Pid, NEW c \in Command, RunNested(p, c, q) PROVE IInv'
  <2>1. Executes(p, c, q)
    BY <1>2, ConstantTypes DEF RunNested, Executes
  <2> QED BY <2>1, ExecuteInv
<1> QED BY <1>1, <1>2, LoadMockInv, ExitInv, BystanderInv, EndsInv, StutterInv DEF Next, Ended

\* The mock, its processes and what was recorded correspond to what the script did.
THEOREM HoleRecorderInvariant == Spec => []IInv
BY InitInv, NextInv, PTL DEF Spec

\* Every variable has its type.
THEOREM HoleRecorderTypeCorrect == Spec => []TypeOK
<1>1. IInv => TypeOK
  BY DEF IInv
<1> QED BY <1>1, HoleRecorderInvariant, PTL

-----------------------------------------------------------------------------
(***************************************************************************)
(* What follows for the outcome.                                           *)
(***************************************************************************)
\* What is recorded at the end, and from what.
LEMMA RecordedOutcome ==
    ASSUME IInv, IsRecorded
    PROVE  LET t == IF mode = "recorder" THEN recorder_test ELSE test IN
           /\ outcome[2] = RecordEnd(t, script_exitcode)
           /\ t \in C!V!TestRecord
           /\ t.exitcode = test.exitcode
           /\ outcome[2] \in C!V!TestRecord
           /\ outcome[2].steps = t.steps
           /\ outcome[2].exitcode = IF script_exitcode # 0 THEN script_exitcode ELSE test.exitcode
           /\ script_exitcode \in ExitCode
           /\ \A p \in Pid : ~Busy(p)
           /\ result = C!Pass
<1> DEFINE t == IF mode = "recorder" THEN recorder_test ELSE test
<1>1. /\ \A p \in Pid : ~Busy(p)
      /\ script_exitcode \in ProcessExitCode
      /\ outcome =
            IF mode = "recorder" THEN <<"Recorded", RecordEnd(recorder_test, script_exitcode)>>
            ELSE IF result = C!Pass THEN <<"Recorded", RecordEnd(test, script_exitcode)>>
            ELSE <<"Checked", test, result>>
  BY DEF IInv, OutcomePart, IsRecorded
<1>2. MockInv
  BY DEF IInv, TypeOK, MockInv
<1>3. result = C!Pass /\ t.exitcode = test.exitcode
  BY <1>1, <1>2 DEF MockInv, RecorderPart, IsRecorded
<1>4. outcome[2] = RecordEnd(t, script_exitcode)
  BY <1>1, <1>3
<1>5. t \in C!V!TestRecord
  BY <1>2, TestTyped DEF MockInv, MockTypeOK
<1>6. script_exitcode \in ExitCode
  BY <1>1, ConstantTypes
<1>7. /\ RecordEnd(t, script_exitcode) \in C!V!TestRecord
      /\ RecordEnd(t, script_exitcode).steps = t.steps
      /\ RecordEnd(t, script_exitcode).exitcode =
            IF script_exitcode # 0 THEN script_exitcode ELSE t.exitcode
  <2> HIDE DEF t
  <2> QED BY <1>5, <1>6 DEF RecordEnd, C!V!TestRecord
<1> QED BY <1>1, <1>3, <1>4, <1>5, <1>6, <1>7

\* While no command was run by another one, the commands of the script up to the
\* hole are those that were checked.
LEMMA CheckedFirst ==
    ASSUME IInv, nested = 0, NEW i \in 1..Len(truth), i <= Len(test.steps)
    PROVE  i \in 1..Len(received) /\ truth[i].command = received[i]
<1>1. MockInv /\ mode \in {"checker", "recorder"}
  BY DEF IInv, TypeOK, MockInv, MockTypeOK
<1>2. i \in 1..Len(received)
  BY <1>1, TestTyped DEF MockInv, RecorderPart, IInv, TruthPart
<1> QED BY <1>2 DEF IInv, TruthPart

(***************************************************************************)
(* A deviation of a checked command is never recorded.                     *)
(***************************************************************************)
THEOREM DeviationReported == Spec => []DeviationIsReported
<1>1. IInv => DeviationIsReported
  BY RecordedOutcome DEF DeviationIsReported, IInv, ReportPart
<1> QED BY <1>1, HoleRecorderInvariant, PTL

\* Neither is one of a command of the script itself, if none of its commands runs
\* another one.
LEMMA RecordedConforms == IInv => RecordedOnlyIfConforming
<1> SUFFICES ASSUME IInv, IsRecorded, nested = 0, NEW i \in 1..Len(truth), i <= Len(test.steps)
             PROVE  truth[i].command \in Accepts[test.steps[i].matcher]
  BY DEF RecordedOnlyIfConforming
<1>1. C!V!StepsReport(C!Pass, test, received)
  BY RecordedOutcome DEF IInv, ReportPart
<1> QED BY <1>1, CheckedFirst, PassMeansConform

THEOREM OnlyConformingRecorded == Spec => []RecordedOnlyIfConforming
BY RecordedConforms, HoleRecorderInvariant, PTL

(***************************************************************************)
(* A mentioned command really runs only after all steps were used up       *)
(* without an error.                                                       *)
(***************************************************************************)
THEOREM NothingRunsBeforeHole == Spec => []MockedUpToHole
<1>1. IInv => MockedUpToHole
  <2> SUFFICES ASSUME IInv, NEW p \in Pid, Busy(p), Mentioned(running[p].command),
                      running[p].mock = 0
               PROVE  Len(received) >= Len(test.steps) /\ result = C!Pass
    BY DEF MockedUpToHole
  <2>1. mode = "recorder"
    BY DEF IInv, ProcessPart
  <2>2. MockInv
    BY DEF IInv, TypeOK, MockInv
  <2> QED BY <2>1, <2>2, TestTyped DEF MockInv, RecorderPart
<1> QED BY <1>1, HoleRecorderInvariant, PTL

(***************************************************************************)
(* A mocked command exits as its step says, in whatever order commands run *)
(* and end.                                                                *)
(***************************************************************************)
THEOREM StepsObeyed == Spec => []StepsAreObeyed
<1>1. IInv => StepsAreObeyed
  BY DEF IInv
<1> QED BY <1>1, HoleRecorderInvariant, PTL

(***************************************************************************)
(* The recorded test expects the exit code that the script had, except     *)
(* that a success is not recorded over a failure that was expected.        *)
(***************************************************************************)
LEMMA ExitcodeCorrect == IInv => ExitcodeIsTrue
<1> SUFFICES ASSUME IInv, IsRecorded
             PROVE  C!V!ExpectedExitcode(outcome[2]) =
                        IF SuccessForgotten THEN test.exitcode ELSE script_exitcode
  BY DEF ExitcodeIsTrue
<1>1. /\ outcome[2].exitcode = IF script_exitcode # 0 THEN script_exitcode ELSE test.exitcode
      /\ script_exitcode \in ExitCode
  BY RecordedOutcome
<1> QED BY <1>1, ConstantTypes DEF C!V!ExpectedExitcode, SuccessForgotten

THEOREM ExitcodeRecorded == Spec => []ExitcodeIsTrue
BY ExitcodeCorrect, HoleRecorderInvariant, PTL

(***************************************************************************)
(* A sequential script is recorded as it was: the slot is empty at the end *)
(* and every command has its step.                                         *)
(***************************************************************************)
LEMMA SequenceCorrect == IInv => SequenceIsRecorded
<1> SUFFICES ASSUME IInv, Sequential, IsRecorded PROVE RecordingIsTrue
  BY DEF SequenceIsRecorded, RecordingIsTrue
<1>1. MockInv /\ mode \in {"checker", "recorder"} /\ nested = 0 /\ Len(truth) \in Nat
  BY DEF IInv, TypeOK, MockInv, MockTypeOK, Sequential, ScriptTypeOK
<1>2. /\ outcome[2].steps = (IF mode = "recorder" THEN recorder_test ELSE test).steps
      /\ \A p \in Pid : ~Busy(p)
      /\ Len(test.steps) \in Nat
  BY <1>1, RecordedOutcome, TestTyped DEF MockInv
<1>3. CASE mode = "recorder"
  <2>1. /\ Len(recorder_test.steps) = Len(truth)
        /\ \A i \in 1..Len(truth) :
            recorder_test.steps[i] =
                IF i <= Len(test.steps) THEN test.steps[i]
                ELSE RecordedStep(truth[i].command, truth[i].exitcode)
    BY <1>2, <1>3 DEF IInv, SequencePart
  <2>2. Len(truth) >= Len(test.steps)
    BY <1>1, <1>2, <1>3 DEF MockInv, RecorderPart, IInv, TruthPart
  <2> QED BY <1>1, <1>2, <1>3, <2>1, <2>2 DEF RecordingIsTrue
<1>4. CASE mode = "checker"
  <2>1. \A i \in 1..Len(received) : i <= Len(test.steps)
    BY RecordedOutcome, PassMeansConform DEF IInv, ReportPart
  <2>2. Len(truth) <= Len(test.steps)
    BY <1>1, <1>2, <1>4, <2>1 DEF IInv, TruthPart
  <2>3. outcome[2].steps = test.steps
    BY <1>2, <1>4
  <2> QED BY <1>1, <1>2, <2>2, <2>3 DEF RecordingIsTrue
<1> QED BY <1>1, <1>3, <1>4

THEOREM SequenceRecorded == Spec => []SequenceIsRecorded
BY SequenceCorrect, HoleRecorderInvariant, PTL

(***************************************************************************)
(* The recorded test passes when the script does the same again.           *)
(***************************************************************************)
THEOREM RecordedPasses == Spec => []RecordedTestPasses
<1>1. IInv => RecordedTestPasses
  <2> DEFINE t == [outcome[2] EXCEPT !.stdout = NoValue, !.stderr = NoValue]
  <2> SUFFICES ASSUME IInv, IsRecorded, Sequential, Len(truth) >= Len(test.steps),
                      ~SuccessForgotten
               PROVE  C!V!Report(C!Pass, t, Commands(truth), script_exitcode, NoOutput, NoOutput)
    BY DEF RecordedTestPasses
  <2>1. /\ outcome[2] \in C!V!TestRecord /\ nested = 0
        /\ Len(truth) \in Nat /\ Len(test.steps) \in Nat
        /\ \A i \in 1..Len(truth) : truth[i].command \in Command
    <3>1. MockTypeOK /\ ScriptTypeOK
      BY DEF IInv, TypeOK
    <3> DEFINE Entry == [command : Command, exitcode : ExitCode \cup {NoValue}]
    <3>2. truth \in Seq(Entry)
      BY <3>1 DEF ScriptTypeOK
    <3>3. outcome[2] \in C!V!TestRecord
      BY RecordedOutcome
    <3>4. Len(truth) \in Nat /\ \A i \in 1..Len(truth) : truth[i].command \in Command
      <4>1. \A e \in Entry : e.command \in Command
        OBVIOUS
      <4> HIDE DEF Entry
      <4> QED BY <3>2, <4>1, ElementOfSeq, LenProperties
    <3> QED BY <3>1, <3>3, <3>4, TestTyped DEF Sequential
  <2>2. /\ t.steps = outcome[2].steps /\ t.exitcode = outcome[2].exitcode
        /\ t.stdout = NoValue /\ t.stderr = NoValue
    <3> DEFINE o == outcome[2]
    <3>1. o \in [steps : Seq(C!V!Step), exitcode : ExitCode \cup {NoValue},
                 stdout : Output \cup {NoValue}, stderr : Output \cup {NoValue}]
      BY <2>1 DEF C!V!TestRecord
    <3>2. t = [o EXCEPT !.stdout = NoValue, !.stderr = NoValue]
      OBVIOUS
    <3> HIDE DEF o, t
    <3>3. t.steps = o.steps /\ t.exitcode = o.exitcode /\ t.stdout = NoValue /\ t.stderr = NoValue
      BY <3>1, <3>2
    <3> QED BY <3>3 DEF o
  <2>3. /\ Len(t.steps) = Len(truth)
        /\ \A i \in 1..Len(truth) :
            t.steps[i] = IF i <= Len(test.steps) THEN test.steps[i]
                         ELSE RecordedStep(truth[i].command, truth[i].exitcode)
    <3>1. RecordingIsTrue
      BY SequenceCorrect DEF SequenceIsRecorded
    <3> HIDE DEF t
    <3> QED BY <2>1, <2>2, <3>1 DEF RecordingIsTrue
  <2>4. /\ Len(Commands(truth)) = Len(truth)
        /\ \A i \in 1..Len(truth) : Commands(truth)[i] = truth[i].command
    BY <2>1 DEF Commands
  <2> HIDE DEF t
  <2>5. \A i \in 1..Len(truth) : truth[i].command \in Accepts[t.steps[i].matcher]
    <3> TAKE i \in 1..Len(truth)
    <3>1. CASE i <= Len(test.steps)
      BY <2>1, <2>3, <3>1, RecordedConforms DEF RecordedOnlyIfConforming
    <3>2. CASE ~(i <= Len(test.steps))
      <4>1. t.steps[i].matcher = ExactMatch[truth[i].command]
        <5>1. t.steps[i] = RecordedStep(truth[i].command, truth[i].exitcode)
          BY <2>3, <3>2
        <5> QED BY <5>1 DEF RecordedStep
      <4> QED BY <2>1, <4>1, ConstantTypes
    <3> QED BY <3>1, <3>2
  <2>6. C!V!StepsReport(C!Pass, t, Commands(truth))
    BY <2>1, <2>3, <2>4, <2>5 DEF C!V!StepsReport, C!V!Deviates, C!Pass
  <2>7. C!V!ExpectedExitcode(t) = script_exitcode
    BY <2>2, ExitcodeCorrect DEF ExitcodeIsTrue, C!V!ExpectedExitcode
  <2>8. C!V!EndReport(t, Commands(truth), script_exitcode, NoOutput, NoOutput) = C!Pass
    BY <2>1, <2>2, <2>3, <2>4, <2>7 DEF C!V!EndReport, C!Pass
  <2> QED BY <2>6, <2>8 DEF C!V!Report, C!Pass
<1> QED BY <1>1, HoleRecorderInvariant, PTL
=============================================================================
