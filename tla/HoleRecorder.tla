---------------------------- MODULE HoleRecorder ----------------------------
(***************************************************************************)
(* src/src/recorder/hole_recorder.rs: the mock for a test whose last step  *)
(* is a hole ("_").  It checks the script against the steps and, when they *)
(* are used up without an error, turns into a recorder.  Recording without *)
(* a test (--record) is the case that starts as a recorder.                *)
(*                                                                         *)
(* The script is the environment: it runs commands in processes, one after *)
(* the other or at once, a command that is not mocked may run commands     *)
(* itself, and processes that execute nothing (subshells and builtins in a *)
(* pipeline) exit in between.  The histories concurrent, nested and        *)
(* interrupted keep which of it happened.                                  *)
(***************************************************************************)
EXTENDS Recorder, Naturals

CONSTANTS
    Command, Matcher, Accepts, Output, ExitCode, NoValue, Test, Unmocked, MaxReceived,
    Pid, NoPid,
    Codes          \* the number of exit codes of a process: 256

VARIABLES
    test, steps, result, temporary_executables, received, verdict,   \* the checker
    recording,     \* is this scriptkeeper --record?
    mode,          \* which variant of HoleRecorder it is
    outcome,       \* the RecorderResult
    running,       \* environment: what each process executes
    truth,         \* history: the commands the script itself ran, in order
    concurrent,    \* history: was a command run while another one ran?
    nested,        \* history: the number of commands run by other commands
    interrupted,   \* history: did a process without a command exit while one ran?
    script_exitcode

checker == <<test, steps, result, temporary_executables, received, verdict>>
environment == <<running, truth, concurrent, nested, interrupted, script_exitcode>>
vars == <<recorderVars, checker, recording, mode, outcome, environment>>

C == INSTANCE TestChecker

ASSUME HoleRecorderAssumption ==
    /\ C!CheckerAssumption
    /\ ExactMatch \in [Command -> Matcher]
    /\ \A c \in Command : Accepts[ExactMatch[c]] = {c}
    /\ NoCommand \notin Command
    /\ NoPid \notin Pid
    /\ ExitCode \subseteq Nat
    /\ Codes \in Nat \ {0}
    /\ 0..(Codes - 1) \subseteq ExitCode

EmptyTest == [steps |-> <<>>, exitcode |-> NoValue, stdout |-> NoValue, stderr |-> NoValue]

\* Recorder::empty() has no unmocked commands.
UnmockedCommands == IF recording THEN {} ELSE Unmocked

-----------------------------------------------------------------------------
(***************************************************************************)
(* The callbacks.                                                          *)
(***************************************************************************)
CheckOn(c) ==
    /\ mode = "checker"
    /\ steps # <<>> \/ result # C!Pass
    /\ C!CheckExecve(c)
    /\ UNCHANGED <<recorderVars, mode>>

\* Broken: the first command after the hole is lost; an error does not stop the
\* recording; the hole begins before the steps are used up.
TurnAndLoseCommand(c) ==
    /\ mode = "checker"
    /\ steps = <<>>
    /\ result = C!Pass
    /\ mode' = "recorder"
    /\ recorder_test' = test
    /\ temporary_executables' = <<>>
    /\ UNCHANGED <<command, steps, result, received>>
TurnAfterError(c) ==
    /\ mode = "checker"
    /\ steps = <<>>
    /\ mode' = "recorder"
    /\ recorder_test' = test
    /\ command' = IF c \in UnmockedCommands THEN NoCommand ELSE c
    /\ temporary_executables' = <<>>
    /\ UNCHANGED <<steps, result, received>>
TurnEarly(c) ==
    /\ mode = "checker"
    /\ result = C!Pass
    /\ mode' = "recorder"
    /\ recorder_test' = test
    /\ command' = IF c \in UnmockedCommands THEN NoCommand ELSE c
    /\ temporary_executables' = <<>>
    /\ UNCHANGED <<steps, result, received>>

\* *self = Recorder { .. }: the checker is dropped, and its mock executables
\* are deleted with it.
TurnIntoRecorder(c) ==
    /\ mode = "checker"
    /\ steps = <<>>
    /\ result = C!Pass
    /\ mode' = "recorder"
    /\ recorder_test' = test
    /\ command' = IF c \in UnmockedCommands THEN NoCommand ELSE c
    /\ temporary_executables' = <<>>
    /\ UNCHANGED <<steps, result, received>>

RecordOn(c) ==
    /\ mode = "recorder"
    /\ RecordExecve(c, UnmockedCommands)
    /\ UNCHANGED <<mode, steps, result, temporary_executables, received>>

HandleExecveEnter(c) ==
    /\ CheckOn(c) \/ TurnIntoRecorder(c) \/ RecordOn(c)
    /\ UNCHANGED <<test, verdict, recording, outcome>>

HandleExited(code) ==
    \/ mode = "checker" /\ UNCHANGED recorderVars
    \/ mode = "recorder" /\ RecordExited(code)

\* Broken: the errors of the checker are ignored.
AlwaysRecorded(code) ==
    outcome' = <<"Recorded", RecordEnd(IF mode = "recorder" THEN recorder_test ELSE test, code)>>

\* A checker without an error at the end becomes a recorded test as well.
HandleEnd(code) ==
    outcome' =
        IF mode = "recorder" THEN <<"Recorded", RecordEnd(recorder_test, code)>>
        ELSE IF result = C!Pass THEN <<"Recorded", RecordEnd(test, code)>>
        ELSE <<"Checked", test, result>>

-----------------------------------------------------------------------------
(***************************************************************************)
(* The script and its commands.                                            *)
(***************************************************************************)
\* A process: its command, its mock executable (0: none), the exit code that it
\* read from there, its place in truth (0: none), the process that runs it.
Idle == [command |-> NoCommand, mock |-> 0, code |-> NoValue, nth |-> 0, of |-> NoPid]

Busy(p) == running[p] # Idle

\* The mock executable that the execve of c was redirected to, or 0: decided by
\* the mode after the callback.
MockOf(c) == IF mode' = "checker" /\ c \notin Unmocked THEN Len(temporary_executables') ELSE 0

\* A command of the script itself that scriptkeeper mocks or records.
Mentioned(c) == c \notin UnmockedCommands

Execute(p, c, parent) ==
    LET own == parent = NoPid /\ Mentioned(c) IN
    /\ outcome = NoValue
    /\ HandleExecveEnter(c)
    /\ truth' = IF own THEN Append(truth, [command |-> c, exitcode |-> NoValue]) ELSE truth
    /\ running' = [running EXCEPT ![p] =
            [command |-> c, mock |-> MockOf(c), code |-> NoValue,
             nth |-> IF own THEN Len(truth') ELSE 0, of |-> parent]]
    /\ UNCHANGED <<interrupted, script_exitcode>>

RunCommand(p, c) ==
    /\ ~Busy(p)
    /\ Len(truth) + nested < MaxReceived
    /\ concurrent' = IF \E q \in Pid : Busy(q) THEN TRUE ELSE concurrent
    /\ UNCHANGED nested
    /\ Execute(p, c, NoPid)

\* A command that really runs (a recorded or an unmocked one) runs another one.
RunNested(p, c, q) ==
    /\ Len(truth) + nested < MaxReceived
    /\ ~Busy(p)
    /\ Busy(q)
    /\ running[q].mock = 0
    /\ \A r \in Pid : running[r].of # q
    /\ nested' = nested + 1
    /\ UNCHANGED concurrent
    /\ Execute(p, c, q)

\* executable_mock::run: the mock executable is started and reads its file.
MockExists(p) == running[p].mock <= Len(temporary_executables)

\* exit takes an int, wait returns its last byte.
ProcessCode(code) == code % Codes

\* Broken: the exit code is that of the first step.
LoadFirstMock(p) ==
    /\ Busy(p)
    /\ running[p].mock # 0
    /\ running[p].code = NoValue
    /\ MockExists(p)
    /\ running' = [running EXCEPT ![p].code = ProcessCode(temporary_executables[1].exitcode)]
    /\ UNCHANGED <<recorderVars, checker, recording, mode, outcome, truth, concurrent, nested,
                   interrupted, script_exitcode>>

LoadMock(p) ==
    /\ Busy(p)
    /\ running[p].mock # 0
    /\ running[p].code = NoValue
    /\ MockExists(p)
    /\ running' = [running EXCEPT
            ![p].code = ProcessCode(temporary_executables[running[p].mock].exitcode)]
    /\ UNCHANGED <<recorderVars, checker, recording, mode, outcome, truth, concurrent, nested,
                   interrupted, script_exitcode>>

ProcessExitCode == 0..(Codes - 1)

\* The exit codes with which p may exit: the one of its step for a mock that was
\* read, an error if it cannot be read because it is gone.
Exits(p) ==
    IF running[p].mock = 0 THEN ProcessExitCode
    ELSE IF running[p].code # NoValue THEN {running[p].code}
    ELSE IF MockExists(p) THEN {} ELSE ProcessExitCode \ {0}

Exit(p, code) ==
    /\ Busy(p)
    /\ \A r \in Pid : running[r].of # p
    /\ code \in Exits(p)
    /\ HandleExited(code)
    /\ running' = [running EXCEPT ![p] = Idle]
    /\ truth' = IF running[p].nth = 0 THEN truth
                ELSE [truth EXCEPT ![running[p].nth].exitcode = code]
    /\ UNCHANGED <<checker, recording, mode, outcome, concurrent, nested, interrupted,
                   script_exitcode>>

\* Every process but the root tracee is handled like that when it exits, whether or not
\* it executed a command.
BystanderExits(code) ==
    /\ outcome = NoValue
    /\ HandleExited(code)
    /\ interrupted' = IF \E p \in Pid : Busy(p) THEN TRUE ELSE interrupted
    /\ UNCHANGED <<checker, recording, mode, outcome, running, truth, concurrent, nested,
                   script_exitcode>>

ScriptEnds(code) ==
    /\ outcome = NoValue
    /\ \A p \in Pid : ~Busy(p)
    /\ HandleEnd(code)
    /\ script_exitcode' = code
    /\ UNCHANGED <<recorderVars, checker, recording, mode, running, truth, concurrent, nested,
                   interrupted>>

Init ==
    /\ recording \in BOOLEAN
    /\ test \in IF recording THEN {EmptyTest} ELSE Test
    /\ steps = test.steps
    /\ result = C!Pass
    /\ temporary_executables = <<>>
    /\ received = <<>>
    /\ verdict = NoValue
    /\ mode = IF recording THEN "recorder" ELSE "checker"
    /\ recorder_test = EmptyTest
    /\ command = NoCommand
    /\ outcome = NoValue
    /\ running = [p \in Pid |-> Idle]
    /\ truth = <<>>
    /\ concurrent = FALSE
    /\ nested = 0
    /\ interrupted = FALSE
    /\ script_exitcode = NoValue

Ended ==
    /\ outcome # NoValue
    /\ UNCHANGED vars

Next ==
    \/ \E p \in Pid, c \in Command : RunCommand(p, c)
    \/ \E p, q \in Pid, c \in Command : RunNested(p, c, q)
    \/ \E p \in Pid : LoadMock(p)
    \/ \E p \in Pid, code \in ProcessExitCode : Exit(p, code)
    \/ \E code \in ProcessExitCode : BystanderExits(code) \/ ScriptEnds(code)
    \/ Ended

Spec == Init /\ [][Next]_vars

-----------------------------------------------------------------------------
IsRecorded == outcome # NoValue /\ outcome[1] = "Recorded"
Commands(run) == [i \in 1..Len(run) |-> run[i].command]

\* Every variable has its type; --record starts from the empty test.
Process ==
    [command : Command \cup {NoCommand}, mock : Nat, code : ExitCode \cup {NoValue},
     nth : Nat, of : Pid \cup {NoPid}]

MockTypeOK ==
    /\ recording \in BOOLEAN
    /\ test \in IF recording THEN {EmptyTest} ELSE Test
    /\ steps \in Seq(C!V!Step)
    /\ received \in Seq(Command \ Unmocked)
    /\ result \in C!Results
    /\ verdict = NoValue
    /\ temporary_executables \in Seq(C!Config)
    /\ mode \in {"checker", "recorder"}
    /\ recorder_test \in C!V!TestRecord
    /\ command \in Command \cup {NoCommand}

ScriptTypeOK ==
    /\ running \in [Pid -> Process]
    /\ truth \in Seq([command : Command, exitcode : ExitCode \cup {NoValue}])
    /\ concurrent \in BOOLEAN /\ interrupted \in BOOLEAN
    /\ nested \in Nat
    /\ script_exitcode \in ExitCode \cup {NoValue}

TypeOK == MockTypeOK /\ ScriptTypeOK

(***************************************************************************)
(* What was recorded is what happened: after the steps of the original     *)
(* test, which are kept, each command the script ran is a step, in the     *)
(* order they were started and with the exit code it had.                  *)
(***************************************************************************)
RecordingIsTrue ==
    IsRecorded =>
        LET t == outcome[2] n == Len(test.steps) IN
        /\ Len(t.steps) = IF Len(truth) > n THEN Len(truth) ELSE n
        /\ \A i \in 1..Len(t.steps) :
            t.steps[i] = IF i <= n THEN test.steps[i]
                         ELSE RecordedStep(truth[i].command, truth[i].exitcode)

(***************************************************************************)
(* That holds of a script that runs one command after the other, and       *)
(* nothing besides: its slot is empty whenever the next command is         *)
(* executed, and is emptied by the exit of its own command.                *)
(***************************************************************************)
Sequential == ~concurrent /\ nested = 0 /\ ~interrupted

SequenceIsRecorded == Sequential => RecordingIsTrue

(***************************************************************************)
(* A script that deviated from the steps before the hole is reported: its  *)
(* test is never taken for recorded, however many commands follow and      *)
(* however many run at once.                                               *)
(***************************************************************************)
RecordedOnlyIfConforming ==
    IsRecorded /\ nested = 0 => \A i \in 1..Len(truth) :
        i <= Len(test.steps) => truth[i].command \in Accepts[test.steps[i].matcher]

(***************************************************************************)
(* The same of the commands that were checked, whoever ran them: if one of *)
(* them deviated from its step, the test is not taken for recorded.        *)
(***************************************************************************)
DeviationIsReported == IsRecorded => C!V!StepsReport(C!Pass, test, received)

(***************************************************************************)
(* A command is really executed only after all the steps before the hole   *)
(* were, and never in a run that already failed, whoever runs it.          *)
(***************************************************************************)
MockedUpToHole ==
    \A p \in Pid : Busy(p) /\ Mentioned(running[p].command) /\ running[p].mock = 0 =>
        /\ Len(received) >= Len(test.steps)
        /\ result = C!Pass

(***************************************************************************)
(* A mocked command exits as its step says, modulo the number of exit      *)
(* codes, in whatever order the commands of a test run and end.  Those     *)
(* that run when the recording begins are excepted: their mocks are gone,  *)
(* so that a step that should succeed may fail.                            *)
(***************************************************************************)
StepsAreObeyed ==
    nested = 0 /\ (mode = "checker" \/ ~concurrent) =>
        \A i \in 1..Len(truth) : i <= Len(test.steps) /\ truth[i].exitcode # NoValue =>
            truth[i].exitcode = ProcessCode(test.steps[i].exitcode)

(***************************************************************************)
(* The recorded test expects the exit code the script had, with one        *)
(* exception: if the script succeeded although the original test expected  *)
(* a failure, the recorded test still expects that failure.                *)
(***************************************************************************)
SuccessForgotten == script_exitcode = 0 /\ test.exitcode \notin {0, NoValue}

ExitcodeIsTrue ==
    IsRecorded =>
        C!V!ExpectedExitcode(outcome[2]) =
            IF SuccessForgotten THEN test.exitcode ELSE script_exitcode

(***************************************************************************)
(* A recorded test passes when the script does the same again, if it ran   *)
(* one command after the other, and nothing besides, and got as far as the *)
(* hole: the checker, given the same commands and the same exit code, has  *)
(* nothing to report.                                                      *)
(***************************************************************************)
RecordedTestPasses ==
    /\ IsRecorded
    /\ Sequential
    /\ Len(truth) >= Len(test.steps)
    /\ ~SuccessForgotten
    => C!V!Report(C!Pass, [outcome[2] EXCEPT !.stdout = NoValue, !.stderr = NoValue],
                  Commands(truth), script_exitcode, NoOutput, NoOutput)
=============================================================================
