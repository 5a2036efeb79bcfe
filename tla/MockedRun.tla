------------------------------ MODULE MockedRun ------------------------------
(***************************************************************************)
(* One run of a script: Tracer composed with the mock that its callbacks   *)
(* call, a TestChecker or, for a test that ends with a hole, the checking  *)
(* half of HoleRecorder, and with what the processes see of it: which      *)
(* program an execve really starts, and what a getcwd or stat tells.       *)
(* One run is made; signals, faults, kills and failing callbacks are left  *)
(* to Tracer.                                                              *)
(***************************************************************************)
EXTENDS Tracer, FiniteSets

CONSTANTS
    Command, Matcher, Accepts, Output, ExitCode, NoValue, Test, Unmocked, MaxReceived, NoOutput,
    File,         \* the files the script asks for
    NoArg,        \* no argument
    CwdMocked,    \* does the test give a cwd?
    MockedFiles   \* the test's mockedFiles

VARIABLES
    test, steps, result, temporary_executables, received, verdict,  \* the mock
    ends_with_hole,  \* of the test
    mode,         \* which variant of HoleRecorder it is
    image,        \* the program of each process: "script", "mock", or a command
    arg,          \* the argument of its syscall in its memory: the command that
                  \* execve will start, the file that stat asks for
    answer,       \* what its getcwd or stat told it, until its next syscall
    executed      \* history: how often each command to be mocked was executed

checker == <<test, steps, result, temporary_executables, received, verdict>>
seen == <<image, arg, answer, executed>>
mockVars == <<checker, ends_with_hole, mode, seen>>
runVars == <<vars, mockVars>>

C == INSTANCE TestChecker

ASSUME MockedRunAssumption ==
    /\ C!CheckerAssumption
    /\ MaxRuns = 1
    /\ ~Kills /\ ~Faults /\ ~MockMayFail /\ ~RelayMayFail
    /\ MockedFiles \subseteq File
    /\ NoArg \notin Command \cup File \cup {"mock"}
    /\ {"none", "script", "mock"} \cap Command = {}
    /\ CwdMocked \in BOOLEAN
    /\ 1 \in ExitCode

-----------------------------------------------------------------------------
(***************************************************************************)
(* The processes.  The mock executable only writes and exits.              *)
(***************************************************************************)
Arguments(s) ==
    IF s = "execve" THEN Command ELSE IF s = "stat" THEN File ELSE {NoArg}

MakeSyscall(p, s, a) ==
    /\ Enter(p, s)
    /\ a \in IF Started(p) THEN Arguments(s) ELSE {NoArg}
    /\ image[p] = "mock" => s \in {"other", "exit_group"}
    /\ arg' = [arg EXCEPT ![p] = a]
    /\ answer' = [answer EXCEPT ![p] = "none"]
    /\ executed' = IF s = "execve" /\ a \in Command \ Unmocked /\ ~IsRoot(p)
                   THEN [executed EXCEPT ![a] = @ + 1] ELSE executed
    /\ UNCHANGED <<checker, ends_with_hole, mode, image>>

ForkProcess(p, c) ==
    /\ Fork(p, c)
    /\ image' = [image EXCEPT ![c] = image[p]]
    /\ arg' = [arg EXCEPT ![c] = NoArg]
    /\ answer' = [answer EXCEPT ![c] = "none"]
    /\ UNCHANGED <<checker, ends_with_hole, mode, executed>>

StartScript ==
    /\ ChildExecve
    /\ image' = [image EXCEPT ![tracee_pid] = IF child' = "script" THEN "script" ELSE @]
    /\ UNCHANGED <<checker, ends_with_hole, mode, arg, answer, executed>>

\* execve starts what its argument names by now; it may not find a command.  What the
\* root tracee executes is the script, even if it is a command.
CompleteExecve(p) ==
    /\ sys[p] = "execve"
    /\ Complete(p)
    /\ \/ image' = [image EXCEPT ![p] = IF IsRoot(p) THEN "script" ELSE arg[p]]
       \/ arg[p] # "mock" /\ UNCHANGED image
    /\ UNCHANGED <<checker, ends_with_hole, mode, arg, answer, executed>>

CompleteQuery(p) ==
    /\ sys[p] \in {"getcwd", "stat"}
    /\ Complete(p)
    /\ answer' = [answer EXCEPT ![p] = "real"]
    /\ UNCHANGED <<checker, ends_with_hole, mode, image, arg, executed>>

CompleteOther(p) ==
    /\ sys[p] \notin {"execve", "getcwd", "stat"}
    /\ Complete(p)
    /\ UNCHANGED mockVars

-----------------------------------------------------------------------------
(***************************************************************************)
(* The callbacks.                                                          *)
(***************************************************************************)
\* Broken: the steps before the hole are not waited for.
HoleAnywhere == mode = "recorder" \/ (ends_with_hole /\ result = C!Pass)

\* HoleRecorder turns into a recorder at the hole, and stays one.
AtHole == mode = "recorder" \/ (ends_with_hole /\ steps = <<>> /\ result = C!Pass)

\* Broken: a command after the last step is let through.
ExtraCommandIgnored(p) ==
    /\ HandleExecveEnter(p)
    /\ ~AtHole
    /\ IF steps = <<>> THEN UNCHANGED <<steps, result, temporary_executables, received>>
       ELSE C!CheckExecve(arg[p])
    /\ arg' = [arg EXCEPT ![p] = IF @ \in Unmocked THEN @ ELSE "mock"]
    /\ UNCHANGED <<test, verdict, ends_with_hole, mode, image, answer, executed>>

\* The checker pokes the path of the mock executable over the command's.
MockExecve(p) ==
    /\ HandleExecveEnter(p)
    /\ ~AtHole
    /\ C!CheckExecve(arg[p])
    /\ arg' = [arg EXCEPT ![p] = IF @ \in Unmocked THEN @ ELSE "mock"]
    /\ UNCHANGED <<test, verdict, ends_with_hole, mode, image, answer, executed>>

RecordExecve(p) ==
    /\ HandleExecveEnter(p)
    /\ AtHole
    /\ mode' = "recorder"
    /\ UNCHANGED <<checker, ends_with_hole, seen>>

\* Broken: only the script's own process gets the mocked cwd.
MockGetcwdOfRoot(p) ==
    /\ HandleGetcwdExit(p)
    /\ answer' = [answer EXCEPT ![p] = IF CwdMocked /\ ~ends_with_hole /\ IsRoot(p) THEN "mocked" ELSE @]
    /\ UNCHANGED <<checker, ends_with_hole, mode, image, arg, executed>>

\* HoleRecorder has the trait's handle_getcwd_exit and handle_stat_exit, which do
\* nothing.
MockGetcwd(p) ==
    /\ HandleGetcwdExit(p)
    /\ answer' = [answer EXCEPT ![p] = IF CwdMocked /\ ~ends_with_hole THEN "mocked" ELSE @]
    /\ UNCHANGED <<checker, ends_with_hole, mode, image, arg, executed>>

MockStat(p) ==
    /\ HandleStatExit(p)
    /\ answer' = [answer EXCEPT ![p] =
            IF arg[p] \in MockedFiles /\ ~ends_with_hole THEN "mocked" ELSE @]
    /\ UNCHANGED <<checker, ends_with_hole, mode, image, arg, executed>>

\* The verdict on a test without a hole.  If the script was not started the exit code
\* is scriptkeeper's own.
EndRun(exitcode) ==
    /\ JoinStreams
    /\ child = "failed" => exitcode = 0
    /\ child = "unreported" => exitcode = 1
    /\ \/ ends_with_hole /\ UNCHANGED checker
       \/ ~ends_with_hole /\ C!HandleEnd(exitcode, NoOutput, NoOutput)
    /\ UNCHANGED <<ends_with_hole, mode, seen>>

-----------------------------------------------------------------------------
MockedInit ==
    /\ Init
    /\ C!Init
    /\ ends_with_hole \in BOOLEAN
    /\ mode = "checker"
    /\ image = [p \in Pid |-> "none"]
    /\ arg = [p \in Pid |-> NoArg]
    /\ answer = [p \in Pid |-> "none"]
    /\ executed = [c \in Command |-> 0]

\* The steps of Tracer that neither call the mock nor change what it is about.
TracerAlone ==
    /\ \/ ChildStops \/ ChildFailsEarly \/ WaitForChild \/ ChildNeverStopped \/ ReturnFromRun
       \/ \E p \in Pid :
            \/ Exit(p) \/ Wait(p) \/ HandleOtherSyscall(p) \/ HandleOtherStop(p)
            \/ HandleExited(p) \/ RootExited(p) \/ WrongSyscall(p)
       \/ Finished
    /\ UNCHANGED mockVars

MockedNext ==
    \/ \E p \in Pid, s \in Syscall, a \in Command \cup File \cup {NoArg} : MakeSyscall(p, s, a)
    \/ \E p, c \in Pid : ForkProcess(p, c)
    \/ StartScript
    \/ \E p \in Pid : CompleteExecve(p) \/ CompleteQuery(p) \/ CompleteOther(p)
    \/ \E p \in Pid : MockExecve(p) \/ RecordExecve(p) \/ MockGetcwd(p) \/ MockStat(p)
    \/ \E exitcode \in ExitCode : EndRun(exitcode)
    \/ TracerAlone

MockedSpec == MockedInit /\ [][MockedNext]_runVars

-----------------------------------------------------------------------------
(***************************************************************************)
(* No command is really executed by a process other than the root tracee,  *)
(* which is never shown to the mock, except for the unmocked ones and, in  *)
(* a test with a hole, those after the steps, which all conformed.         *)
(***************************************************************************)
CommandsAreMocked ==
    \A p \in Pid : Alive(p) /\ image[p] \in Command \ Unmocked =>
        ends_with_hole /\ steps = <<>> /\ result = C!Pass

(***************************************************************************)
(* What a process learns from getcwd and stat is what the test says, if it *)
(* has no hole: once it runs on it never acts on the real directory or     *)
(* file, and it is not told of mocked ones that the test does not name.    *)
(***************************************************************************)
Mocked(p) ==
    \/ sys[p] = "getcwd" /\ CwdMocked
    \/ sys[p] = "stat" /\ arg[p] \in MockedFiles

AnswersAreMocked ==
    ~ends_with_hole => \A p \in Pid :
        pstate[p] = "user" /\ sys[p] \in {"getcwd", "stat"} =>
            answer[p] = IF Mocked(p) THEN "mocked" ELSE "real"

(***************************************************************************)
(* A verdict is about every command that was executed by processes other   *)
(* than the root tracee: each was checked exactly once, in whatever order  *)
(* the processes were traced.                                              *)
(***************************************************************************)
Places(commands, c) == {i \in 1..Len(commands) : commands[i] = c}
Times(c) == Cardinality(Places(received, c))

EveryCommandChecked ==
    outcome = "verdict" /\ ~ends_with_hole => \A c \in Command \ Unmocked : Times(c) = executed[c]

(***************************************************************************)
(* A test does not pass without its script: if it could not be started,    *)
(* and even if this could not be reported, only a test passes that expects *)
(* no command and the exit code 1.                                         *)
(***************************************************************************)
PassNeedsScript ==
    outcome = "verdict" /\ ~ends_with_hole /\ verdict = C!Pass =>
        child = "script" \/ (test.steps = <<>> /\ test.exitcode = 1)
=============================================================================
