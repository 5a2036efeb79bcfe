-------------------------- MODULE MockedRunProofs --------------------------
(***************************************************************************)
(* Proofs about MockedRun, for any commands, files, tests and processes.   *)
(* With the mock hidden it is Tracer, so that the invariant of Tracer can  *)
(* be used; the rest is what the mock adds.                                *)
(***************************************************************************)
EXTENDS MockedRunInvariant, TracerProofs, SequenceTheorems, FiniteSetTheorems

LEMMA MockedAssumed == C!CheckerAssumption /\ ~Kills /\ ~Faults /\ {"none", "script", "mock"} \cap Command = {}
  BY MockedRunAssumption

Callbacks == {"execve_enter", "getcwd_exit", "stat_exit"}

-----------------------------------------------------------------------------
(***************************************************************************)
(* Every step is one of Tracer.                                            *)
(***************************************************************************)
LEMMA MockedMoves == ASSUME tracee_pid \in Pid, [MockedNext]_runVars PROVE [Next]_vars
<1>1. ASSUME NEW p \in Pid, NEW s \in Syscall, NEW a, MakeSyscall(p, s, a) PROVE Next
  BY <1>1 DEF MakeSyscall, Next, ProcessStep
<1>2. ASSUME NEW p \in Pid, NEW c \in Pid, ForkProcess(p, c) PROVE Next
  BY <1>2 DEF ForkProcess, Next, ProcessStep
<1>3. CASE StartScript
  BY <1>3 DEF StartScript, Next, ProcessStep, IsRoot
<1>4. ASSUME NEW p \in Pid, CompleteExecve(p) \/ CompleteQuery(p) \/ CompleteOther(p) PROVE Next
  BY <1>4 DEF CompleteExecve, CompleteQuery, CompleteOther, Next, ProcessStep
<1>5. ASSUME NEW p \in Pid, MockExecve(p) \/ RecordExecve(p) \/ MockGetcwd(p) \/ MockStat(p) PROVE Next
  BY <1>5 DEF MockExecve, RecordExecve, MockGetcwd, MockStat, Next, TracerStep, HandleStatus
<1>6. ASSUME NEW exitcode, EndRun(exitcode) PROVE Next
  BY <1>6 DEF EndRun, Next, TracerStep
<1>7. CASE TracerAlone
  BY <1>7 DEF TracerAlone, Next, TracerStep, ProcessStep, HandleStatus, IsRoot
<1>8. CASE UNCHANGED runVars
  BY <1>8 DEF runVars
<1> QED BY <1>1, <1>2, <1>3, <1>4, <1>5, <1>6, <1>7, <1>8 DEF MockedNext

\* The steps of Tracer that MockedRun takes.
LEMMA TracerCases ==
    ASSUME [MockedNext]_runVars
    PROVE  \/ \E p \in Pid, s \in Syscall : Enter(p, s)
           \/ \E p, c \in Pid : Fork(p, c)
           \/ ChildExecve
           \/ \E p \in Pid : Complete(p)
           \/ \E p \in Pid, callback \in Callbacks : MockCallback(p, callback)
           \/ \E p \in Pid : HandleOtherSyscall(p) \/ HandleOtherStop(p) \/ Exit(p) \/ Wait(p)
           \/ ChildStops \/ ChildFailsEarly \/ WaitForChild \/ ChildNeverStopped
           \/ UNCHANGED traceeVars /\ UNCHANGED <<tracee_pid, entered_syscalls>> /\ (reason' = "none" => reason = "none")
<1> DEFINE Still == UNCHANGED traceeVars /\ UNCHANGED <<tracee_pid, entered_syscalls>> /\ (reason' = "none" => reason = "none")
           Goal ==
               \/ \E p \in Pid, s \in Syscall : Enter(p, s)
               \/ \E p, c \in Pid : Fork(p, c)
               \/ ChildExecve
               \/ \E p \in Pid : Complete(p)
               \/ \E p \in Pid, callback \in Callbacks : MockCallback(p, callback)
               \/ \E p \in Pid : HandleOtherSyscall(p) \/ HandleOtherStop(p) \/ Exit(p) \/ Wait(p)
               \/ ChildStops \/ ChildFailsEarly \/ WaitForChild \/ ChildNeverStopped
               \/ Still
<1> SUFFICES Goal
  OBVIOUS
<1>1. ASSUME NEW p \in Pid, NEW s \in Syscall, NEW a, MakeSyscall(p, s, a) PROVE Goal
  BY <1>1 DEF MakeSyscall
<1>2. ASSUME NEW p \in Pid, NEW c \in Pid, ForkProcess(p, c) PROVE Goal
  BY <1>2 DEF ForkProcess
<1>3. CASE StartScript
  BY <1>3 DEF StartScript
<1>4. ASSUME NEW p \in Pid, CompleteExecve(p) \/ CompleteQuery(p) \/ CompleteOther(p) PROVE Goal
  BY <1>4 DEF CompleteExecve, CompleteQuery, CompleteOther
<1>5. ASSUME NEW p \in Pid, MockExecve(p) \/ RecordExecve(p) \/ MockGetcwd(p) \/ MockStat(p) PROVE Goal
  <2>1. \E callback \in Callbacks : MockCallback(p, callback)
    BY <1>5 DEF MockExecve, RecordExecve, MockGetcwd, MockStat, HandleExecveEnter, HandleGetcwdExit,
        HandleStatExit, Callbacks
  <2> QED BY <2>1
<1>6. ASSUME NEW exitcode, EndRun(exitcode) PROVE Still
  BY <1>6 DEF EndRun, JoinStreams
<1>7. CASE TracerAlone
  <2>1. ASSUME NEW p \in Pid, HandleExited(p) \/ RootExited(p) \/ WrongSyscall(p) PROVE Still
    BY <2>1 DEF HandleExited, RootExited, WrongSyscall, TraceError
  <2>2. CASE ReturnFromRun \/ Finished
    BY <2>2 DEF ReturnFromRun, Finished, vars, traceeVars
  <2> QED BY <1>7, <2>1, <2>2 DEF TracerAlone
<1>8. CASE UNCHANGED runVars
  BY <1>8 DEF runVars, vars, traceeVars
<1>9. ASSUME Still PROVE Goal
  BY <1>9
<1> HIDE DEF Still, Goal
<1> QED BY <1>1, <1>2, <1>3, <1>4, <1>5, <1>6, <1>7, <1>8, <1>9 DEF MockedNext

LEMMA MockedTypes == MockedSpec => []TypeOK
<1>1. MockedInit => TypeOK
  BY TypeInit DEF MockedInit
<1>2. TypeOK /\ [MockedNext]_runVars => TypeOK'
  BY MockedMoves, TypeStep DEF TypeOK, TracerTypeOK
<1> QED BY <1>1, <1>2, PTL DEF MockedSpec

(***************************************************************************)
(* A run with the mock hidden is one of Tracer.                            *)
(***************************************************************************)
THEOREM MockedTracer == MockedSpec => Spec
<1>1. MockedInit => Init
  BY DEF MockedInit
<1>2. TypeOK /\ [MockedNext]_runVars => [Next]_vars
  BY MockedMoves DEF TypeOK, TracerTypeOK
<1> QED BY <1>1, <1>2, MockedTypes, PTL DEF MockedSpec, Spec

-----------------------------------------------------------------------------
(***************************************************************************)
(* entered_syscalls knows who is inside a syscall, whatever pid it has.    *)
(***************************************************************************)
LEMMA EntriesStep ==
    ASSUME IInv, EntriesKnown, [MockedNext]_runVars
    PROVE  EntriesKnown'
<1> USE TraceesAssumption, MockedAssumed
    DEF TypeOK, TraceesTypeOK, TracerTypeOK, EntriesKnown, EntryOf, InSyscall, Syscall
<1> TypeOK /\ SyscallKnown /\ StatusHolds /\ RootBeforeWait /\ StartingRoot
  BY DEF IInv
<1>1. ASSUME NEW p \in Pid, NEW s \in Syscall, Enter(p, s) PROVE EntriesKnown'
  BY <1>1 DEF Enter, EnterSyscall
<1>2. ASSUME NEW p \in Pid, NEW c \in Pid, Fork(p, c) PROVE EntriesKnown'
  BY <1>2 DEF Fork, ForkChild
<1>3. CASE ChildExecve
  BY <1>3 DEF ChildExecve, CompleteSyscall
<1>4. ASSUME NEW p \in Pid, Complete(p) PROVE EntriesKnown'
  BY <1>4 DEF Complete, CompleteSyscall, tracerVars, SyscallKnown
<1>5. ASSUME NEW p \in Pid, NEW callback \in Callbacks, MockCallback(p, callback) PROVE EntriesKnown'
  BY <1>5 DEF MockCallback, Callbacks, InHand, Callback, SyscallStop, UpdateSyscallState, Continue, Resume, Resumed,
      StatusHolds, SyscallKnown, Stopped
<1>6. ASSUME NEW p \in Pid, HandleOtherSyscall(p) PROVE EntriesKnown'
  BY <1>6 DEF HandleOtherSyscall, InHand, SyscallStop, UpdateSyscallState, Continue, Resume, Resumed,
      StatusHolds, SyscallKnown, Stopped
<1>7. ASSUME NEW p \in Pid, HandleOtherStop(p) PROVE EntriesKnown'
  BY <1>7 DEF HandleOtherStop, InHand, Continue, Resume, Resumed, StatusHolds, Stopped
<1>8. ASSUME NEW p \in Pid, Exit(p) PROVE EntriesKnown'
  BY <1>8 DEF Exit, ExitProcess, Ends, tracerVars
<1>9. ASSUME NEW p \in Pid, Wait(p) PROVE EntriesKnown'
  BY <1>9 DEF Wait, Reap, traceeVars, Zombie
<1>10. CASE ChildStops \/ ChildFailsEarly
  BY <1>10 DEF ChildStops, ChildFailsEarly, FirstStop, Ends, tracerVars
<1>11. CASE WaitForChild \/ ChildNeverStopped
  BY <1>11 DEF WaitForChild, ChildNeverStopped, Resume, Resumed, Reap, RootBeforeWait, Stopped
<1>12. CASE UNCHANGED traceeVars /\ UNCHANGED <<tracee_pid, entered_syscalls>> /\ (reason' = "none" => reason = "none")
  BY <1>12 DEF traceeVars
<1> HIDE DEF EntriesKnown
<1> QED BY <1>1, <1>2, <1>3, <1>4, <1>5, <1>6, <1>7, <1>8, <1>9, <1>10, <1>11, <1>12, TracerCases

-----------------------------------------------------------------------------
(***************************************************************************)
(* What the steps of the tracer do to a process.                           *)
(***************************************************************************)
\* The steps that do not call the mock start no syscall, and let nobody go on from
\* an execve that the mock has not seen or with an answer that it has not seen.
Quiet(q) ==
    /\ Asking(q)' <=> Asking(q)
    /\ Answered(q)' => Answered(q)
    /\ Alive(q)' => Alive(q)
    /\ pstate'[q] \in {"none", "boot", "stop"} => sys'[q] = NoSyscall \/ UNCHANGED <<pstate[q], sys[q]>>
    /\ pstate'[q] \in {"exit", "user"} /\ sys'[q] \in {"getcwd", "stat"} => UNCHANGED <<pstate[q], sys[q]>>

LEMMA AloneIsQuiet ==
    ASSUME IInv, EntriesKnown, NoSyscallYet, TracerAlone, NEW q \in Pid
    PROVE  Quiet(q)
<1> USE TraceesAssumption
    DEF Quiet, TypeOK, TraceesTypeOK, TracerTypeOK, Asking, Answered, Alive, Running, Stopped, IsRoot,
        Syscall, NoSyscallYet
<1> TypeOK /\ SyscallKnown /\ StatusHolds /\ RootBeforeWait /\ StartingRoot /\ ErrorEndsTrace
  BY DEF IInv
<1>1. ASSUME NEW p \in Pid, HandleOtherSyscall(p) PROVE Quiet(q)
  <2>1. pstate[p] \in {"enter", "exit"} /\ pstate' = [pstate EXCEPT ![p] = Resumed(pstate[p])]
    BY <1>1 DEF HandleOtherSyscall, InHand, Continue, Resume, StatusHolds
  <2>2. UNCHANGED <<sys, tracee_pid>> /\ reason = "none"
    BY <1>1 DEF HandleOtherSyscall, InHand, Continue, Resume, ErrorEndsTrace
  <2>3. pstate[p] = "enter" => sys[p] # "execve" \/ IsRoot(p)
    BY <1>1, <2>2 DEF HandleOtherSyscall, Callback, SyscallStop, EntriesKnown, EntryOf, InSyscall
  <2>4. pstate[p] = "exit" => sys[p] \notin {"getcwd", "stat"}
    BY <1>1, <2>2 DEF HandleOtherSyscall, Callback, SyscallStop, EntriesKnown, EntryOf, InSyscall
  <2> QED BY <2>1, <2>2, <2>3, <2>4 DEF Resumed
<1>2. ASSUME NEW p \in Pid, HandleOtherStop(p) PROVE Quiet(q)
  BY <1>2 DEF HandleOtherStop, InHand, Continue, Resume, Resumed, StatusHolds, SyscallKnown, InSyscall
<1>3. ASSUME NEW p \in Pid, Exit(p) PROVE Quiet(q)
  BY <1>3 DEF Exit, ExitProcess, Ends, tracerVars
<1>4. ASSUME NEW p \in Pid, Wait(p) PROVE Quiet(q)
  BY <1>4 DEF Wait, Reap, traceeVars, Zombie
<1>5. CASE ChildStops \/ ChildFailsEarly
  BY <1>5 DEF ChildStops, ChildFailsEarly, FirstStop, Ends, tracerVars
<1>6. CASE WaitForChild \/ ChildNeverStopped
  BY <1>6 DEF WaitForChild, ChildNeverStopped, Resume, Resumed, Reap, RootBeforeWait, Zombie
<1>7. CASE UNCHANGED <<pstate, sys, tracee_pid>>
  BY <1>7
<1>8. ASSUME NEW p \in Pid, HandleExited(p) \/ RootExited(p) \/ WrongSyscall(p)
      PROVE  UNCHANGED <<pstate, sys, tracee_pid>>
  BY <1>8 DEF HandleExited, RootExited, WrongSyscall, TraceError, traceeVars
<1>9. ASSUME ReturnFromRun \/ Finished PROVE UNCHANGED <<pstate, sys, tracee_pid>>
  BY <1>9 DEF ReturnFromRun, Finished, vars, traceeVars
<1> HIDE DEF Quiet
<1> QED BY <1>1, <1>2, <1>3, <1>4, <1>5, <1>6, <1>7, <1>8, <1>9 DEF TracerAlone

\* A callback is made at the entry of an execve, or at the end of a getcwd or stat.
LEMMA CallbackMoves ==
    ASSUME IInv, EntriesKnown, NEW p \in Pid, NEW callback \in Callbacks, MockCallback(p, callback)
    PROVE  /\ UNCHANGED <<sys, tracee_pid>>
           /\ pstate' = [pstate EXCEPT ![p] = IF callback = "execve_enter" THEN "kernel" ELSE "user"]
           /\ callback = "execve_enter" => Asking(p)
           /\ callback = "getcwd_exit" => pstate[p] = "exit" /\ sys[p] = "getcwd"
           /\ callback = "stat_exit" => pstate[p] = "exit" /\ sys[p] = "stat"
<1> USE TraceesAssumption
    DEF TypeOK, TraceesTypeOK, TracerTypeOK, Asking, IsRoot, Syscall, Callbacks
<1> TypeOK /\ SyscallKnown /\ StatusHolds /\ ErrorEndsTrace
  BY DEF IInv
<1>1. pstate[p] \in {"enter", "exit"} /\ pstate' = [pstate EXCEPT ![p] = Resumed(pstate[p])]
  BY DEF MockCallback, InHand, Continue, Resume, StatusHolds, Stopped
<1>2. UNCHANGED <<sys, tracee_pid>> /\ reason = "none"
  BY DEF MockCallback, InHand, Continue, Resume, ErrorEndsTrace
<1>3. pstate[p] = "enter" => callback = "execve_enter" /\ sys[p] = "execve" /\ ~IsRoot(p)
  BY <1>1, <1>2 DEF MockCallback, Callback, SyscallStop, EntriesKnown, EntryOf, InSyscall
<1>4. pstate[p] = "exit" =>
        \/ callback = "getcwd_exit" /\ sys[p] = "getcwd"
        \/ callback = "stat_exit" /\ sys[p] = "stat"
  BY <1>1, <1>2 DEF MockCallback, Callback, SyscallStop, EntriesKnown, EntryOf, InSyscall, SyscallKnown
<1> QED BY <1>1, <1>2, <1>3, <1>4 DEF Resumed

-----------------------------------------------------------------------------
(***************************************************************************)
(* Once the steps before the hole were done nothing is checked any more.   *)
(***************************************************************************)
LEMMA HoleStep ==
    ASSUME RecorderAtHole, [MockedNext]_runVars
    PROVE  /\ ends_with_hole' = ends_with_hole
           /\ AtTheHole => AtTheHole'
           /\ RecorderAtHole'
<1> USE DEF AtTheHole, RecorderAtHole, AtHole, checker, mockVars
<1> DEFINE Goal ==
        /\ ends_with_hole' = ends_with_hole
        /\ AtTheHole => AtTheHole'
        /\ RecorderAtHole'
<1>1. ASSUME NEW p \in Pid, NEW s, NEW a, MakeSyscall(p, s, a) PROVE Goal
  BY <1>1 DEF MakeSyscall
<1>2. ASSUME NEW p \in Pid, NEW c \in Pid, ForkProcess(p, c) PROVE Goal
  BY <1>2 DEF ForkProcess
<1>3. CASE StartScript
  BY <1>3 DEF StartScript
<1>4. ASSUME NEW p \in Pid, CompleteExecve(p) \/ CompleteQuery(p) \/ CompleteOther(p) PROVE Goal
  BY <1>4 DEF CompleteExecve, CompleteQuery, CompleteOther
<1>5. ASSUME NEW p \in Pid, MockExecve(p) PROVE Goal
  BY <1>5 DEF MockExecve
<1>6. ASSUME NEW p \in Pid, RecordExecve(p) PROVE Goal
  BY <1>6 DEF RecordExecve
<1>7. ASSUME NEW p \in Pid, MockGetcwd(p) \/ MockStat(p) PROVE Goal
  BY <1>7 DEF MockGetcwd, MockStat
<1>8. ASSUME NEW exitcode, EndRun(exitcode) PROVE Goal
  BY <1>8 DEF EndRun
<1>9. CASE TracerAlone \/ UNCHANGED runVars
  BY <1>9 DEF TracerAlone, runVars
<1> QED BY <1>1, <1>2, <1>3, <1>4, <1>5, <1>6, <1>7, <1>8, <1>9 DEF MockedNext

(***************************************************************************)
(* The mock's and the processes' variables keep their types.               *)
(***************************************************************************)
LEMMA MockTypeStep ==
    ASSUME IInv, EntriesKnown, MockTypeOK, ArgumentsKnown, [MockedNext]_runVars
    PROVE  MockTypeOK'
<1> USE MockedRunAssumption, MockedAssumed DEF MockTypeOK, checker, mockVars, seen
<1>1. ASSUME NEW p \in Pid, NEW s \in Syscall, NEW a \in Command \cup File \cup {NoArg}, MakeSyscall(p, s, a)
      PROVE  MockTypeOK'
  BY <1>1 DEF MakeSyscall
<1>2. ASSUME NEW p \in Pid, NEW c \in Pid, ForkProcess(p, c) PROVE MockTypeOK'
  BY <1>2 DEF ForkProcess
<1>3. CASE StartScript
  BY <1>3 DEF StartScript
<1>4. ASSUME NEW p \in Pid, CompleteExecve(p) PROVE MockTypeOK'
  <2>1. sys[p] = "execve" /\ pstate[p] = "kernel"
    BY <1>4 DEF CompleteExecve, Complete, CompleteSyscall, IInv, SyscallKnown
  <2>2. ~IsRoot(p) => arg[p] \in {"mock"} \cup Command
    BY <2>1 DEF ArgumentsKnown, Answered
  <2> QED BY <1>4, <2>2 DEF CompleteExecve
<1>5. ASSUME NEW p \in Pid, CompleteQuery(p) \/ CompleteOther(p) PROVE MockTypeOK'
  BY <1>5 DEF CompleteQuery, CompleteOther
<1>6. ASSUME NEW p \in Pid, MockExecve(p) PROVE MockTypeOK'
  <2>1. arg[p] \in Command
    BY <1>6, CallbackMoves DEF MockExecve, HandleExecveEnter, Callbacks, ArgumentsKnown
  <2>2. received' = received \/ received' = Append(received, arg[p])
    BY <1>6 DEF MockExecve, C!CheckExecve, C!HandleStep
  <2>3. received \in Seq(Command) /\ Append(received, arg[p]) \in Seq(Command)
    BY <2>1, AppendProperties
  <2> QED BY <1>6, <2>2, <2>3 DEF MockExecve
<1>7. ASSUME NEW p \in Pid, RecordExecve(p) \/ MockGetcwd(p) \/ MockStat(p) PROVE MockTypeOK'
  BY <1>7 DEF RecordExecve, MockGetcwd, MockStat
<1>8. ASSUME NEW exitcode, EndRun(exitcode) PROVE MockTypeOK'
  BY <1>8 DEF EndRun, C!HandleEnd
<1>9. CASE TracerAlone \/ UNCHANGED runVars
  BY <1>9 DEF TracerAlone, runVars
<1> HIDE DEF MockTypeOK
<1> QED BY <1>1, <1>2, <1>3, <1>4, <1>5, <1>6, <1>7, <1>8, <1>9 DEF MockedNext

(***************************************************************************)
(* Nobody is let into the kernel with a command to be mocked.              *)
(***************************************************************************)
LEMMA ArgumentsStep ==
    ASSUME IInv, MockingInv, NoSyscallYet, [MockedNext]_runVars
    PROVE  ArgumentsKnown'
<1> USE DEF ArgumentsKnown, Asking, Answered, IsRoot
<1>t. /\ pstate \in [Pid -> ProcessState] /\ sys \in [Pid -> Syscall \cup {NoSyscall}]
      /\ arg \in [Pid -> {NoArg, "mock"} \cup Command \cup File]
      /\ ArgumentsKnown /\ EntriesKnown /\ RecorderAtHole
  BY DEF IInv, TypeOK, TraceesTypeOK, MockingInv, MockTypeOK
<1>h. AtTheHole => AtTheHole'
  BY HoleStep DEF MockingInv
<1>1. ASSUME NEW p \in Pid, NEW s \in Syscall, NEW a, MakeSyscall(p, s, a) PROVE ArgumentsKnown'
  <2>1. s = "execve" /\ ~IsRoot(p) => a \in Command
    BY <1>1 DEF MakeSyscall, Started, Arguments
  <2> QED BY <1>1, <1>t, <1>h, <2>1 DEF MakeSyscall, Enter, EnterSyscall
<1>2. ASSUME NEW p \in Pid, NEW c \in Pid, ForkProcess(p, c) PROVE ArgumentsKnown'
  BY <1>2, <1>t, <1>h DEF ForkProcess, Fork, ForkChild
<1>3. CASE StartScript
  BY <1>3, <1>t, <1>h DEF StartScript, ChildExecve, CompleteSyscall
<1>4. ASSUME NEW p \in Pid, CompleteExecve(p) \/ CompleteQuery(p) \/ CompleteOther(p) PROVE ArgumentsKnown'
  <2>1. UNCHANGED <<arg, tracee_pid, sys>> /\ pstate' = [pstate EXCEPT ![p] = "exit"]
    BY <1>4 DEF CompleteExecve, CompleteQuery, CompleteOther, Complete, CompleteSyscall, tracerVars,
        mockVars, seen
  <2> QED BY <1>t, <1>h, <2>1
<1>5. ASSUME NEW p \in Pid, MockExecve(p) PROVE ArgumentsKnown'
  <2>1. /\ UNCHANGED <<sys, tracee_pid>> /\ Asking(p)
        /\ pstate' = [pstate EXCEPT ![p] = "kernel"]
    BY <1>5, <1>t, CallbackMoves DEF MockExecve, HandleExecveEnter, Callbacks
  <2>2. arg' = [arg EXCEPT ![p] = IF arg[p] \in Unmocked THEN arg[p] ELSE "mock"]
    BY <1>5 DEF MockExecve
  <2> QED BY <1>t, <1>h, <2>1, <2>2, MockedAssumed
<1>6. ASSUME NEW p \in Pid, RecordExecve(p) PROVE ArgumentsKnown'
  <2>1. /\ UNCHANGED <<sys, tracee_pid>> /\ Asking(p)
        /\ pstate' = [pstate EXCEPT ![p] = "kernel"]
    BY <1>6, <1>t, CallbackMoves DEF RecordExecve, HandleExecveEnter, Callbacks
  <2>2. UNCHANGED arg /\ AtTheHole
    BY <1>6, <1>t DEF RecordExecve, seen, AtHole, AtTheHole, RecorderAtHole
  <2> QED BY <1>t, <1>h, <2>1, <2>2
<1>7. ASSUME NEW p \in Pid, MockGetcwd(p) \/ MockStat(p) PROVE ArgumentsKnown'
  <2>1. UNCHANGED <<sys, tracee_pid, arg>> /\ pstate' = [pstate EXCEPT ![p] = "user"]
    BY <1>7, <1>t, CallbackMoves DEF MockGetcwd, MockStat, HandleGetcwdExit, HandleStatExit, Callbacks
  <2> QED BY <1>t, <1>h, <2>1
<1>8. ASSUME NEW exitcode, EndRun(exitcode) PROVE ArgumentsKnown'
  BY <1>8, <1>t, <1>h DEF EndRun, JoinStreams, traceeVars, seen
<1>9. CASE TracerAlone
  <2>1. UNCHANGED arg /\ \A q \in Pid : Quiet(q)
    BY <1>9, <1>t, AloneIsQuiet DEF TracerAlone, mockVars, seen
  <2> QED BY <1>t, <1>h, <2>1 DEF Quiet
<1>10. CASE UNCHANGED runVars
  BY <1>10, <1>t, <1>h DEF runVars, vars, mockVars, seen
<1> HIDE DEF ArgumentsKnown
<1> QED BY <1>1, <1>2, <1>3, <1>4, <1>5, <1>6, <1>7, <1>8, <1>9, <1>10 DEF MockedNext

(***************************************************************************)
(* A process that is a command to be mocked got past the mock at the hole. *)
(***************************************************************************)
LEMMA ImageStep ==
    ASSUME IInv, MockingInv, NoSyscallYet, [MockedNext]_runVars
    PROVE  CommandsAreMocked'
<1> DEFINE Real(q) == Alive(q) /\ image[q] \in Command \ Unmocked
<1> SUFFICES ASSUME NEW q \in Pid, Real(q)' PROVE AtTheHole'
  BY DEF CommandsAreMocked, AtTheHole
<1>t. /\ pstate \in [Pid -> ProcessState]
      /\ image \in [Pid -> {"none", "script", "mock"} \cup Command]
      /\ ArgumentsKnown /\ EntriesKnown
  BY DEF IInv, TypeOK, TraceesTypeOK, MockingInv, MockTypeOK
<1>h. AtTheHole => AtTheHole'
  BY HoleStep DEF MockingInv
<1>r. ASSUME NEW p \in Pid, Real(p) PROVE AtTheHole'
  BY <1>r, <1>h DEF MockingInv, CommandsAreMocked, AtTheHole
<1> USE DEF Alive, Running, Stopped
<1>1. ASSUME NEW p \in Pid, NEW s \in Syscall, NEW a, MakeSyscall(p, s, a) PROVE Real(q)
  BY <1>1, <1>t DEF MakeSyscall, Enter, EnterSyscall
<1>2. ASSUME NEW p \in Pid, NEW c \in Pid, ForkProcess(p, c) PROVE Real(q) \/ Real(p)
  BY <1>2, <1>t DEF ForkProcess, Fork, ForkChild
<1>3. ASSUME StartScript PROVE Real(q)
  BY <1>3, <1>t, MockedAssumed DEF StartScript, ChildExecve, CompleteSyscall
<1>4. ASSUME NEW p \in Pid, CompleteExecve(p) PROVE AtTheHole'
  <2>1. sys[p] = "execve" /\ pstate[p] = "kernel" /\ pstate' = [pstate EXCEPT ![p] = "exit"]
    BY <1>4 DEF CompleteExecve, Complete, CompleteSyscall, IInv, SyscallKnown
  <2>2. CASE q # p \/ image'[q] = image[q]
    BY <1>4, <1>r, <1>t, <2>1, <2>2 DEF CompleteExecve
  <2>3. CASE q = p /\ image'[q] # image[q]
    <3>1. ~IsRoot(p) /\ image'[p] = arg[p]
      BY <1>4, <1>t, <2>3, MockedAssumed DEF CompleteExecve
    <3> QED BY <1>h, <1>t, <2>1, <2>3, <3>1 DEF ArgumentsKnown, Answered
  <2> QED BY <2>2, <2>3
<1>5. ASSUME NEW p \in Pid, CompleteQuery(p) \/ CompleteOther(p) PROVE Real(q)
  BY <1>5, <1>t DEF CompleteQuery, CompleteOther, Complete, CompleteSyscall, mockVars, seen
<1>6. ASSUME NEW p \in Pid, MockExecve(p) \/ RecordExecve(p) \/ MockGetcwd(p) \/ MockStat(p) PROVE Real(q)
  <2>1. \E callback \in Callbacks : MockCallback(p, callback)
    BY <1>6 DEF MockExecve, RecordExecve, MockGetcwd, MockStat, HandleExecveEnter, HandleGetcwdExit,
        HandleStatExit, Callbacks
  <2>2. pstate[p] \in Stopped /\ \A r \in Pid : r # p => pstate'[r] = pstate[r]
    BY <1>t, <2>1 DEF MockCallback, Continue, Resume
  <2>3. UNCHANGED image
    BY <1>6 DEF MockExecve, RecordExecve, MockGetcwd, MockStat, seen
  <2> QED BY <2>2, <2>3
<1>7. ASSUME NEW exitcode, EndRun(exitcode) PROVE Real(q)
  BY <1>7 DEF EndRun, JoinStreams, traceeVars, seen
<1>8. ASSUME TracerAlone PROVE Real(q)
  BY <1>8, <1>t, AloneIsQuiet DEF TracerAlone, Quiet, mockVars, seen
<1>9. ASSUME UNCHANGED runVars PROVE Real(q)
  BY <1>9 DEF runVars, vars, mockVars, seen
<1> HIDE DEF Real
<1> QED BY <1>1, <1>2, <1>3, <1>4, <1>5, <1>6, <1>7, <1>8, <1>9, <1>r DEF MockedNext

-----------------------------------------------------------------------------
(***************************************************************************)
(* A process outside of a syscall that was never resumed has made none.    *)
(***************************************************************************)
LEMMA NoSyscallYetStep ==
    ASSUME IInv, EntriesKnown, NoSyscallYet, [MockedNext]_runVars
    PROVE  NoSyscallYet'
<1>t. /\ pstate \in [Pid -> ProcessState] /\ sys \in [Pid -> Syscall \cup {NoSyscall}]
  BY DEF IInv, TypeOK, TraceesTypeOK
<1> USE DEF NoSyscallYet
<1>1. ASSUME NEW p \in Pid, NEW s \in Syscall, NEW a, MakeSyscall(p, s, a) PROVE NoSyscallYet'
  BY <1>1, <1>t DEF MakeSyscall, Enter, EnterSyscall
<1>2. ASSUME NEW p \in Pid, NEW c \in Pid, ForkProcess(p, c) PROVE NoSyscallYet'
  BY <1>2, <1>t DEF ForkProcess, Fork, ForkChild
<1>3. CASE StartScript
  BY <1>3, <1>t DEF StartScript, ChildExecve, CompleteSyscall
<1>4. ASSUME NEW p \in Pid, CompleteExecve(p) \/ CompleteQuery(p) \/ CompleteOther(p) PROVE NoSyscallYet'
  BY <1>4, <1>t DEF CompleteExecve, CompleteQuery, CompleteOther, Complete, CompleteSyscall
<1>5. ASSUME NEW p \in Pid, MockExecve(p) \/ RecordExecve(p) \/ MockGetcwd(p) \/ MockStat(p) PROVE NoSyscallYet'
  <2>1. PICK callback \in Callbacks : MockCallback(p, callback)
    BY <1>5 DEF MockExecve, RecordExecve, MockGetcwd, MockStat, HandleExecveEnter, HandleGetcwdExit,
        HandleStatExit, Callbacks
  <2>2. UNCHANGED sys /\ \E s \in {"kernel", "user"} : pstate' = [pstate EXCEPT ![p] = s]
    BY <2>1, CallbackMoves
  <2> QED BY <1>t, <2>2
<1>6. ASSUME NEW exitcode, EndRun(exitcode) PROVE NoSyscallYet'
  BY <1>6 DEF EndRun, JoinStreams, traceeVars
<1>7. CASE TracerAlone
  BY <1>7, AloneIsQuiet DEF Quiet
<1>8. CASE UNCHANGED runVars
  BY <1>8 DEF runVars, vars
<1> HIDE DEF NoSyscallYet
<1> QED BY <1>1, <1>2, <1>3, <1>4, <1>5, <1>6, <1>7, <1>8 DEF MockedNext

MockedInv == MockingInv /\ NoSyscallYet

LEMMA MockedInvInit == MockedInit => MockedInv
<1> SUFFICES ASSUME MockedInit PROVE MockedInv
  OBVIOUS
<1>1. PICK c \in Pid : pstate = [p \in Pid |-> IF p = c THEN "boot" ELSE "none"]
  BY DEF MockedInit, Init
<1>2. MockTypeOK
  BY EmptySeq DEF MockedInit, C!Init, MockTypeOK
<1>3. EntriesKnown /\ NoSyscallYet
  BY <1>1 DEF MockedInit, Init, EntriesKnown, EntryOf, InSyscall, NoSyscallYet
<1>4. RecorderAtHole
  BY DEF MockedInit, RecorderAtHole
<1>5. ArgumentsKnown
  BY <1>1 DEF MockedInit, ArgumentsKnown, Asking, Answered
<1>6. CommandsAreMocked
  BY MockedAssumed DEF MockedInit, CommandsAreMocked
<1> QED BY <1>2, <1>3, <1>4, <1>5, <1>6 DEF MockedInv, MockingInv

LEMMA MockedInvariant == MockedSpec => []MockedInv
<1>1. IInv /\ MockedInv /\ [MockedNext]_runVars => MockedInv'
  BY EntriesStep, HoleStep, MockTypeStep, ArgumentsStep, ImageStep, NoSyscallYetStep
  DEF MockedInv, MockingInv
<1> QED BY <1>1, MockedInvInit, MockedTracer, Invariant, PTL DEF MockedSpec

(***************************************************************************)
(* No command of the script is really executed in place of its mock, in    *)
(* whatever order the processes are traced and whatever pids they get.     *)
(***************************************************************************)
THEOREM MockedAreMocked == MockedSpec => []CommandsAreMocked
<1>1. MockedInv => CommandsAreMocked
  BY DEF MockedInv, MockingInv
<1> QED BY <1>1, MockedInvariant, PTL

-----------------------------------------------------------------------------
(***************************************************************************)
(* The kernel's answer waits for the callback, which replaces it.          *)
(***************************************************************************)
LEMMA AnswersStep ==
    ASSUME IInv, MockedInv, AnswersInv, [MockedNext]_runVars
    PROVE  AnswersReal' /\ AnswersAreMocked'
<1> DEFINE Queried(q) == sys[q] \in {"getcwd", "stat"}
           Told(q) == answer[q] = IF Mocked(q) THEN "mocked" ELSE "real"
           Kept(q) ==
               /\ pstate[q] = "exit" /\ Queried(q) => answer[q] = "real"
               /\ ~ends_with_hole /\ pstate[q] = "user" /\ Queried(q) => Told(q)
<1> SUFFICES ASSUME NEW q \in Pid PROVE Kept(q)'
  BY DEF AnswersReal, AnswersAreMocked
<1>t. /\ pstate \in [Pid -> ProcessState] /\ sys \in [Pid -> Syscall \cup {NoSyscall}]
      /\ answer \in [Pid -> {"none", "real", "mocked"}]
      /\ arg \in [Pid -> {NoArg, "mock"} \cup Command \cup File]
      /\ EntriesKnown /\ NoSyscallYet
  BY DEF IInv, TypeOK, TraceesTypeOK, MockedInv, MockingInv, MockTypeOK
<1>k. Kept(q)
  BY DEF AnswersInv, AnswersReal, AnswersAreMocked
<1>h. ends_with_hole' = ends_with_hole
  BY HoleStep DEF MockedInv, MockingInv
<1> USE DEF Mocked
<1>1. ASSUME NEW p \in Pid, NEW s \in Syscall, NEW a, MakeSyscall(p, s, a) PROVE Kept(q)'
  BY <1>1, <1>t, <1>k, <1>h DEF MakeSyscall, Enter, EnterSyscall
<1>2. ASSUME NEW p \in Pid, NEW c \in Pid, ForkProcess(p, c) PROVE Kept(q)'
  BY <1>2, <1>t, <1>k, <1>h DEF ForkProcess, Fork, ForkChild
<1>3. CASE StartScript
  <2>1. sys[tracee_pid] = "execve"
    BY <1>3 DEF StartScript, ChildExecve, IInv, StartingRoot
  <2> QED BY <1>3, <1>t, <1>k, <1>h, <2>1 DEF StartScript, ChildExecve, CompleteSyscall
<1>4. ASSUME NEW p \in Pid, CompleteExecve(p) \/ CompleteQuery(p) \/ CompleteOther(p) PROVE Kept(q)'
  <2>1. UNCHANGED <<arg, sys>> /\ pstate' = [pstate EXCEPT ![p] = "exit"]
    BY <1>4 DEF CompleteExecve, CompleteQuery, CompleteOther, Complete, CompleteSyscall, tracerVars,
        mockVars, seen
  <2>2. answer' = IF Queried(p) THEN [answer EXCEPT ![p] = "real"] ELSE answer
    BY <1>4 DEF CompleteExecve, CompleteQuery, CompleteOther, mockVars, seen
  <2> QED BY <1>t, <1>k, <1>h, <2>1, <2>2
<1>5. ASSUME NEW p \in Pid, MockExecve(p) \/ RecordExecve(p) PROVE Kept(q)'
  <2>1. UNCHANGED sys /\ sys[p] = "execve" /\ pstate' = [pstate EXCEPT ![p] = "kernel"]
    BY <1>5, <1>t, CallbackMoves DEF MockExecve, RecordExecve, HandleExecveEnter, Callbacks, Asking
  <2>2. UNCHANGED answer /\ \A r \in Pid : r # p => arg'[r] = arg[r]
    BY <1>5, <1>t DEF MockExecve, RecordExecve, seen
  <2> QED BY <1>t, <1>k, <1>h, <2>1, <2>2
<1>6. ASSUME NEW p \in Pid, MockGetcwd(p) PROVE Kept(q)'
  <2>1. /\ UNCHANGED <<sys, arg>> /\ pstate[p] = "exit" /\ sys[p] = "getcwd"
        /\ pstate' = [pstate EXCEPT ![p] = "user"]
    BY <1>6, <1>t, CallbackMoves DEF MockGetcwd, HandleGetcwdExit, Callbacks
  <2>2. answer' = [answer EXCEPT ![p] = IF CwdMocked /\ ~ends_with_hole THEN "mocked" ELSE answer[p]]
    BY <1>6 DEF MockGetcwd
  <2>3. answer[p] = "real"
    BY <2>1 DEF AnswersInv, AnswersReal
  <2> QED BY <1>t, <1>k, <1>h, <2>1, <2>2, <2>3
<1>7. ASSUME NEW p \in Pid, MockStat(p) PROVE Kept(q)'
  <2>1. /\ UNCHANGED <<sys, arg>> /\ pstate[p] = "exit" /\ sys[p] = "stat"
        /\ pstate' = [pstate EXCEPT ![p] = "user"]
    BY <1>7, <1>t, CallbackMoves DEF MockStat, HandleStatExit, Callbacks
  <2>2. answer' = [answer EXCEPT ![p] =
            IF arg[p] \in MockedFiles /\ ~ends_with_hole THEN "mocked" ELSE answer[p]]
    BY <1>7 DEF MockStat
  <2>3. answer[p] = "real"
    BY <2>1 DEF AnswersInv, AnswersReal
  <2> QED BY <1>t, <1>k, <1>h, <2>1, <2>2, <2>3
<1>8. ASSUME NEW exitcode, EndRun(exitcode) PROVE Kept(q)'
  BY <1>8, <1>k, <1>h DEF EndRun, JoinStreams, traceeVars, seen
<1>9. CASE TracerAlone
  BY <1>9, <1>t, <1>k, <1>h, AloneIsQuiet DEF TracerAlone, Quiet, mockVars, seen
<1>10. CASE UNCHANGED runVars
  BY <1>10, <1>k DEF runVars, vars, mockVars, seen
<1> HIDE DEF Kept
<1> QED BY <1>1, <1>2, <1>3, <1>4, <1>5, <1>6, <1>7, <1>8, <1>9, <1>10 DEF MockedNext

(***************************************************************************)
(* A process that goes on after a getcwd or stat was told what the test    *)
(* says, never the truth instead of it nor a mock the test does not name.  *)
(***************************************************************************)
THEOREM AnswersCorrect == MockedSpec => []AnswersAreMocked
<1>1. MockedInit => AnswersInv
  <2> SUFFICES ASSUME MockedInit PROVE AnswersInv
    OBVIOUS
  <2>1. \A p \in Pid : pstate[p] \in {"boot", "none"}
    BY DEF MockedInit, Init
  <2> QED BY <2>1, MockedInvInit DEF AnswersInv, AnswersReal, AnswersAreMocked, MockedInv
<1>2. IInv /\ MockedInv /\ AnswersInv /\ [MockedNext]_runVars => AnswersInv'
  BY AnswersStep, NoSyscallYetStep DEF AnswersInv, MockedInv, MockingInv
<1>3. AnswersInv => AnswersAreMocked
  BY DEF AnswersInv
<1> QED BY <1>1, <1>2, <1>3, MockedInvariant, MockedTracer, Invariant, PTL DEF MockedSpec

-----------------------------------------------------------------------------
(***************************************************************************)
(* The commands that were checked, counted.                                *)
(***************************************************************************)
LEMMA OneMore ==
    ASSUME NEW r \in Seq(Command), NEW e \in Command, NEW c
    PROVE  /\ Cardinality(Places(r, c)) \in Nat
           /\ Cardinality(Places(Append(r, e), c)) = Cardinality(Places(r, c)) + IF e = c THEN 1 ELSE 0
<1> DEFINE n == Len(r)
           longer == Append(r, e)
<1>1. n \in Nat
  BY LenProperties
<1>2. Len(longer) = n + 1 /\ longer[n + 1] = e /\ \A i \in 1..n : longer[i] = r[i]
  BY AppendProperties
<1>3. IsFiniteSet(1..n)
  BY <1>1, FS_Interval
<1>4. Places(r, c) \subseteq 1..n
  BY DEF Places
<1>5. IsFiniteSet(Places(r, c)) /\ Cardinality(Places(r, c)) \in Nat
  BY <1>3, <1>4, FS_Subset, FS_CardinalityType
<1>6. Places(longer, c) = Places(r, c) \cup (IF e = c THEN {n + 1} ELSE {})
  <2> HIDE DEF longer, n
  <2>1. ASSUME NEW i PROVE i \in Places(longer, c) <=> i \in 1..(n + 1) /\ longer[i] = c
    BY <1>2 DEF Places
  <2>2. ASSUME NEW i PROVE i \in Places(r, c) <=> i \in 1..n /\ r[i] = c
    BY DEF n, Places
  <2>3. ASSUME NEW i PROVE i \in 1..(n + 1) <=> i \in 1..n \/ i = n + 1
    BY <1>1
  <2>4. ASSUME NEW i PROVE i \in Places(longer, c) <=> i \in Places(r, c) \/ (e = c /\ i = n + 1)
    BY <1>2, <2>1, <2>2, <2>3
  <2> QED BY <2>4
<1>7. n + 1 \notin Places(r, c)
  BY <1>1, <1>4
<1>8. Cardinality(Places(r, c) \cup {n + 1}) = Cardinality(Places(r, c)) + 1
  BY <1>5, <1>7, FS_AddElement
<1>9. CASE e = c
  BY <1>5, <1>6, <1>8, <1>9
<1>10. CASE e # c
  <2>1. Places(longer, c) = Places(r, c)
    BY <1>6, <1>10
  <2> QED BY <1>5, <1>10, <2>1
<1> QED BY <1>9, <1>10

(***************************************************************************)
(* Every execution of a command waits for the tracer or was checked.       *)
(***************************************************************************)
LEMMA CountsStep ==
    ASSUME IInv, MockedInv, CountsAgree, [MockedNext]_runVars
    PROVE  CountsAgree'
<1> DEFINE Counted(c) == IsFiniteSet(Pending(c)) /\ executed[c] = Times(c) + Cardinality(Pending(c))
<1>h. ends_with_hole' = ends_with_hole
  BY HoleStep DEF MockedInv, MockingInv
<1> SUFFICES ASSUME ~ends_with_hole, NEW c \in Command, c \notin Unmocked PROVE Counted(c)'
  BY <1>h DEF CountsAgree
<1>t. /\ pstate \in [Pid -> ProcessState] /\ sys \in [Pid -> Syscall \cup {NoSyscall}]
      /\ arg \in [Pid -> {NoArg, "mock"} \cup Command \cup File]
      /\ received \in Seq(Command) /\ executed \in [Command -> Nat]
      /\ EntriesKnown /\ NoSyscallYet /\ ArgumentsKnown /\ RecorderAtHole
  BY DEF IInv, TypeOK, TraceesTypeOK, MockedInv, MockingInv, MockTypeOK
<1>k. Counted(c)
  BY DEF CountsAgree
<1>n. Cardinality(Pending(c)) \in Nat /\ Times(c) \in Nat /\ executed[c] \in Nat
  BY <1>t, <1>k, OneMore, FS_CardinalityType DEF Times
<1>s. ASSUME UNCHANGED <<received, executed>>, \A q \in Pid : Asking(q)' <=> Asking(q),
             \A q \in Pid : Asking(q) => arg'[q] = arg[q]
      PROVE  Counted(c)'
  <2>1. Pending(c)' = Pending(c)
    BY <1>s DEF Pending
  <2> HIDE DEF Pending
  <2> QED BY <1>k, <1>s, <2>1 DEF Times
<1>1. ASSUME NEW p \in Pid, NEW s \in Syscall, NEW a, MakeSyscall(p, s, a) PROVE Counted(c)'
  <2>1. /\ pstate[p] = "user" /\ pstate' = [pstate EXCEPT ![p] = "enter"]
        /\ sys' = [sys EXCEPT ![p] = s] /\ arg' = [arg EXCEPT ![p] = a]
        /\ UNCHANGED <<tracee_pid, received>>
    BY <1>1 DEF MakeSyscall, Enter, EnterSyscall, checker
  <2>2. executed' = IF s = "execve" /\ a \in Command \ Unmocked /\ ~IsRoot(p)
                    THEN [executed EXCEPT ![a] = @ + 1] ELSE executed
    BY <1>1 DEF MakeSyscall
  <2>3. p \notin Pending(c)
    BY <2>1 DEF Pending, Asking
  <2>4. CASE s = "execve" /\ a = c /\ ~IsRoot(p)
    <3>1. Pending(c)' = Pending(c) \cup {p}
      BY <1>t, <2>1, <2>4 DEF Pending, Asking, IsRoot
    <3>2. IsFiniteSet(Pending(c) \cup {p}) /\ Cardinality(Pending(c) \cup {p}) = Cardinality(Pending(c)) + 1
      BY <1>k, <2>3, FS_AddElement
    <3>3. executed'[c] = executed[c] + 1
      BY <1>t, <2>2, <2>4
    <3>4. Times(c)' = Times(c)
      BY <2>1 DEF Times
    <3> HIDE DEF Pending, Times
    <3> QED BY <1>k, <1>n, <3>1, <3>2, <3>3, <3>4
  <2>5. CASE ~ (s = "execve" /\ a = c /\ ~IsRoot(p))
    <3>1. Pending(c)' = Pending(c)
      BY <1>t, <2>1, <2>5 DEF Pending, Asking, IsRoot
    <3>2. executed'[c] = executed[c]
      BY <1>t, <2>2, <2>5
    <3>3. Times(c)' = Times(c)
      BY <2>1 DEF Times
    <3> HIDE DEF Pending, Times
    <3> QED BY <1>k, <3>1, <3>2, <3>3
  <2> QED BY <2>4, <2>5
<1>2. ASSUME NEW p \in Pid, NEW b \in Pid, ForkProcess(p, b) PROVE Counted(c)'
  <2>1. /\ UNCHANGED <<received, executed>>
        /\ \A q \in Pid : Asking(q)' <=> Asking(q)
        /\ \A q \in Pid : Asking(q) => arg'[q] = arg[q]
    BY <1>2, <1>t DEF ForkProcess, Fork, ForkChild, Asking, IsRoot, checker
  <2> QED BY <1>s, <2>1
<1>3. CASE StartScript
  <2>1. /\ UNCHANGED <<received, executed, arg>>
        /\ \A q \in Pid : Asking(q)' <=> Asking(q)
    BY <1>3, <1>t DEF StartScript, ChildExecve, CompleteSyscall, Asking, IsRoot, checker
  <2> QED BY <1>s, <2>1
<1>4. ASSUME NEW p \in Pid, CompleteExecve(p) \/ CompleteQuery(p) \/ CompleteOther(p) PROVE Counted(c)'
  <2>1. UNCHANGED <<arg, sys, received, executed, tracee_pid>>
    BY <1>4 DEF CompleteExecve, CompleteQuery, CompleteOther, Complete, CompleteSyscall, tracerVars,
        mockVars, seen, checker
  <2>2. pstate[p] # "enter" /\ pstate' = [pstate EXCEPT ![p] = "exit"]
    BY <1>4 DEF CompleteExecve, CompleteQuery, CompleteOther, Complete, CompleteSyscall
  <2>3. \A q \in Pid : Asking(q)' <=> Asking(q)
    BY <1>t, <2>1, <2>2 DEF Asking, IsRoot
  <2> QED BY <1>s, <2>1, <2>3
<1>5. ASSUME NEW p \in Pid, MockExecve(p) PROVE Counted(c)'
  <2>1. /\ UNCHANGED <<sys, tracee_pid>> /\ Asking(p)
        /\ pstate' = [pstate EXCEPT ![p] = "kernel"]
    BY <1>5, <1>t, CallbackMoves DEF MockExecve, HandleExecveEnter, Callbacks
  <2>2. arg' = [arg EXCEPT ![p] = IF arg[p] \in Unmocked THEN arg[p] ELSE "mock"] /\ UNCHANGED executed
    BY <1>5 DEF MockExecve
  <2>3. received' = IF arg[p] \in Unmocked THEN received ELSE Append(received, arg[p])
    BY <1>5 DEF MockExecve, C!CheckExecve, C!HandleStep
  <2>4. arg[p] \in Command
    BY <1>t, <2>1 DEF ArgumentsKnown
  <2>5. Pending(c)' = Pending(c) \ {p}
    <3>1. ASSUME NEW q \in Pid PROVE Asking(q)' <=> Asking(q) /\ q # p
      BY <1>t, <2>1 DEF Asking, IsRoot
    <3>2. ASSUME NEW q \in Pid, q # p PROVE arg'[q] = arg[q]
      BY <1>t, <2>2, <3>2
    <3> QED BY <3>1, <3>2 DEF Pending
  <2>c. Cardinality(Places(Append(received, arg[p]), c)) = Times(c) + IF arg[p] = c THEN 1 ELSE 0
    BY <1>t, <2>4, OneMore DEF Times
  <2>6. CASE arg[p] = c
    <3>1. p \in Pending(c)
      BY <2>1, <2>6 DEF Pending
    <3>2. IsFiniteSet(Pending(c) \ {p}) /\ Cardinality(Pending(c) \ {p}) = Cardinality(Pending(c)) - 1
      BY <1>k, <3>1, FS_RemoveElement
    <3>3. Times(c)' = Times(c) + 1
      <4>1. received' = Append(received, c)
        BY <2>3, <2>6
      <4> QED BY <2>6, <2>c, <4>1 DEF Times
    <3> HIDE DEF Pending, Times
    <3> QED BY <1>k, <1>n, <2>2, <2>5, <3>2, <3>3
  <2>7. CASE arg[p] # c
    <3>1. p \notin Pending(c)
      BY <2>7 DEF Pending
    <3>2. Pending(c)' = Pending(c)
      BY <2>5, <3>1
    <3>3. Times(c)' = Times(c)
      <4>1. CASE arg[p] \in Unmocked
        BY <2>3, <4>1 DEF Times
      <4>2. CASE arg[p] \notin Unmocked
        <5>1. received' = Append(received, arg[p])
          BY <2>3, <4>2
        <5>2. Times(c)' = Times(c) + 0
          BY <2>7, <2>c, <5>1 DEF Times
        <5> HIDE DEF Times
        <5> QED BY <1>n, <5>2
      <4> QED BY <4>1, <4>2
    <3> HIDE DEF Pending, Times
    <3> QED BY <1>k, <2>2, <3>2, <3>3
  <2> QED BY <2>6, <2>7
<1>6. ASSUME NEW p \in Pid, RecordExecve(p) PROVE FALSE
  BY <1>6, <1>t DEF RecordExecve, AtHole, RecorderAtHole, AtTheHole
<1>7. ASSUME NEW p \in Pid, MockGetcwd(p) \/ MockStat(p) PROVE Counted(c)'
  <2>1. UNCHANGED <<sys, tracee_pid, arg, received, executed>> /\ pstate[p] = "exit"
    BY <1>7, <1>t, CallbackMoves
    DEF MockGetcwd, MockStat, HandleGetcwdExit, HandleStatExit, Callbacks, checker
  <2>2. pstate' = [pstate EXCEPT ![p] = "user"]
    BY <1>7, <1>t, CallbackMoves DEF MockGetcwd, MockStat, HandleGetcwdExit, HandleStatExit, Callbacks
  <2>3. \A q \in Pid : Asking(q)' <=> Asking(q)
    BY <1>t, <2>1, <2>2 DEF Asking, IsRoot
  <2> QED BY <1>s, <2>1, <2>3
<1>8. ASSUME NEW exitcode, EndRun(exitcode) PROVE Counted(c)'
  <2>1. UNCHANGED <<pstate, sys, tracee_pid, arg, received, executed>>
    BY <1>8 DEF EndRun, JoinStreams, traceeVars, seen, checker, C!HandleEnd
  <2> QED BY <1>s, <2>1 DEF Asking, IsRoot
<1>9. CASE TracerAlone
  <2>1. UNCHANGED <<arg, received, executed>> /\ \A q \in Pid : Asking(q)' <=> Asking(q)
    BY <1>9, <1>t, AloneIsQuiet DEF TracerAlone, Quiet, mockVars, seen, checker
  <2> QED BY <1>s, <2>1
<1>10. CASE UNCHANGED runVars
  <2>1. UNCHANGED <<pstate, sys, tracee_pid, arg, received, executed>>
    BY <1>10 DEF runVars, vars, mockVars, seen, checker
  <2> QED BY <1>s, <2>1 DEF Asking, IsRoot
<1> HIDE DEF Counted
<1> QED BY <1>1, <1>2, <1>3, <1>4, <1>5, <1>6, <1>7, <1>8, <1>9, <1>10 DEF MockedNext

LEMMA CountsInit == MockedInit => CountsAgree
<1> SUFFICES ASSUME MockedInit, NEW c \in Command
             PROVE  IsFiniteSet(Pending(c)) /\ executed[c] = Times(c) + Cardinality(Pending(c))
  BY DEF CountsAgree
<1>1. \A p \in Pid : pstate[p] # "enter"
  BY DEF MockedInit, Init
<1>2. Pending(c) = {}
  BY <1>1 DEF Pending, Asking
<1>3. executed[c] = 0 /\ received = <<>>
  BY DEF MockedInit, C!Init
<1>4. Times(c) = Cardinality({})
  <2>1. Places(received, c) = {}
    BY <1>3 DEF Places
  <2> QED BY <2>1 DEF Times
<1>5. IsFiniteSet({}) /\ Cardinality({}) = 0
  BY FS_EmptySet
<1> HIDE DEF Pending, Times
<1> QED BY <1>2, <1>3, <1>4, <1>5

-----------------------------------------------------------------------------
(***************************************************************************)
(* If processes wait for their children, only the root tracee has no       *)
(* parent.                                                                 *)
(***************************************************************************)
LEMMA FamilyStaysStep ==
    ASSUME ~Background, IInv, FamilyInv, EntriesKnown, FamilyStays, [MockedNext]_runVars
    PROVE  FamilyStays'
<1> USE DEF IsRoot, Exists, HasChildren
<1>t. /\ pstate \in [Pid -> ProcessState] /\ sys \in [Pid -> Syscall \cup {NoSyscall}]
      /\ parent \in [Pid -> Pid \cup {NoPid}] /\ NoPid \notin Pid /\ tracee_pid \in Pid
  BY TraceesAssumption DEF IInv, TypeOK, TraceesTypeOK, TracerTypeOK
<1>k. NoOrphans /\ ExitsAlone /\ ParentsLive
  BY DEF FamilyStays, FamilyInv
<1> SUFFICES NoOrphans' /\ ExitsAlone'
  BY DEF FamilyStays
\* Who exists stays the same, and nobody gets ready to exit.
<1>s. ASSUME UNCHANGED <<parent, tracee_pid>>,
             \A q \in Pid :
                 /\ Exists(q)' => Exists(q)
                 /\ pstate'[q] = "boot" => pstate[q] = "boot"
                 /\ sys'[q] = "exit_group" /\ pstate'[q] \in {"enter", "kernel"}
                      => sys[q] = "exit_group" /\ pstate[q] \in {"enter", "kernel"}
      PROVE  NoOrphans' /\ ExitsAlone'
  BY <1>k, <1>s DEF NoOrphans, ExitsAlone
<1>e. ASSUME NEW p \in Pid, Exists(p), Ends(p, "exited"), UNCHANGED tracee_pid, ~HasChildren(p)
      PROVE  NoOrphans' /\ ExitsAlone'
  BY <1>t, <1>k, <1>e DEF Ends, NoOrphans, ExitsAlone
<1>1. ASSUME NEW p \in Pid, NEW s \in Syscall, Enter(p, s) PROVE NoOrphans' /\ ExitsAlone'
  BY <1>1, <1>t, <1>k DEF Enter, EnterSyscall, NoOrphans, ExitsAlone
<1>2. ASSUME NEW p \in Pid, NEW c \in Pid, Fork(p, c) PROVE NoOrphans' /\ ExitsAlone'
  BY <1>2, <1>t, <1>k DEF Fork, ForkChild, NoOrphans, ExitsAlone
<1>3. CASE ChildExecve
  BY <1>3, <1>t, <1>s DEF ChildExecve, CompleteSyscall
<1>4. ASSUME NEW p \in Pid, Complete(p) PROVE NoOrphans' /\ ExitsAlone'
  BY <1>4, <1>t, <1>s DEF Complete, CompleteSyscall, tracerVars
<1>5. ASSUME NEW p \in Pid, NEW callback \in Callbacks, MockCallback(p, callback)
      PROVE  NoOrphans' /\ ExitsAlone'
  <2>1. UNCHANGED <<parent, tracee_pid, sys>> /\ pstate[p] \in Stopped
    BY <1>5, CallbackMoves DEF MockCallback, Continue, Resume
  <2>2. \E s \in {"kernel", "user"} :
            pstate' = [pstate EXCEPT ![p] = s] /\ (s = "kernel" => sys[p] = "execve")
    BY <1>5, CallbackMoves DEF Asking, Callbacks
  <2> QED BY <1>t, <1>s, <2>1, <2>2 DEF Stopped
<1>6. ASSUME NEW p \in Pid, HandleOtherSyscall(p) \/ HandleOtherStop(p) PROVE NoOrphans' /\ ExitsAlone'
  BY <1>6, <1>t, <1>s DEF HandleOtherSyscall, HandleOtherStop, Continue, Resume, Resumed, Stopped
<1>7. ASSUME NEW p \in Pid, Exit(p) PROVE NoOrphans' /\ ExitsAlone'
  <2>1. Exists(p) /\ Ends(p, "exited") /\ UNCHANGED tracee_pid /\ ~HasChildren(p)
    BY <1>7, <1>k DEF Exit, ExitProcess, ExitsAlone, tracerVars
  <2> QED BY <1>e, <2>1
<1>8. ASSUME NEW p \in Pid, Reap(p), UNCHANGED tracee_pid PROVE NoOrphans' /\ ExitsAlone'
  BY <1>8, <1>t, <1>k DEF Reap, Zombie, NoOrphans, ExitsAlone
<1>9. CASE ChildStops
  BY <1>9, <1>t, <1>s DEF ChildStops, FirstStop, tracerVars
<1>10. CASE ChildFailsEarly
  <2>1. Exists(tracee_pid) /\ Ends(tracee_pid, "exited") /\ UNCHANGED tracee_pid /\ ~HasChildren(tracee_pid)
    BY <1>10, <1>t, <1>k DEF ChildFailsEarly, ExitsAlone
  <2> QED BY <1>e, <1>t, <2>1
<1>11. CASE WaitForChild
  BY <1>11, <1>t, <1>s DEF WaitForChild, Resume, Resumed, Stopped, IInv, RootBeforeWait
<1>12. CASE UNCHANGED traceeVars /\ UNCHANGED tracee_pid
  BY <1>12, <1>s DEF traceeVars
<1>13. ASSUME NEW p \in Pid, Wait(p) PROVE NoOrphans' /\ ExitsAlone'
  BY <1>8, <1>12, <1>13 DEF Wait
<1>14. CASE ChildNeverStopped
  BY <1>8, <1>14, <1>t DEF ChildNeverStopped
<1> QED BY <1>1, <1>2, <1>3, <1>4, <1>5, <1>6, <1>7, <1>9, <1>10, <1>11, <1>12, <1>13, <1>14, TracerCases

LEMMA FamilyStaysInit == MockedInit => FamilyStays
  BY TraceesAssumption
  DEF MockedInit, Init, FamilyStays, NoOrphans, ExitsAlone, HasChildren, Exists, IsRoot

LEMMA CountsChecked ==
    ASSUME OnlyOrphansLeft, FamilyStays, MockTypeOK, CountsAgree
    PROVE  EveryCommandChecked
<1> SUFFICES ASSUME outcome = "verdict", ~ends_with_hole, NEW c \in Command, c \notin Unmocked
             PROVE  Times(c) = executed[c]
  BY DEF EveryCommandChecked
<1>1. \A p \in Pid : ~Exists(p)
  BY DEF OnlyOrphansLeft, FamilyStays, NoOrphans, IsRoot
<1>2. Pending(c) = {}
  BY <1>1 DEF Pending, Asking, Exists
<1>3. executed[c] = Times(c) + Cardinality(Pending(c)) /\ executed[c] \in Nat
  BY DEF CountsAgree, MockTypeOK
<1>4. Cardinality(Pending(c)) = 0
  BY <1>2, FS_EmptySet
<1>5. Times(c) \in Nat
  BY OneMore DEF MockTypeOK, Times
<1> HIDE DEF Pending, Times
<1> QED BY <1>3, <1>4, <1>5

(***************************************************************************)
(* The verdict of a script whose processes wait for their children is      *)
(* about everything it executed: each command was checked exactly once.    *)
(***************************************************************************)
THEOREM VerdictIsComplete ==
    ASSUME ~Background
    PROVE  MockedSpec => []EveryCommandChecked
<1>1. IInv /\ MockedInv /\ CountsAgree /\ [MockedNext]_runVars => CountsAgree'
  BY CountsStep
<1>2. IInv /\ FamilyInv /\ MockedInv /\ FamilyStays /\ [MockedNext]_runVars => FamilyStays'
  BY FamilyStaysStep DEF MockedInv, MockingInv
<1>3. OnlyOrphansLeft /\ FamilyStays /\ MockedInv /\ CountsAgree => EveryCommandChecked
  BY CountsChecked DEF MockedInv, MockingInv
<1>4. MockedSpec => []IInv /\ []FamilyInv /\ []OnlyOrphansLeft
  BY MockedTracer, Invariant, FamilyAlways, VerdictLeavesOrphans, PTL
<1> QED
  BY <1>1, <1>2, <1>3, <1>4, CountsInit, FamilyStaysInit, MockedInvariant, PTL DEF MockedSpec

-----------------------------------------------------------------------------
(***************************************************************************)
(* A test that passes at its end has no steps left and gets the exit code  *)
(* that it expects.                                                        *)
(***************************************************************************)
LEMMA PassAtEnd ==
    ASSUME NEW exitcode, C!CheckEnd(exitcode, NoOutput, NoOutput) = C!Pass
    PROVE  steps = <<>> /\ exitcode = IF test.exitcode = NoValue THEN 0 ELSE test.exitcode
BY DEF C!CheckEnd, C!CheckExpectedOutputStream, C!RegisterIf, C!RegisterError, C!Failure, C!Pass,
   C!V!Failure, C!V!Pass

\* The mock does not hear of scriptkeeper's own code.
LEMMA UnstartedStep ==
    ASSUME IInv, EntriesKnown, UnstartedInv, [MockedNext]_runVars
    PROVE  UnstartedInv'
<1> USE DEF UnstartedInv, Unstarted, Exists, IsRoot, checker
<1>t. /\ pstate \in [Pid -> ProcessState] /\ sys \in [Pid -> Syscall \cup {NoSyscall}]
      /\ tracee_pid \in Pid /\ StartingRoot /\ NoSyscall # "fork"
  BY TraceesAssumption DEF IInv, TypeOK, TraceesTypeOK, TracerTypeOK, Syscall
\* Steps that the mock is not asked at and that make no process.
<1>s. ASSUME UNCHANGED <<test, steps, verdict, tracee_pid>>,
             child' = child \/ (child = "starting" /\ child' \in {"failed", "unreported"}),
             tpc' \in {"result", "returned"} \/ tpc \notin {"result", "returned"},
             \A q \in Pid : Exists(q)' => Exists(q),
             sys'[tracee_pid] # "fork" \/ sys'[tracee_pid] = sys[tracee_pid]
      PROVE  UnstartedInv'
  <2>1. NoValue # C!Pass
    BY MockedAssumed DEF C!CheckerAssumption, C!Results
  <2> QED BY <1>s, <2>1
<1>1. ASSUME NEW p \in Pid, NEW s \in Syscall, NEW a, MakeSyscall(p, s, a) PROVE UnstartedInv'
  <2>1. IsRoot(p) /\ child # "script" => s # "fork"
    BY <1>1 DEF MakeSyscall, Enter, NextCalls
  <2>2. CASE child = "script"
    BY <1>1, <2>2 DEF MakeSyscall, Enter
  <2>3. CASE child # "script"
    <3>1. /\ UNCHANGED <<test, steps, verdict, tracee_pid, child, tpc>>
          /\ pstate' = [pstate EXCEPT ![p] = "enter"] /\ sys' = [sys EXCEPT ![p] = s]
          /\ pstate[p] = "user"
      BY <1>1 DEF MakeSyscall, Enter, EnterSyscall
    <3> QED BY <1>s, <1>t, <2>1, <2>3, <3>1
  <2> QED BY <2>2, <2>3
<1>2. ASSUME NEW p \in Pid, NEW c \in Pid, ForkProcess(p, c) PROVE UnstartedInv'
  <2>1. pstate[p] = "kernel" /\ sys[p] = "fork" /\ UNCHANGED <<child, verdict, test>>
    BY <1>2 DEF ForkProcess, Fork, ForkChild
  <2>2. child = "script"
    BY <2>1
  <2> QED BY <2>1, <2>2
<1>3. CASE StartScript
  <2>1. /\ UNCHANGED <<test, steps, verdict, tracee_pid, sys, tpc>> /\ child = "starting"
        /\ pstate[tracee_pid] = "kernel" /\ child' \in {"script", "failed", "unreported"}
        /\ pstate' = [pstate EXCEPT ![tracee_pid] = "exit"]
    BY <1>3 DEF StartScript, ChildExecve, ChildFails, CompleteSyscall
  <2>2. CASE child' = "script"
    BY <2>1, <2>2
  <2>3. CASE child' # "script"
    BY <1>s, <1>t, <2>1, <2>3
  <2> QED BY <2>2, <2>3
<1>4. ASSUME NEW p \in Pid, CompleteExecve(p) \/ CompleteQuery(p) \/ CompleteOther(p) PROVE UnstartedInv'
  <2>1. /\ UNCHANGED <<test, steps, verdict, tracee_pid, child, sys, tpc>> /\ pstate[p] # "none"
        /\ pstate' = [pstate EXCEPT ![p] = "exit"]
    BY <1>4 DEF CompleteExecve, CompleteQuery, CompleteOther, Complete, CompleteSyscall, tracerVars,
        mockVars
  <2> QED BY <1>s, <1>t, <2>1
<1>5. ASSUME NEW p \in Pid, MockExecve(p) PROVE UnstartedInv'
  <2>1. Asking(p) /\ UNCHANGED <<child, verdict, test>>
    BY <1>5, CallbackMoves DEF MockExecve, HandleExecveEnter, Callbacks, MockCallback, Continue
  <2>2. child = "script"
    BY <2>1 DEF Asking
  <2> QED BY <2>1, <2>2
<1>6. ASSUME NEW p \in Pid, RecordExecve(p) \/ MockGetcwd(p) \/ MockStat(p) PROVE UnstartedInv'
  <2>1. PICK callback \in Callbacks : MockCallback(p, callback)
    BY <1>6 DEF RecordExecve, MockGetcwd, MockStat, HandleExecveEnter, HandleGetcwdExit,
        HandleStatExit, Callbacks
  <2>2. /\ UNCHANGED <<sys, tracee_pid, child>> /\ pstate[p] \in Stopped /\ tpc = "handle"
        /\ \A r \in Pid : r # p => pstate'[r] = pstate[r]
    BY <1>t, <2>1, CallbackMoves DEF MockCallback, InHand, Continue, Resume
  <2>3. UNCHANGED <<test, steps, verdict>>
    BY <1>6 DEF RecordExecve, MockGetcwd, MockStat
  <2> QED BY <1>s, <2>2, <2>3 DEF Stopped
<1>7. ASSUME NEW exitcode, EndRun(exitcode) PROVE UnstartedInv'
  <2>1. /\ UNCHANGED <<child, tracee_pid, pstate, sys, test>> /\ child # "starting"
        /\ child = "unreported" => exitcode = 1
        /\ tpc' = "result"
    BY <1>7, <1>t DEF EndRun, JoinStreams, traceeVars, StartingRoot, C!HandleEnd
  <2>2. CASE UNCHANGED checker
    BY <1>s, <1>t, <2>1, <2>2
  <2>3. CASE C!HandleEnd(exitcode, NoOutput, NoOutput)
    <3>1. verdict = NoValue /\ verdict' = C!CheckEnd(exitcode, NoOutput, NoOutput)
      BY <2>3 DEF C!HandleEnd
    <3>2. child = "unreported" /\ verdict' = C!Pass => steps = <<>> /\ test.exitcode = 1
      <4> SUFFICES ASSUME child = "unreported", C!CheckEnd(exitcode, NoOutput, NoOutput) = C!Pass
                   PROVE  steps = <<>> /\ test.exitcode = 1
        BY <3>1
      <4>1. steps = <<>> /\ exitcode = IF test.exitcode = NoValue THEN 0 ELSE test.exitcode
        BY PassAtEnd
      <4> QED BY <2>1, <4>1
    <3>3. child = "unreported" => steps = test.steps
      BY <1>7 DEF EndRun, JoinStreams
    <3>4. child' # "starting" /\ (child' = "unreported" /\ verdict' = C!Pass => test'.steps = <<>> /\ test'.exitcode = 1)
      BY <2>1, <3>2, <3>3
    <3>5. child' # "script" => Unstarted'
      BY <2>1
    <3> QED BY <3>4, <3>5
  <2> QED BY <1>7, <2>2, <2>3 DEF EndRun
<1>8. CASE TracerAlone
  <2>1. UNCHANGED <<test, steps, verdict>>
    BY <1>8 DEF TracerAlone, mockVars
  <2>2. ASSUME ChildStops \/ ChildFailsEarly \/ WaitForChild \/ ChildNeverStopped PROVE UnstartedInv'
    BY <1>s, <1>t, <2>1, <2>2
    DEF ChildStops, ChildFailsEarly, ChildFails, WaitForChild, ChildNeverStopped, FirstStop, Ends,
        Resume, Resumed, Stopped, Reap, Zombie, StartingRoot, tracerVars
  <2>3. ASSUME NEW p \in Pid, Exit(p) \/ Wait(p) PROVE UnstartedInv'
    BY <1>s, <1>t, <2>1, <2>3
    DEF Exit, ExitProcess, Ends, Wait, Reap, Zombie, traceeVars, tracerVars
  <2>4. ASSUME NEW p \in Pid, HandleOtherSyscall(p) \/ HandleOtherStop(p) PROVE UnstartedInv'
    BY <1>s, <1>t, <2>1, <2>4
    DEF HandleOtherSyscall, HandleOtherStop, InHand, Continue, Resume, Stopped
  <2>5. ASSUME NEW p \in Pid, HandleExited(p) \/ RootExited(p) \/ WrongSyscall(p) PROVE UnstartedInv'
    BY <1>s, <1>t, <2>1, <2>5
    DEF HandleExited, RootExited, WrongSyscall, TraceError, InHand, traceeVars
  <2>6. ASSUME ReturnFromRun \/ Finished PROVE UnstartedInv'
    BY <1>s, <1>t, <2>1, <2>6 DEF ReturnFromRun, Finished, traceeVars, vars
  <2> HIDE DEF UnstartedInv
  <2> QED BY <1>8, <2>2, <2>3, <2>4, <2>5, <2>6 DEF TracerAlone
<1>9. CASE UNCHANGED runVars
  BY <1>9 DEF runVars, vars, mockVars
<1> HIDE DEF UnstartedInv
<1> QED BY <1>1, <1>2, <1>3, <1>4, <1>5, <1>6, <1>7, <1>8, <1>9 DEF MockedNext

LEMMA UnstartedInit == MockedInit => UnstartedInv
<1> SUFFICES ASSUME MockedInit PROVE UnstartedInv
  OBVIOUS
<1>1. /\ \A p \in Pid : Exists(p) => IsRoot(p)
      /\ sys[tracee_pid] # "fork" /\ child = "starting"
  BY TraceesAssumption DEF MockedInit, Init, Exists, IsRoot, Syscall
<1>2. verdict = NoValue /\ steps = test.steps
  BY DEF MockedInit, C!Init
<1> QED BY <1>1, <1>2 DEF UnstartedInv, Unstarted

(***************************************************************************)
(* Whatever fails before the script runs, also in reporting the failure:   *)
(* no test that expects something of its script passes.                    *)
(***************************************************************************)
THEOREM PassNeedsTheScript == MockedSpec => []PassNeedsScript
<1>1. IInv /\ MockedInv /\ UnstartedInv /\ [MockedNext]_runVars => UnstartedInv'
  BY UnstartedStep DEF MockedInv, MockingInv
<1>2. IInv /\ UnstartedInv => PassNeedsScript
  BY DEF IInv, StartingRoot, UnstartedInv, PassNeedsScript
<1> QED
  BY <1>1, <1>2, UnstartedInit, MockedInvariant, MockedTracer, Invariant, PTL DEF MockedSpec
=============================================================================
