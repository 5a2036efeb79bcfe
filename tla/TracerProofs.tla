---------------------------- MODULE TracerProofs ----------------------------
(***************************************************************************)
(* Theorems about Tracer for every set of pids, every bound and every      *)
(* combination of reused pids, kills, faults and processes left behind.    *)
(***************************************************************************)
EXTENDS TracerInvariant, TLAPS

-----------------------------------------------------------------------------
(***************************************************************************)
(* Whatever the kernel or the tracer does to a process keeps the types of  *)
(* the variables of Tracees.                                               *)
(***************************************************************************)
TraceesStep(p, q) ==
    \/ FirstStop(p)
    \/ \E s \in Syscall : EnterSyscall(p, s)
    \/ ForkChild(p, q)
    \/ CompleteSyscall(p)
    \/ \E how \in Zombie : Ends(p, how)
    \/ Signal(p)
    \/ Fault(p)
    \/ Resume(p)
    \/ Reap(p)
    \/ Spawn(p)

LEMMA TraceesTypes ==
  ASSUME TraceesTypeOK, NEW p \in Pid, NEW q \in Pid, TraceesStep(p, q) \/ UNCHANGED traceeVars
  PROVE  TraceesTypeOK'
<1> USE TraceesAssumption
    DEF TraceesTypeOK, ProcessState, Running, Stopped, Zombie
<1>1. ASSUME NEW s \in Syscall, EnterSyscall(p, s) PROVE TraceesTypeOK'
  BY <1>1 DEF EnterSyscall
<1>2. CASE ForkChild(p, q)
  BY <1>2 DEF ForkChild
<1>3. CASE CompleteSyscall(p)
  BY <1>3 DEF CompleteSyscall
<1>4. ASSUME NEW how \in Zombie, Ends(p, how) PROVE TraceesTypeOK'
  BY <1>4 DEF Ends
<1>5. CASE Signal(p)
  BY <1>5 DEF Signal
<1>6. CASE Fault(p)
  BY <1>6 DEF Fault
<1>7. CASE Resume(p)
  BY <1>7 DEF Resume, Resumed
<1>8. CASE Reap(p)
  BY <1>8 DEF Reap
<1>9. CASE Spawn(p)
  BY <1>9 DEF Spawn, Exists
<1>11. CASE FirstStop(p)
  BY <1>11 DEF FirstStop
<1>10. CASE UNCHANGED traceeVars
  BY <1>10 DEF traceeVars
<1> QED
  BY <1>1, <1>2, <1>3, <1>4, <1>5, <1>6, <1>7, <1>8, <1>9, <1>10, <1>11 DEF TraceesStep

\* The initial state has the right types.
LEMMA TypeInit == Init => TypeOK
  BY TraceesAssumption, TracerAssumption
  DEF Init, TypeOK, TraceesTypeOK, TracerTypeOK, NoStatus, Kind, ProcessState, Running

(***************************************************************************)
(* Every step of Next is a step of the processes, or leaves them alone.    *)
(***************************************************************************)
LEMMA NextIsTraceesStep ==
  ASSUME tracee_pid \in Pid, [Next]_vars
  PROVE  (\E p, q \in Pid : TraceesStep(p, q)) \/ UNCHANGED traceeVars
<1> DEFINE Goal == (\E p, q \in Pid : TraceesStep(p, q)) \/ UNCHANGED traceeVars
<1>1. ASSUME NEW p \in Pid, NEW q \in Pid, TraceesStep(p, q) PROVE Goal
  BY <1>1
<1>2. ASSUME NEW p \in Pid, ProcessStep(p) PROVE Goal
  <2>1. CASE IsRoot(p) /\ (ChildStops \/ ChildFailsEarly \/ ChildExecve)
    BY <2>1, <1>1 DEF ChildStops, ChildFailsEarly, ChildExecve, TraceesStep, Zombie
  <2>2. CASE \E s \in Syscall : Enter(p, s)
    BY <2>2, <1>1 DEF Enter, TraceesStep
  <2>3. CASE \E c \in Pid : Fork(p, c)
    BY <2>3, <1>1 DEF Fork, TraceesStep
  <2>4. CASE Complete(p) \/ Exit(p) \/ Faulted(p)
    BY <2>4, <1>1 DEF Complete, Exit, ExitProcess, Faulted, TraceesStep, Zombie
  <2> QED
    BY <1>2, <2>1, <2>2, <2>3, <2>4 DEF ProcessStep
<1>3. ASSUME NEW p \in Pid, Signalled(p) \/ Killed(p) PROVE Goal
  BY <1>3, <1>1 DEF Signalled, Killed, Kill, TraceesStep, Zombie
<1>4. CASE WaitForChild \/ ChildNeverStopped
  BY <1>4, <1>1 DEF WaitForChild, ChildNeverStopped, TraceesStep
<1>5. ASSUME NEW p \in Pid, Wait(p) PROVE Goal
  BY <1>5, <1>1 DEF Wait, TraceesStep
<1>6. ASSUME NEW p \in Pid, HandleStatus(p) PROVE Goal
  <2>1. CASE Resume(p)
    BY <2>1, <1>1 DEF TraceesStep
  <2> QED
    BY <1>6, <2>1 DEF HandleStatus, HandleExecveEnter, HandleGetcwdExit, HandleStatExit, MockCallback,
       HandleOtherSyscall, HandleOtherStop, Continue, HandleExited, RootExited, WrongSyscall,
       TraceeVanished, TraceError
<1>7. CASE JoinStreams \/ JoinFails \/ ReturnFromRun \/ Finished \/ UNCHANGED vars
  BY <1>7 DEF JoinStreams, JoinFails, TraceError, ReturnFromRun, Finished, vars, traceeVars
<1>8. ASSUME NEW c \in Pid, StartRun(c) PROVE Goal
  BY <1>8, <1>1 DEF StartRun, TraceesStep
<1>9. ASSUME NEW p \in Pid, MockFailsAtSyscall(p) \/ MockFailsAtExited(p) PROVE Goal
  BY <1>9 DEF MockFailsAtSyscall, MockFailsAtExited, TraceError
<1> QED
  BY <1>2, <1>3, <1>4, <1>5, <1>6, <1>7, <1>8, <1>9 DEF Next, TracerStep

\* Every step keeps the types.
LEMMA TypeStep == TypeOK /\ [Next]_vars => TypeOK'
<1> SUFFICES ASSUME TypeOK, [Next]_vars PROVE TypeOK'
  OBVIOUS
<1>1. TraceesTypeOK'
  BY NextIsTraceesStep, TraceesTypes DEF TypeOK, TracerTypeOK
<1>2. TracerTypeOK'
  <2> USE TraceesAssumption, TracerAssumption DEF TracerTypeOK, Kind, NoStatus
  <2> TraceesTypeOK /\ TracerTypeOK
    BY DEF TypeOK
  <2>1. ASSUME NEW p \in Pid, ProcessStep(p) \/ Signalled(p) \/ Killed(p) PROVE TracerTypeOK'
    <3>1. CASE UNCHANGED tracerVars
      BY <3>1 DEF tracerVars
    <3>2. CASE ChildFailsEarly \/ ChildExecve
      BY <3>2 DEF ChildFailsEarly, ChildExecve, ChildFails
    <3>3. ASSUME NEW s \in Syscall, Enter(p, s) PROVE TracerTypeOK'
      BY <3>3 DEF Enter
    <3>4. ASSUME NEW c \in Pid, Fork(p, c) PROVE TracerTypeOK'
      BY <3>4 DEF Fork
    <3> QED
      BY <2>1, <3>1, <3>2, <3>3, <3>4 DEF ProcessStep, ChildStops, Complete, Exit, Faulted, Signalled, Killed
  <2>2. CASE WaitForChild \/ ChildNeverStopped \/ JoinStreams \/ JoinFails \/ ReturnFromRun
    BY <2>2 DEF WaitForChild, ChildNeverStopped, JoinStreams, JoinFails, TraceError, ReturnFromRun
  <2>3. ASSUME NEW p \in Pid, Wait(p) PROVE TracerTypeOK'
    BY <2>3 DEF Wait, KindOf
  <2>4. ASSUME NEW p \in Pid, NEW callback \in {"execve_enter", "getcwd_exit", "stat_exit"},
               MockCallback(p, callback)
        PROVE  TracerTypeOK'
    <3>1. shown' \in [Pid -> Seq({"execve_enter", "getcwd_exit", "stat_exit"})]
      BY <2>4 DEF MockCallback
    <3>2. entered_syscalls' \in [Pid -> Syscall \cup {NoSyscall}]
      BY <2>4 DEF MockCallback, UpdateSyscallState, TraceesTypeOK
    <3> QED
      BY <2>4, <3>1, <3>2 DEF MockCallback, Continue
  <2>5. ASSUME NEW p \in Pid, HandleOtherSyscall(p) \/ HandleOtherStop(p) PROVE TracerTypeOK'
    <3>1. entered_syscalls' \in [Pid -> Syscall \cup {NoSyscall}]
      <4>1. UpdateSyscallState(p) \/ UNCHANGED entered_syscalls
        BY <2>5 DEF HandleOtherSyscall, HandleOtherStop
      <4>2. sys[p] \in Syscall \cup {NoSyscall}
        BY DEF TraceesTypeOK
      <4> QED BY <4>1, <4>2 DEF UpdateSyscallState
    <3>2. Continue(p) /\ UNCHANGED shown
      BY <2>5 DEF HandleOtherSyscall, HandleOtherStop
    <3> QED
      BY <3>1, <3>2 DEF Continue
  <2>6. ASSUME NEW p \in Pid, HandleExited(p) \/ RootExited(p) PROVE TracerTypeOK'
    BY <2>6 DEF HandleExited, RootExited
  <2>7. ASSUME NEW p \in Pid,
               \/ WrongSyscall(p) \/ TraceeVanished(p)
               \/ MockFailsAtSyscall(p) \/ MockFailsAtExited(p)
        PROVE  TracerTypeOK'
    <3>1. entered_syscalls' \in [Pid -> Syscall \cup {NoSyscall}]
      BY <2>7 DEF WrongSyscall, TraceeVanished, MockFailsAtSyscall, MockFailsAtExited,
         UpdateSyscallState, TraceesTypeOK
    <3>2. \E why \in {"wrong_syscall", "no_tracee", "mock"} : TraceError(why)
      BY <2>7 DEF WrongSyscall, TraceeVanished, MockFailsAtSyscall, MockFailsAtExited
    <3> QED
      BY <3>1, <3>2 DEF TraceError
  <2>8. ASSUME NEW c \in Pid, StartRun(c) PROVE TracerTypeOK'
    BY <2>8 DEF StartRun
  <2>9. CASE Finished \/ UNCHANGED vars
    BY <2>9 DEF Finished, vars
  <2> HIDE DEF TracerTypeOK
  <2> QED
    BY <2>1, <2>2, <2>3, <2>4, <2>5, <2>6, <2>7, <2>8, <2>9
    DEF Next, TracerStep, HandleStatus, HandleExecveEnter, HandleGetcwdExit, HandleStatExit
<1> QED
  BY <1>1, <1>2 DEF TypeOK

(***************************************************************************)
(* Type correctness, for every instance.                                   *)
(***************************************************************************)
THEOREM TypeCorrect == Spec => []TypeOK
  BY TypeInit, TypeStep, PTL DEF Spec

(***************************************************************************)
(* Sequences of one callback.                                              *)
(***************************************************************************)
LEMMA AppendToEmpty == ASSUME NEW e PROVE Append(<<>>, e) = <<e>>
  OBVIOUS

-----------------------------------------------------------------------------
(***************************************************************************)
(* Each action keeps each part of the inductive invariant.                 *)
(***************************************************************************)
\* ChildStops keeps the inductive invariant.
LEMMA ChildStopsKeeps ==
  ASSUME IInv, TypeOK', ChildStops
  PROVE  IInv'
<1> USE TraceesAssumption DEF TypeOK, TraceesTypeOK, TracerTypeOK, Running, Stopped, Alive, Exists,
        InSyscall, IsRoot, Syscall
<1> TypeOK /\ PidsUsed /\ SyscallKnown /\ StatusHolds /\ RootBeforeWait /\ ErrorEndsTrace
    /\ StartingRoot /\ PhaseAgrees /\ ShownExactlyOnce /\ WrongSyscallOnlyIfSuspect
  BY DEF IInv
<1>1. PidsUsed'
  BY DEF ChildStops, FirstStop, tracerVars, PidsUsed
<1>2. SyscallKnown'
  BY DEF ChildStops, FirstStop, tracerVars, SyscallKnown
<1>3. StatusHolds'
  BY DEF ChildStops, FirstStop, tracerVars, StatusHolds
<1>4. RootBeforeWait'
  BY DEF ChildStops, FirstStop, tracerVars, RootBeforeWait
<1>5. ErrorEndsTrace'
  BY DEF ChildStops, FirstStop, tracerVars, ErrorEndsTrace
<1>6. StartingRoot'
  BY DEF ChildStops, FirstStop, tracerVars, StartingRoot
<1>7. PhaseAgrees'
  BY DEF ChildStops, FirstStop, tracerVars, PhaseAgrees, RootBeforeWait
<1>8. ShownExactlyOnce'
  BY DEF ChildStops, FirstStop, tracerVars, ShownExactlyOnce, Due
<1>9. WrongSyscallOnlyIfSuspect'
  BY DEF ChildStops, FirstStop, tracerVars, WrongSyscallOnlyIfSuspect
<1> QED
  BY <1>1, <1>2, <1>3, <1>4, <1>5, <1>6, <1>7, <1>8, <1>9 DEF IInv

\* ChildFailsEarly keeps the inductive invariant.
LEMMA ChildFailsEarlyKeeps ==
  ASSUME IInv, TypeOK', ChildFailsEarly
  PROVE  IInv'
<1> USE TraceesAssumption DEF TypeOK, TraceesTypeOK, TracerTypeOK, Running, Stopped, Alive, Exists,
        InSyscall, IsRoot, Syscall
<1> TypeOK /\ PidsUsed /\ SyscallKnown /\ StatusHolds /\ RootBeforeWait /\ ErrorEndsTrace
    /\ StartingRoot /\ PhaseAgrees /\ ShownExactlyOnce /\ WrongSyscallOnlyIfSuspect
  BY DEF IInv
<1>1. PidsUsed'
  BY DEF ChildFailsEarly, Ends, PidsUsed
<1>2. SyscallKnown'
  BY DEF ChildFailsEarly, Ends, SyscallKnown
<1>3. StatusHolds'
  BY DEF ChildFailsEarly, Ends, StatusHolds
<1>4. RootBeforeWait'
  BY DEF ChildFailsEarly, Ends, RootBeforeWait
<1>5. ErrorEndsTrace'
  BY DEF ChildFailsEarly, Ends, ErrorEndsTrace
<1>6. StartingRoot'
  BY DEF ChildFailsEarly, ChildFails, Ends, StartingRoot
<1>7. PhaseAgrees'
  BY DEF ChildFailsEarly, Ends, PhaseAgrees
<1>8. ShownExactlyOnce'
  BY DEF ChildFailsEarly, Ends, ShownExactlyOnce, Due
<1>9. WrongSyscallOnlyIfSuspect'
  BY DEF ChildFailsEarly, Ends, WrongSyscallOnlyIfSuspect
<1> QED
  BY <1>1, <1>2, <1>3, <1>4, <1>5, <1>6, <1>7, <1>8, <1>9 DEF IInv

\* ChildExecve keeps the inductive invariant.
LEMMA ChildExecveKeeps ==
  ASSUME IInv, TypeOK', ChildExecve
  PROVE  IInv'
<1> USE TraceesAssumption DEF TypeOK, TraceesTypeOK, TracerTypeOK, Running, Stopped, Alive, Exists,
        InSyscall, IsRoot, Syscall
<1> TypeOK /\ PidsUsed /\ SyscallKnown /\ StatusHolds /\ RootBeforeWait /\ ErrorEndsTrace
    /\ StartingRoot /\ PhaseAgrees /\ ShownExactlyOnce /\ WrongSyscallOnlyIfSuspect
  BY DEF IInv
<1>1. PidsUsed'
  BY DEF ChildExecve, CompleteSyscall, PidsUsed
<1>2. SyscallKnown'
  BY DEF ChildExecve, CompleteSyscall, SyscallKnown
<1>3. StatusHolds'
  BY DEF ChildExecve, CompleteSyscall, StatusHolds
<1>4. RootBeforeWait'
  BY DEF ChildExecve, CompleteSyscall, RootBeforeWait
<1>5. ErrorEndsTrace'
  BY DEF ChildExecve, CompleteSyscall, ErrorEndsTrace
<1>6. StartingRoot'
  BY DEF ChildExecve, ChildFails, CompleteSyscall, StartingRoot
<1>7. PhaseAgrees'
  BY DEF ChildExecve, CompleteSyscall, PhaseAgrees
<1>8. ShownExactlyOnce'
  BY DEF ChildExecve, CompleteSyscall, ShownExactlyOnce, Due
<1>9. WrongSyscallOnlyIfSuspect'
  BY DEF ChildExecve, CompleteSyscall, WrongSyscallOnlyIfSuspect
<1> QED
  BY <1>1, <1>2, <1>3, <1>4, <1>5, <1>6, <1>7, <1>8, <1>9 DEF IInv

\* Enter keeps the inductive invariant.
LEMMA EnterKeeps ==
  ASSUME IInv, TypeOK', NEW p \in Pid, NEW s \in Syscall, Enter(p, s)
  PROVE  IInv'
<1> USE TraceesAssumption DEF TypeOK, TraceesTypeOK, TracerTypeOK, Running, Stopped, Alive, Exists,
        InSyscall, IsRoot, Syscall
<1> TypeOK /\ PidsUsed /\ SyscallKnown /\ StatusHolds /\ RootBeforeWait /\ ErrorEndsTrace
    /\ StartingRoot /\ PhaseAgrees /\ ShownExactlyOnce /\ WrongSyscallOnlyIfSuspect
  BY DEF IInv
<1>1. PidsUsed'
  BY DEF Enter, EnterSyscall, NextCalls, PidsUsed
<1>2. SyscallKnown'
  BY DEF Enter, EnterSyscall, NextCalls, SyscallKnown
<1>3. StatusHolds'
  BY DEF Enter, EnterSyscall, NextCalls, StatusHolds
<1>4. RootBeforeWait'
  BY DEF Enter, EnterSyscall, NextCalls, RootBeforeWait
<1>5. ErrorEndsTrace'
  BY DEF Enter, EnterSyscall, NextCalls, ErrorEndsTrace
<1>6. StartingRoot'
  BY DEF Enter, EnterSyscall, NextCalls, StartingRoot
<1>7. PhaseAgrees'
  BY DEF Enter, EnterSyscall, NextCalls, PhaseAgrees
<1>8. ShownExactlyOnce'
  BY DEF Enter, EnterSyscall, NextCalls, ShownExactlyOnce, Due
<1>9. WrongSyscallOnlyIfSuspect'
  BY DEF Enter, EnterSyscall, NextCalls, WrongSyscallOnlyIfSuspect
<1> QED
  BY <1>1, <1>2, <1>3, <1>4, <1>5, <1>6, <1>7, <1>8, <1>9 DEF IInv

\* Fork keeps the inductive invariant.
LEMMA ForkKeeps ==
  ASSUME IInv, TypeOK', NEW p \in Pid, NEW c \in Pid, Fork(p, c)
  PROVE  IInv'
<1> USE TraceesAssumption DEF TypeOK, TraceesTypeOK, TracerTypeOK, Running, Stopped, Alive, Exists,
        InSyscall, IsRoot, Syscall
<1> TypeOK /\ PidsUsed /\ SyscallKnown /\ StatusHolds /\ RootBeforeWait /\ ErrorEndsTrace
    /\ StartingRoot /\ PhaseAgrees /\ ShownExactlyOnce /\ WrongSyscallOnlyIfSuspect
  BY DEF IInv
<1>1. PidsUsed'
  BY DEF Fork, ForkChild, PidsUsed
<1>2. SyscallKnown'
  BY DEF Fork, ForkChild, SyscallKnown
<1>3. StatusHolds'
  BY DEF Fork, ForkChild, StatusHolds
<1>4. RootBeforeWait'
  BY DEF Fork, ForkChild, RootBeforeWait
<1>5. ErrorEndsTrace'
  BY DEF Fork, ForkChild, ErrorEndsTrace
<1>6. StartingRoot'
  BY DEF Fork, ForkChild, StartingRoot
<1>7. PhaseAgrees'
  <2>1. SUFFICES ASSUME reason = "none", NEW q \in Pid \ suspect', Alive(q)'
                 PROVE  (entered_syscalls[q] = IF InSyscall(q) THEN sys[q] ELSE NoSyscall)'
    BY DEF Fork, PhaseAgrees
  <2>2. CASE q = c
    BY <2>1, <2>2 DEF Fork, ForkChild, PidsUsed
  <2>3. CASE q = p
    BY <2>1, <2>3 DEF Fork, ForkChild, PhaseAgrees
  <2>4. CASE q \notin {p, c}
    BY <2>1, <2>4 DEF Fork, ForkChild, PhaseAgrees
  <2> QED
    BY <2>2, <2>3, <2>4
<1>8. ShownExactlyOnce'
  BY DEF Fork, ForkChild, ShownExactlyOnce, Due, PidsUsed
<1>9. WrongSyscallOnlyIfSuspect'
  BY DEF Fork, ForkChild, WrongSyscallOnlyIfSuspect
<1> QED
  BY <1>1, <1>2, <1>3, <1>4, <1>5, <1>6, <1>7, <1>8, <1>9 DEF IInv

\* Complete keeps the inductive invariant.
LEMMA CompleteKeeps ==
  ASSUME IInv, TypeOK', NEW p \in Pid, Complete(p)
  PROVE  IInv'
<1> USE TraceesAssumption DEF TypeOK, TraceesTypeOK, TracerTypeOK, Running, Stopped, Alive, Exists,
        InSyscall, IsRoot, Syscall
<1> TypeOK /\ PidsUsed /\ SyscallKnown /\ StatusHolds /\ RootBeforeWait /\ ErrorEndsTrace
    /\ StartingRoot /\ PhaseAgrees /\ ShownExactlyOnce /\ WrongSyscallOnlyIfSuspect
  BY DEF IInv
<1>1. PidsUsed'
  BY DEF Complete, CompleteSyscall, tracerVars, PidsUsed
<1>2. SyscallKnown'
  BY DEF Complete, CompleteSyscall, tracerVars, SyscallKnown
<1>3. StatusHolds'
  BY DEF Complete, CompleteSyscall, tracerVars, StatusHolds
<1>4. RootBeforeWait'
  BY DEF Complete, CompleteSyscall, tracerVars, RootBeforeWait
<1>5. ErrorEndsTrace'
  BY DEF Complete, CompleteSyscall, tracerVars, ErrorEndsTrace
<1>6. StartingRoot'
  BY DEF Complete, CompleteSyscall, tracerVars, StartingRoot
<1>7. PhaseAgrees'
  BY DEF Complete, CompleteSyscall, tracerVars, PhaseAgrees
<1>8. ShownExactlyOnce'
  BY DEF Complete, CompleteSyscall, tracerVars, ShownExactlyOnce, Due, SyscallKnown
<1>9. WrongSyscallOnlyIfSuspect'
  BY DEF Complete, CompleteSyscall, tracerVars, WrongSyscallOnlyIfSuspect
<1> QED
  BY <1>1, <1>2, <1>3, <1>4, <1>5, <1>6, <1>7, <1>8, <1>9 DEF IInv

\* Exit keeps the inductive invariant.
LEMMA ExitKeeps ==
  ASSUME IInv, TypeOK', NEW p \in Pid, Exit(p)
  PROVE  IInv'
<1> USE TraceesAssumption DEF TypeOK, TraceesTypeOK, TracerTypeOK, Running, Stopped, Alive, Exists,
        InSyscall, IsRoot, Syscall
<1> TypeOK /\ PidsUsed /\ SyscallKnown /\ StatusHolds /\ RootBeforeWait /\ ErrorEndsTrace
    /\ StartingRoot /\ PhaseAgrees /\ ShownExactlyOnce /\ WrongSyscallOnlyIfSuspect
  BY DEF IInv
<1>1. PidsUsed'
  BY DEF Exit, ExitProcess, Ends, tracerVars, PidsUsed
<1>2. SyscallKnown'
  BY DEF Exit, ExitProcess, Ends, tracerVars, SyscallKnown
<1>3. StatusHolds'
  BY DEF Exit, ExitProcess, Ends, tracerVars, StatusHolds
<1>4. RootBeforeWait'
  BY DEF Exit, ExitProcess, Ends, tracerVars, RootBeforeWait
<1>5. ErrorEndsTrace'
  BY DEF Exit, ExitProcess, Ends, tracerVars, ErrorEndsTrace
<1>6. StartingRoot'
  BY DEF Exit, ExitProcess, Ends, tracerVars, StartingRoot
<1>7. PhaseAgrees'
  BY DEF Exit, ExitProcess, Ends, tracerVars, PhaseAgrees
<1>8. ShownExactlyOnce'
  BY DEF Exit, ExitProcess, Ends, tracerVars, ShownExactlyOnce, Due
<1>9. WrongSyscallOnlyIfSuspect'
  BY DEF Exit, ExitProcess, Ends, tracerVars, WrongSyscallOnlyIfSuspect
<1> QED
  BY <1>1, <1>2, <1>3, <1>4, <1>5, <1>6, <1>7, <1>8, <1>9 DEF IInv

\* Killed keeps the inductive invariant.
LEMMA KilledKeeps ==
  ASSUME IInv, TypeOK', NEW p \in Pid, Killed(p)
  PROVE  IInv'
<1> USE TraceesAssumption DEF TypeOK, TraceesTypeOK, TracerTypeOK, Running, Stopped, Alive, Exists,
        InSyscall, IsRoot, Syscall
<1> TypeOK /\ PidsUsed /\ SyscallKnown /\ StatusHolds /\ RootBeforeWait /\ ErrorEndsTrace
    /\ StartingRoot /\ PhaseAgrees /\ ShownExactlyOnce /\ WrongSyscallOnlyIfSuspect
  BY DEF IInv
<1>1. PidsUsed'
  BY DEF Killed, Kill, Ends, tracerVars, PidsUsed
<1>2. SyscallKnown'
  BY DEF Killed, Kill, Ends, tracerVars, SyscallKnown
<1>3. StatusHolds'
  BY DEF Killed, Kill, Ends, tracerVars, StatusHolds
<1>4. RootBeforeWait'
  BY DEF Killed, Kill, Ends, tracerVars, RootBeforeWait
<1>5. ErrorEndsTrace'
  BY DEF Killed, Kill, Ends, tracerVars, ErrorEndsTrace
<1>6. StartingRoot'
  BY DEF Killed, Kill, Ends, tracerVars, StartingRoot
<1>7. PhaseAgrees'
  BY DEF Killed, Kill, Ends, tracerVars, PhaseAgrees
<1>8. ShownExactlyOnce'
  BY DEF Killed, Kill, Ends, tracerVars, ShownExactlyOnce, Due
<1>9. WrongSyscallOnlyIfSuspect'
  BY DEF Killed, Kill, Ends, tracerVars, WrongSyscallOnlyIfSuspect
<1> QED
  BY <1>1, <1>2, <1>3, <1>4, <1>5, <1>6, <1>7, <1>8, <1>9 DEF IInv

\* Signalled keeps the inductive invariant.
LEMMA SignalledKeeps ==
  ASSUME IInv, TypeOK', NEW p \in Pid, Signalled(p)
  PROVE  IInv'
<1> USE TraceesAssumption DEF TypeOK, TraceesTypeOK, TracerTypeOK, Running, Stopped, Alive, Exists,
        InSyscall, IsRoot, Syscall
<1> TypeOK /\ PidsUsed /\ SyscallKnown /\ StatusHolds /\ RootBeforeWait /\ ErrorEndsTrace
    /\ StartingRoot /\ PhaseAgrees /\ ShownExactlyOnce /\ WrongSyscallOnlyIfSuspect
  BY DEF IInv
<1>1. PidsUsed'
  BY DEF Signalled, Started, Signal, tracerVars, PidsUsed
<1>2. SyscallKnown'
  BY DEF Signalled, Started, Signal, tracerVars, SyscallKnown
<1>3. StatusHolds'
  BY DEF Signalled, Started, Signal, tracerVars, StatusHolds
<1>4. RootBeforeWait'
  BY DEF Signalled, Started, Signal, tracerVars, RootBeforeWait
<1>5. ErrorEndsTrace'
  BY DEF Signalled, Started, Signal, tracerVars, ErrorEndsTrace
<1>6. StartingRoot'
  BY DEF Signalled, Started, Signal, tracerVars, StartingRoot
<1>7. PhaseAgrees'
  BY DEF Signalled, Started, Signal, tracerVars, PhaseAgrees
<1>8. ShownExactlyOnce'
  BY DEF Signalled, Started, Signal, tracerVars, ShownExactlyOnce, Due
<1>9. WrongSyscallOnlyIfSuspect'
  BY DEF Signalled, Started, Signal, tracerVars, WrongSyscallOnlyIfSuspect
<1> QED
  BY <1>1, <1>2, <1>3, <1>4, <1>5, <1>6, <1>7, <1>8, <1>9 DEF IInv

\* Faulted keeps the inductive invariant.
LEMMA FaultedKeeps ==
  ASSUME IInv, TypeOK', NEW p \in Pid, Faulted(p)
  PROVE  IInv'
<1> USE TraceesAssumption DEF TypeOK, TraceesTypeOK, TracerTypeOK, Running, Stopped, Alive, Exists,
        InSyscall, IsRoot, Syscall
<1> TypeOK /\ PidsUsed /\ SyscallKnown /\ StatusHolds /\ RootBeforeWait /\ ErrorEndsTrace
    /\ StartingRoot /\ PhaseAgrees /\ ShownExactlyOnce /\ WrongSyscallOnlyIfSuspect
  BY DEF IInv
<1>1. PidsUsed'
  BY DEF Faulted, Started, Fault, tracerVars, PidsUsed
<1>2. SyscallKnown'
  BY DEF Faulted, Started, Fault, tracerVars, SyscallKnown
<1>3. StatusHolds'
  BY DEF Faulted, Started, Fault, tracerVars, StatusHolds
<1>4. RootBeforeWait'
  BY DEF Faulted, Started, Fault, tracerVars, RootBeforeWait
<1>5. ErrorEndsTrace'
  BY DEF Faulted, Started, Fault, tracerVars, ErrorEndsTrace
<1>6. StartingRoot'
  BY DEF Faulted, Started, Fault, tracerVars, StartingRoot
<1>7. PhaseAgrees'
  BY DEF Faulted, Started, Fault, tracerVars, PhaseAgrees
<1>8. ShownExactlyOnce'
  BY DEF Faulted, Started, Fault, tracerVars, ShownExactlyOnce, Due
<1>9. WrongSyscallOnlyIfSuspect'
  BY DEF Faulted, Started, Fault, tracerVars, WrongSyscallOnlyIfSuspect
<1> QED
  BY <1>1, <1>2, <1>3, <1>4, <1>5, <1>6, <1>7, <1>8, <1>9 DEF IInv

\* WaitForChild keeps the inductive invariant.
LEMMA WaitForChildKeeps ==
  ASSUME IInv, TypeOK', WaitForChild
  PROVE  IInv'
<1> USE TraceesAssumption DEF TypeOK, TraceesTypeOK, TracerTypeOK, Running, Stopped, Alive, Exists,
        InSyscall, IsRoot, Syscall
<1> TypeOK /\ PidsUsed /\ SyscallKnown /\ StatusHolds /\ RootBeforeWait /\ ErrorEndsTrace
    /\ StartingRoot /\ PhaseAgrees /\ ShownExactlyOnce /\ WrongSyscallOnlyIfSuspect
  BY DEF IInv
<1>1. PidsUsed'
  BY DEF WaitForChild, Resume, Resumed, PidsUsed, RootBeforeWait
<1>2. SyscallKnown'
  BY DEF WaitForChild, Resume, Resumed, SyscallKnown, RootBeforeWait
<1>3. StatusHolds'
  BY DEF WaitForChild, Resume, Resumed, StatusHolds, RootBeforeWait
<1>4. RootBeforeWait'
  BY DEF WaitForChild, Resume, Resumed, RootBeforeWait
<1>5. ErrorEndsTrace'
  BY DEF WaitForChild, Resume, Resumed, ErrorEndsTrace, RootBeforeWait
<1>6. StartingRoot'
  BY DEF WaitForChild, Resume, Resumed, StartingRoot, RootBeforeWait
<1>7. PhaseAgrees'
  BY DEF WaitForChild, Resume, Resumed, PhaseAgrees, RootBeforeWait
<1>8. ShownExactlyOnce'
  BY DEF WaitForChild, Resume, Resumed, ShownExactlyOnce, Due, RootBeforeWait
<1>9. WrongSyscallOnlyIfSuspect'
  BY DEF WaitForChild, Resume, Resumed, WrongSyscallOnlyIfSuspect, RootBeforeWait
<1> QED
  BY <1>1, <1>2, <1>3, <1>4, <1>5, <1>6, <1>7, <1>8, <1>9 DEF IInv

\* ChildNeverStopped keeps the inductive invariant.
LEMMA ChildNeverStoppedKeeps ==
  ASSUME IInv, TypeOK', ChildNeverStopped
  PROVE  IInv'
<1> USE TraceesAssumption DEF TypeOK, TraceesTypeOK, TracerTypeOK, Running, Stopped, Alive, Exists,
        InSyscall, IsRoot, Syscall
<1> TypeOK /\ PidsUsed /\ SyscallKnown /\ StatusHolds /\ RootBeforeWait /\ ErrorEndsTrace
    /\ StartingRoot /\ PhaseAgrees /\ ShownExactlyOnce /\ WrongSyscallOnlyIfSuspect
  BY DEF IInv
<1>1. PidsUsed'
  BY DEF ChildNeverStopped, Reap, Zombie, PidsUsed, ErrorEndsTrace, RootBeforeWait
<1>2. SyscallKnown'
  BY DEF ChildNeverStopped, Reap, Zombie, SyscallKnown, ErrorEndsTrace, RootBeforeWait
<1>3. StatusHolds'
  BY DEF ChildNeverStopped, Reap, Zombie, StatusHolds, ErrorEndsTrace, RootBeforeWait
<1>4. RootBeforeWait'
  BY DEF ChildNeverStopped, Reap, Zombie, RootBeforeWait, ErrorEndsTrace
<1>5. ErrorEndsTrace'
  BY DEF ChildNeverStopped, Reap, Zombie, ErrorEndsTrace, RootBeforeWait
<1>6. StartingRoot'
  BY DEF ChildNeverStopped, Reap, Zombie, StartingRoot, ErrorEndsTrace, RootBeforeWait
<1>7. PhaseAgrees'
  BY DEF ChildNeverStopped, Reap, Zombie, PhaseAgrees, ErrorEndsTrace, RootBeforeWait
<1>8. ShownExactlyOnce'
  BY DEF ChildNeverStopped, Reap, Zombie, ShownExactlyOnce, Due, ErrorEndsTrace, RootBeforeWait
<1>9. WrongSyscallOnlyIfSuspect'
  BY DEF ChildNeverStopped, Reap, Zombie, WrongSyscallOnlyIfSuspect, ErrorEndsTrace,
     RootBeforeWait
<1> QED
  BY <1>1, <1>2, <1>3, <1>4, <1>5, <1>6, <1>7, <1>8, <1>9 DEF IInv

\* Wait keeps the inductive invariant.
LEMMA WaitKeeps ==
  ASSUME IInv, TypeOK', NEW p \in Pid, Wait(p)
  PROVE  IInv'
<1> USE TraceesAssumption DEF TypeOK, TraceesTypeOK, TracerTypeOK, Running, Stopped, Alive, Exists,
        InSyscall, IsRoot, Syscall
<1> TypeOK /\ PidsUsed /\ SyscallKnown /\ StatusHolds /\ RootBeforeWait /\ ErrorEndsTrace
    /\ StartingRoot /\ PhaseAgrees /\ ShownExactlyOnce /\ WrongSyscallOnlyIfSuspect
  BY DEF IInv
<1>1. PidsUsed'
  BY SMTT(30) DEF Wait, KindOf, Reap, Zombie, traceeVars, PidsUsed
<1>2. SyscallKnown'
  BY DEF Wait, KindOf, Reap, Zombie, traceeVars, SyscallKnown
<1>3. StatusHolds'
  BY DEF Wait, KindOf, Reap, Zombie, traceeVars, StatusHolds
<1>4. RootBeforeWait'
  BY DEF Wait, KindOf, Reap, Zombie, traceeVars, RootBeforeWait
<1>5. ErrorEndsTrace'
  BY DEF Wait, KindOf, Reap, Zombie, traceeVars, ErrorEndsTrace
<1>6. StartingRoot'
  BY DEF Wait, KindOf, Reap, Zombie, traceeVars, StartingRoot
<1>7. PhaseAgrees'
  BY DEF Wait, KindOf, Reap, Zombie, traceeVars, PhaseAgrees
<1>8. ShownExactlyOnce'
  BY SMTT(30) DEF Wait, KindOf, Reap, Zombie, traceeVars, ShownExactlyOnce, Due
<1>9. WrongSyscallOnlyIfSuspect'
  BY DEF Wait, KindOf, Reap, Zombie, traceeVars, WrongSyscallOnlyIfSuspect
<1> QED
  BY <1>1, <1>2, <1>3, <1>4, <1>5, <1>6, <1>7, <1>8, <1>9 DEF IInv

\* A stop the mock is told of keeps the inductive invariant.
LEMMA MockCallbackKeeps ==
  ASSUME IInv, TypeOK', NEW p \in Pid, NEW callback, MockCallback(p, callback) /\ callback # "none"
  PROVE  IInv'
<1> USE TraceesAssumption DEF TypeOK, TraceesTypeOK, TracerTypeOK, Running, Stopped, Alive, Exists,
        InSyscall, IsRoot, Syscall
<1> TypeOK /\ PidsUsed /\ SyscallKnown /\ StatusHolds /\ RootBeforeWait /\ ErrorEndsTrace
    /\ StartingRoot /\ PhaseAgrees /\ ShownExactlyOnce /\ WrongSyscallOnlyIfSuspect
  BY DEF IInv
<1>1. PidsUsed'
  BY DEF MockCallback, UpdateSyscallState, InHand, Continue, Resume, Resumed, NoStatus, PidsUsed,
     StatusHolds, SyscallKnown
<1>2. SyscallKnown'
  BY DEF MockCallback, UpdateSyscallState, InHand, Continue, Resume, Resumed, NoStatus,
     SyscallKnown, StatusHolds
<1>3. StatusHolds'
  BY DEF MockCallback, UpdateSyscallState, InHand, Continue, Resume, Resumed, NoStatus,
     StatusHolds, SyscallKnown
<1>4. RootBeforeWait'
  BY DEF MockCallback, UpdateSyscallState, InHand, Continue, Resume, Resumed, NoStatus,
     RootBeforeWait, StatusHolds, SyscallKnown
<1>5. ErrorEndsTrace'
  BY DEF MockCallback, UpdateSyscallState, InHand, Continue, Resume, Resumed, NoStatus,
     ErrorEndsTrace, StatusHolds, SyscallKnown
<1>6. StartingRoot'
  BY DEF MockCallback, UpdateSyscallState, InHand, Continue, Resume, Resumed, NoStatus,
     StartingRoot, StatusHolds, SyscallKnown
<1>7. PhaseAgrees'
  BY DEF MockCallback, UpdateSyscallState, InHand, Continue, Resume, Resumed, NoStatus,
     PhaseAgrees, StatusHolds, SyscallKnown, Callback, SyscallStop
<1>8. ShownExactlyOnce'
  <2>1. SUFFICES ASSUME reason = "none", NEW q \in Pid \ suspect, Alive(q)'
                 PROVE  shown'[q] = Due(q)'
    BY DEF MockCallback, Continue, Resume, ShownExactlyOnce
  <2>2. CASE q # p
    BY <2>1, <2>2 DEF MockCallback, Continue, Resume, Resumed, ShownExactlyOnce, Due
  <2>3. CASE q = p
    <3>1. pstate[p] \in {"enter", "exit"} /\ sys[p] # NoSyscall
      BY DEF MockCallback, InHand, StatusHolds, Continue, Resume, SyscallKnown
    <3>2. entered_syscalls[p] = IF pstate[p] = "exit" THEN sys[p] ELSE NoSyscall
      BY <2>1, <2>3, <3>1 DEF PhaseAgrees
    <3>3. shown[p] = <<>>
      BY <2>1, <2>3, <3>1, <3>2 DEF ShownExactlyOnce, Due, MockCallback, Callback, SyscallStop
    <3>4. shown'[p] = <<callback>>
      BY <3>3, AppendToEmpty DEF MockCallback
    <3> QED
      BY <2>3, <3>1, <3>2, <3>4
      DEF MockCallback, Callback, SyscallStop, Continue, Resume, Resumed, Due
  <2> QED
    BY <2>2, <2>3
<1>9. WrongSyscallOnlyIfSuspect'
  BY DEF MockCallback, UpdateSyscallState, InHand, Continue, Resume, Resumed, NoStatus,
     WrongSyscallOnlyIfSuspect, StatusHolds, SyscallKnown
<1> QED
  BY <1>1, <1>2, <1>3, <1>4, <1>5, <1>6, <1>7, <1>8, <1>9 DEF IInv

\* HandleOtherSyscall keeps the inductive invariant.
LEMMA HandleOtherSyscallKeeps ==
  ASSUME IInv, TypeOK', NEW p \in Pid, HandleOtherSyscall(p)
  PROVE  IInv'
<1> USE TraceesAssumption DEF TypeOK, TraceesTypeOK, TracerTypeOK, Running, Stopped, Alive, Exists,
        InSyscall, IsRoot, Syscall
<1> TypeOK /\ PidsUsed /\ SyscallKnown /\ StatusHolds /\ RootBeforeWait /\ ErrorEndsTrace
    /\ StartingRoot /\ PhaseAgrees /\ ShownExactlyOnce /\ WrongSyscallOnlyIfSuspect
  BY DEF IInv
<1>1. PidsUsed'
  BY DEF HandleOtherSyscall, SyscallStop, UpdateSyscallState, InHand, Continue, Resume, Resumed,
     NoStatus, PidsUsed, StatusHolds, SyscallKnown
<1>2. SyscallKnown'
  BY DEF HandleOtherSyscall, SyscallStop, UpdateSyscallState, InHand, Continue, Resume, Resumed,
     NoStatus, SyscallKnown, StatusHolds
<1>3. StatusHolds'
  BY DEF HandleOtherSyscall, SyscallStop, UpdateSyscallState, InHand, Continue, Resume, Resumed,
     NoStatus, StatusHolds, SyscallKnown
<1>4. RootBeforeWait'
  BY DEF HandleOtherSyscall, SyscallStop, UpdateSyscallState, InHand, Continue, Resume, Resumed,
     NoStatus, RootBeforeWait, StatusHolds, SyscallKnown
<1>5. ErrorEndsTrace'
  BY DEF HandleOtherSyscall, SyscallStop, UpdateSyscallState, InHand, Continue, Resume, Resumed,
     NoStatus, ErrorEndsTrace, StatusHolds, SyscallKnown
<1>6. StartingRoot'
  BY DEF HandleOtherSyscall, SyscallStop, UpdateSyscallState, InHand, Continue, Resume, Resumed,
     NoStatus, StartingRoot, StatusHolds, SyscallKnown
<1>7. PhaseAgrees'
  BY DEF HandleOtherSyscall, SyscallStop, UpdateSyscallState, InHand, Continue, Resume, Resumed,
     NoStatus, PhaseAgrees, StatusHolds, SyscallKnown
<1>8. ShownExactlyOnce'
  BY DEF HandleOtherSyscall, SyscallStop, UpdateSyscallState, InHand, Continue, Resume, Resumed,
     NoStatus, ShownExactlyOnce, Due, StatusHolds, SyscallKnown, PhaseAgrees, Callback
<1>9. WrongSyscallOnlyIfSuspect'
  BY DEF HandleOtherSyscall, SyscallStop, UpdateSyscallState, InHand, Continue, Resume, Resumed,
     NoStatus, WrongSyscallOnlyIfSuspect, StatusHolds, SyscallKnown
<1> QED
  BY <1>1, <1>2, <1>3, <1>4, <1>5, <1>6, <1>7, <1>8, <1>9 DEF IInv

\* HandleOtherStop keeps the inductive invariant.
LEMMA HandleOtherStopKeeps ==
  ASSUME IInv, TypeOK', NEW p \in Pid, HandleOtherStop(p)
  PROVE  IInv'
<1> USE TraceesAssumption DEF TypeOK, TraceesTypeOK, TracerTypeOK, Running, Stopped, Alive, Exists,
        InSyscall, IsRoot, Syscall
<1> TypeOK /\ PidsUsed /\ SyscallKnown /\ StatusHolds /\ RootBeforeWait /\ ErrorEndsTrace
    /\ StartingRoot /\ PhaseAgrees /\ ShownExactlyOnce /\ WrongSyscallOnlyIfSuspect
  BY DEF IInv
<1>1. PidsUsed'
  BY DEF HandleOtherStop, InHand, Continue, Resume, Resumed, NoStatus, PidsUsed, StatusHolds
<1>2. SyscallKnown'
  BY DEF HandleOtherStop, InHand, Continue, Resume, Resumed, NoStatus, SyscallKnown, StatusHolds
<1>3. StatusHolds'
  BY DEF HandleOtherStop, InHand, Continue, Resume, Resumed, NoStatus, StatusHolds
<1>4. RootBeforeWait'
  BY DEF HandleOtherStop, InHand, Continue, Resume, Resumed, NoStatus, RootBeforeWait, StatusHolds
<1>5. ErrorEndsTrace'
  BY DEF HandleOtherStop, InHand, Continue, Resume, Resumed, NoStatus, ErrorEndsTrace, StatusHolds
<1>6. StartingRoot'
  BY DEF HandleOtherStop, InHand, Continue, Resume, Resumed, NoStatus, StartingRoot, StatusHolds
<1>7. PhaseAgrees'
  BY DEF HandleOtherStop, InHand, Continue, Resume, Resumed, NoStatus, PhaseAgrees, StatusHolds,
     SyscallKnown
<1>8. ShownExactlyOnce'
  BY DEF HandleOtherStop, InHand, Continue, Resume, Resumed, NoStatus, ShownExactlyOnce, Due,
     StatusHolds, SyscallKnown
<1>9. WrongSyscallOnlyIfSuspect'
  BY DEF HandleOtherStop, InHand, Continue, Resume, Resumed, NoStatus, WrongSyscallOnlyIfSuspect,
     StatusHolds
<1> QED
  BY <1>1, <1>2, <1>3, <1>4, <1>5, <1>6, <1>7, <1>8, <1>9 DEF IInv

\* An error of trace keeps the inductive invariant.
LEMMA TraceErrorKeeps ==
  ASSUME IInv, TypeOK', NEW p \in Pid, WrongSyscall(p) \/ TraceeVanished(p) \/ MockFailsAtSyscall(p) \/ MockFailsAtExited(p)
  PROVE  IInv'
<1> USE TraceesAssumption DEF TypeOK, TraceesTypeOK, TracerTypeOK, Running, Stopped, Alive, Exists,
        InSyscall, IsRoot, Syscall
<1> TypeOK /\ PidsUsed /\ SyscallKnown /\ StatusHolds /\ RootBeforeWait /\ ErrorEndsTrace
    /\ StartingRoot /\ PhaseAgrees /\ ShownExactlyOnce /\ WrongSyscallOnlyIfSuspect
  BY DEF IInv
<1>1. PidsUsed'
  <2>1. UNCHANGED traceeVars
    BY DEF WrongSyscall, TraceeVanished, MockFailsAtSyscall, MockFailsAtExited, TraceError
  <2>2. \A q \in Pid \ {p} : entered_syscalls'[q] = entered_syscalls[q]
    BY DEF WrongSyscall, TraceeVanished, MockFailsAtSyscall, MockFailsAtExited, UpdateSyscallState
  <2>3. pstate[p] \in Stopped \/ entered_syscalls' = entered_syscalls
    BY DEF WrongSyscall, TraceeVanished, MockFailsAtSyscall, MockFailsAtExited
  <2> QED BY <2>1, <2>2, <2>3 DEF traceeVars, PidsUsed
<1>2. SyscallKnown'
  BY DEF WrongSyscall, TraceeVanished, MockFailsAtSyscall, MockFailsAtExited, InHand, TraceError,
     traceeVars, UpdateSyscallState, SyscallKnown
<1>3. StatusHolds'
  BY DEF WrongSyscall, TraceeVanished, MockFailsAtSyscall, MockFailsAtExited, InHand, TraceError,
     traceeVars, UpdateSyscallState, StatusHolds
<1>4. RootBeforeWait'
  BY DEF WrongSyscall, TraceeVanished, MockFailsAtSyscall, MockFailsAtExited, InHand, TraceError,
     traceeVars, UpdateSyscallState, RootBeforeWait
<1>5. ErrorEndsTrace'
  BY DEF WrongSyscall, TraceeVanished, MockFailsAtSyscall, MockFailsAtExited, InHand, TraceError,
     traceeVars, UpdateSyscallState, ErrorEndsTrace
<1>6. StartingRoot'
  BY DEF WrongSyscall, TraceeVanished, MockFailsAtSyscall, MockFailsAtExited, InHand, TraceError,
     traceeVars, UpdateSyscallState, StartingRoot, ErrorEndsTrace
<1>7. PhaseAgrees'
  BY DEF WrongSyscall, TraceeVanished, MockFailsAtSyscall, MockFailsAtExited, InHand, TraceError,
     traceeVars, UpdateSyscallState, PhaseAgrees
<1>8. ShownExactlyOnce'
  BY DEF WrongSyscall, TraceeVanished, MockFailsAtSyscall, MockFailsAtExited, InHand, TraceError,
     traceeVars, UpdateSyscallState, ShownExactlyOnce, Due
<1>9. WrongSyscallOnlyIfSuspect'
  BY DEF WrongSyscall, TraceeVanished, MockFailsAtSyscall, MockFailsAtExited, InHand, TraceError,
     traceeVars, UpdateSyscallState, WrongSyscallOnlyIfSuspect, PhaseAgrees, StatusHolds,
     SyscallKnown, ErrorEndsTrace, SyscallStop
<1> QED
  BY <1>1, <1>2, <1>3, <1>4, <1>5, <1>6, <1>7, <1>8, <1>9 DEF IInv

\* A step of the tracer alone keeps the inductive invariant.
LEMMA TracerOnlyKeeps ==
  ASSUME IInv, TypeOK', NEW p \in Pid,
         HandleExited(p) \/ RootExited(p) \/ JoinStreams \/ JoinFails \/ ReturnFromRun
  PROVE  IInv'
<1> USE TraceesAssumption DEF TypeOK, TraceesTypeOK, TracerTypeOK, Running, Stopped, Alive, Exists,
        InSyscall, IsRoot, Syscall
<1> TypeOK /\ PidsUsed /\ SyscallKnown /\ StatusHolds /\ RootBeforeWait /\ ErrorEndsTrace
    /\ StartingRoot /\ PhaseAgrees /\ ShownExactlyOnce /\ WrongSyscallOnlyIfSuspect
  BY DEF IInv
<1>1. PidsUsed'
  BY DEF HandleExited, RootExited, JoinStreams, JoinFails, TraceError, ReturnFromRun, InHand,
     NoStatus, traceeVars, PidsUsed
<1>2. SyscallKnown'
  BY DEF HandleExited, RootExited, JoinStreams, JoinFails, TraceError, ReturnFromRun, InHand,
     NoStatus, traceeVars, SyscallKnown
<1>3. StatusHolds'
  BY DEF HandleExited, RootExited, JoinStreams, JoinFails, TraceError, ReturnFromRun, InHand,
     NoStatus, traceeVars, StatusHolds
<1>4. RootBeforeWait'
  BY DEF HandleExited, RootExited, JoinStreams, JoinFails, TraceError, ReturnFromRun, InHand,
     NoStatus, traceeVars, RootBeforeWait
<1>5. ErrorEndsTrace'
  BY DEF HandleExited, RootExited, JoinStreams, JoinFails, TraceError, ReturnFromRun, InHand,
     NoStatus, traceeVars, ErrorEndsTrace
<1>6. StartingRoot'
  BY DEF HandleExited, RootExited, JoinStreams, JoinFails, TraceError, ReturnFromRun, InHand,
     NoStatus, traceeVars, StartingRoot, ErrorEndsTrace
<1>7. PhaseAgrees'
  BY DEF HandleExited, RootExited, JoinStreams, JoinFails, TraceError, ReturnFromRun, InHand,
     NoStatus, traceeVars, PhaseAgrees
<1>8. ShownExactlyOnce'
  BY SMTT(60)
  DEF HandleExited, RootExited, JoinStreams, JoinFails, TraceError, ReturnFromRun, InHand,
     NoStatus, traceeVars, ShownExactlyOnce, Due
<1>9. WrongSyscallOnlyIfSuspect'
  BY DEF HandleExited, RootExited, JoinStreams, JoinFails, TraceError, ReturnFromRun, InHand,
     NoStatus, traceeVars, WrongSyscallOnlyIfSuspect
<1> QED
  BY <1>1, <1>2, <1>3, <1>4, <1>5, <1>6, <1>7, <1>8, <1>9 DEF IInv

\* StartRun keeps the inductive invariant.
LEMMA StartRunKeeps ==
  ASSUME IInv, TypeOK', NEW c \in Pid, StartRun(c)
  PROVE  IInv'
<1> USE TraceesAssumption DEF TypeOK, TraceesTypeOK, TracerTypeOK, Running, Stopped, Alive, Exists,
        InSyscall, IsRoot, Syscall
<1> TypeOK /\ PidsUsed /\ SyscallKnown /\ StatusHolds /\ RootBeforeWait /\ ErrorEndsTrace
    /\ StartingRoot /\ PhaseAgrees /\ ShownExactlyOnce /\ WrongSyscallOnlyIfSuspect
  BY DEF IInv
<1>1. PidsUsed'
  BY DEF StartRun, Spawn, NoStatus, PidsUsed
<1>2. SyscallKnown'
  BY DEF StartRun, Spawn, NoStatus, SyscallKnown
<1>3. StatusHolds'
  BY DEF StartRun, Spawn, NoStatus, StatusHolds
<1>4. RootBeforeWait'
  BY DEF StartRun, Spawn, NoStatus, RootBeforeWait
<1>5. ErrorEndsTrace'
  BY DEF StartRun, Spawn, NoStatus, ErrorEndsTrace
<1>6. StartingRoot'
  BY DEF StartRun, Spawn, NoStatus, StartingRoot
<1>7. PhaseAgrees'
  BY DEF StartRun, Spawn, NoStatus, PhaseAgrees
<1>8. ShownExactlyOnce'
  BY DEF StartRun, Spawn, NoStatus, ShownExactlyOnce, Due
<1>9. WrongSyscallOnlyIfSuspect'
  BY DEF StartRun, Spawn, NoStatus, WrongSyscallOnlyIfSuspect
<1> QED
  BY <1>1, <1>2, <1>3, <1>4, <1>5, <1>6, <1>7, <1>8, <1>9 DEF IInv

-----------------------------------------------------------------------------
\* The initial state satisfies the inductive invariant.
LEMMA InvariantInit == Init => IInv
  BY TypeInit, TraceesAssumption
  DEF Init, IInv, PidsUsed, SyscallKnown, StatusHolds, RootBeforeWait, ErrorEndsTrace, StartingRoot,
      PhaseAgrees, ShownExactlyOnce, WrongSyscallOnlyIfSuspect, Due, Alive, Exists, Running, Stopped,
      InSyscall, IsRoot, Syscall

\* Every step keeps the inductive invariant.
LEMMA InvariantStep == IInv /\ [Next]_vars => IInv'
<1> SUFFICES ASSUME IInv, [Next]_vars PROVE IInv'
  OBVIOUS
<1>1. TypeOK'
  BY TypeStep DEF IInv
<1>2. ASSUME NEW p \in Pid, ProcessStep(p) \/ Signalled(p) \/ Killed(p) PROVE IInv'
  BY <1>1, <1>2, ChildStopsKeeps, ChildFailsEarlyKeeps, ChildExecveKeeps, EnterKeeps, ForkKeeps,
     CompleteKeeps, ExitKeeps, KilledKeeps, SignalledKeeps, FaultedKeeps
  DEF ProcessStep
<1>3. CASE WaitForChild \/ ChildNeverStopped
  BY <1>1, <1>3, WaitForChildKeeps, ChildNeverStoppedKeeps
<1>4. ASSUME NEW p \in Pid, HandleExecveEnter(p) \/ HandleGetcwdExit(p) \/ HandleStatExit(p)
      PROVE  IInv'
  <2>1. \E callback \in {"execve_enter", "getcwd_exit", "stat_exit"} : MockCallback(p, callback)
    BY <1>4 DEF HandleExecveEnter, HandleGetcwdExit, HandleStatExit
  <2> QED
    BY <1>1, <2>1, MockCallbackKeeps
<1>5. ASSUME NEW p \in Pid, Wait(p) \/ HandleOtherSyscall(p) \/ HandleOtherStop(p) PROVE IInv'
  BY <1>1, <1>5, WaitKeeps, HandleOtherSyscallKeeps, HandleOtherStopKeeps
<1>6. ASSUME NEW p \in Pid,
             \/ WrongSyscall(p) \/ TraceeVanished(p)
             \/ MockFailsAtSyscall(p) \/ MockFailsAtExited(p)
      PROVE  IInv'
  BY <1>1, <1>6, TraceErrorKeeps
<1>7. ASSUME NEW p \in Pid, HandleExited(p) \/ RootExited(p) PROVE IInv'
  BY <1>1, <1>7, TracerOnlyKeeps
<1>8. CASE JoinStreams \/ JoinFails \/ ReturnFromRun
  <2>1. tracee_pid \in Pid
    BY DEF IInv, TypeOK, TracerTypeOK
  <2> QED
    BY <1>1, <1>8, <2>1, TracerOnlyKeeps
<1>9. ASSUME NEW c \in Pid, StartRun(c) PROVE IInv'
  BY <1>1, <1>9, StartRunKeeps
<1>10. CASE Finished \/ UNCHANGED vars
  BY <1>1, <1>10
  DEF Finished, vars, IInv, PidsUsed, SyscallKnown, StatusHolds, RootBeforeWait, ErrorEndsTrace,
      StartingRoot, PhaseAgrees, ShownExactlyOnce, WrongSyscallOnlyIfSuspect, Due, Alive, Exists,
      InSyscall, IsRoot
<1> QED
  BY <1>2, <1>3, <1>4, <1>5, <1>6, <1>7, <1>8, <1>9, <1>10 DEF Next, TracerStep, HandleStatus

(***************************************************************************)
(* The inductive invariant holds in every reachable state.                 *)
(***************************************************************************)
THEOREM Invariant == Spec => []IInv
  BY InvariantInit, InvariantStep, PTL DEF Spec

(***************************************************************************)
(* entered_syscalls agrees with the kernel about every process that does   *)
(* not carry a used pid and does not stem from an earlier run.             *)
(***************************************************************************)
THEOREM PhaseCorrect == Spec => []PhaseAgrees
<1>1. IInv => PhaseAgrees
  BY DEF IInv
<1> QED
  BY <1>1, Invariant, PTL

(***************************************************************************)
(* The mock is told of every execve of a command before the kernel         *)
(* executes it, of every getcwd and stat before its result is used, and of *)
(* none of them twice.                                                     *)
(***************************************************************************)
THEOREM MockInformed == Spec => []ShownExactlyOnce
<1>1. IInv => ShownExactlyOnce
  BY DEF IInv
<1> QED
  BY <1>1, Invariant, PTL

(***************************************************************************)
(* No verdict about a script that was not started, unless its child could  *)
(* not say so.                                                             *)
(***************************************************************************)
THEOREM VerdictSound == Spec => []FailedStartIsReported
<1>1. IInv => FailedStartIsReported
  BY DEF IInv, StartingRoot, FailedStartIsReported
<1> QED
  BY <1>1, Invariant, PTL

(***************************************************************************)
(* The assertion in update_syscall_state can only fail if a pid was reused *)
(* or a process of an earlier run is still there.                          *)
(***************************************************************************)
THEOREM AssertionSound == Spec => []WrongSyscallOnlyIfSuspect
<1>1. IInv => WrongSyscallOnlyIfSuspect
  BY DEF IInv
<1> QED
  BY <1>1, Invariant, PTL

-----------------------------------------------------------------------------
(***************************************************************************)
(* The family tree of the processes.                                       *)
(***************************************************************************)
LEMMA FamilyInit == Init => FamilyInv
  BY TraceesAssumption DEF Init, FamilyInv, RootGone, ParentsLive, Forest

\* A process that ends leaves its children without a parent.
LEMMA EndsFamily ==
    ASSUME IInv, ParentsLive, Forest, NEW p \in Pid, NEW how \in Zombie, Ends(p, how)
    PROVE  ParentsLive' /\ Forest'
<1>0. pstate \in [Pid -> ProcessState] /\ parent \in [Pid -> Pid \cup {NoPid}]
  BY DEF IInv, TypeOK, TraceesTypeOK
<1> USE <1>0
<1>1. parent' = [c \in Pid |-> IF parent[c] = p THEN NoPid ELSE parent[c]]
  BY DEF Ends
<1>2. ParentsLive'
  <2> SUFFICES ASSUME NEW c \in Pid, parent'[c] # NoPid
               PROVE  pstate'[c] # "none" /\ pstate'[parent'[c]] \in Running \cup Stopped
    BY DEF ParentsLive, Exists, Alive
  <2>1. parent[c] # p /\ parent'[c] = parent[c]
    BY <1>1
  <2>2. Exists(c) /\ Alive(parent[c])
    BY <2>1 DEF ParentsLive
  <2>3. parent[c] \in Pid
    BY <2>1
  <2>4. pstate' = [pstate EXCEPT ![p] = how]
    BY DEF Ends
  <2> QED
    BY <2>1, <2>2, <2>3, <2>4 DEF Exists, Alive, Zombie
<1>3. Forest'
  <2> SUFFICES ASSUME NEW S \in SUBSET Pid, S # {} PROVE \E c \in S : parent'[c] \notin S
    BY DEF Forest
  <2>1. PICK c \in S : parent[c] \notin S
    BY DEF Forest
  <2> QED
    BY <1>1, <2>1, TraceesAssumption
<1> QED BY <1>2, <1>3

\* A new process is the child of one that was there before.
LEMMA ForkFamily ==
    ASSUME IInv, ParentsLive, Forest, NEW p \in Pid, NEW c \in Pid, ForkChild(p, c)
    PROVE  ParentsLive' /\ Forest'
<1>0. pstate \in [Pid -> ProcessState] /\ parent \in [Pid -> Pid \cup {NoPid}]
  BY DEF IInv, TypeOK, TraceesTypeOK
<1> USE <1>0
<1>1. /\ pstate[p] = "kernel" /\ pstate[c] = "none"
      /\ pstate' = [pstate EXCEPT ![p] = "event", ![c] = "stop"]
      /\ parent' = [parent EXCEPT ![c] = p]
  BY DEF ForkChild
<1>2. ParentsLive'
  <2> SUFFICES ASSUME NEW q \in Pid, parent'[q] # NoPid
               PROVE  pstate'[q] # "none" /\ pstate'[parent'[q]] \in Running \cup Stopped
    BY DEF ParentsLive, Exists, Alive
  <2>1. CASE q = c
    BY <1>1, <2>1 DEF Exists, Alive, Stopped
  <2>2. CASE q # c
    <3>1. parent'[q] = parent[q] /\ parent[q] \in Pid
      BY <1>1, <2>2
    <3>2. Exists(q) /\ Alive(parent[q])
      BY <3>1 DEF ParentsLive
    <3> QED
      BY <1>1, <3>1, <3>2 DEF Exists, Alive, Stopped, Running
  <2> QED BY <2>1, <2>2
<1>3. \A q \in Pid : parent[q] # c
  BY <1>1, TraceesAssumption DEF ParentsLive, Alive, Stopped, Running
<1>4. Forest'
  <2> SUFFICES ASSUME NEW S \in SUBSET Pid, S # {} PROVE \E q \in S : parent'[q] \notin S
    BY DEF Forest
  <2>1. CASE S = {c}
    BY <1>1, <2>1
  <2>2. CASE S # {c}
    <3>1. PICK q \in S \ {c} : parent[q] \notin S \ {c}
      BY <2>2 DEF Forest
    <3> QED
      BY <1>1, <1>3, <3>1
  <2> QED BY <2>1, <2>2
<1> QED BY <1>2, <1>4

\* A zombie has no children, so that it can be removed.
LEMMA ReapFamily ==
    ASSUME IInv, ParentsLive, Forest, NEW p \in Pid, Reap(p)
    PROVE  ParentsLive' /\ Forest'
<1>0. pstate \in [Pid -> ProcessState] /\ parent \in [Pid -> Pid \cup {NoPid}]
  BY DEF IInv, TypeOK, TraceesTypeOK
<1> USE <1>0
<1>1. /\ pstate[p] \in Zombie
      /\ pstate' = [pstate EXCEPT ![p] = "none"]
      /\ parent' = [parent EXCEPT ![p] = NoPid]
  BY DEF Reap
<1>2. \A q \in Pid : parent[q] # p
  BY <1>1, TraceesAssumption DEF ParentsLive, Alive, Stopped, Running, Zombie
<1>3. ParentsLive'
  <2> SUFFICES ASSUME NEW q \in Pid, parent'[q] # NoPid
               PROVE  pstate'[q] # "none" /\ pstate'[parent'[q]] \in Running \cup Stopped
    BY DEF ParentsLive, Exists, Alive
  <2>1. q # p /\ parent'[q] = parent[q] /\ parent[q] \in Pid
    BY <1>1
  <2> QED
    BY <1>1, <1>2, <2>1 DEF ParentsLive, Exists, Alive
<1>4. Forest'
  <2> SUFFICES ASSUME NEW S \in SUBSET Pid, S # {} PROVE \E q \in S : parent'[q] \notin S
    BY DEF Forest
  <2>1. PICK q \in S : parent[q] \notin S
    BY DEF Forest
  <2> QED
    BY <1>1, <2>1, TraceesAssumption
<1> QED BY <1>3, <1>4

\* The root of the next run has no parent among the tracees.
LEMMA SpawnFamily ==
    ASSUME IInv, ParentsLive, Forest, NEW c \in Pid, Spawn(c)
    PROVE  ParentsLive' /\ Forest'
<1>0. pstate \in [Pid -> ProcessState] /\ parent \in [Pid -> Pid \cup {NoPid}]
  BY DEF IInv, TypeOK, TraceesTypeOK
<1> USE <1>0
<1>1. /\ pstate[c] = "none"
      /\ pstate' = [pstate EXCEPT ![c] = "boot"]
      /\ parent' = [parent EXCEPT ![c] = NoPid]
  BY DEF Spawn, Exists
<1>2. ParentsLive'
  BY <1>1 DEF ParentsLive, Exists, Alive, Running
<1>3. Forest'
  <2> SUFFICES ASSUME NEW S \in SUBSET Pid, S # {} PROVE \E q \in S : parent'[q] \notin S
    BY DEF Forest
  <2>1. PICK q \in S : parent[q] \notin S
    BY DEF Forest
  <2> QED
    BY <1>1, <2>1, TraceesAssumption
<1> QED BY <1>2, <1>3

\* Stops and resumptions change no family.
LEMMA SameFamily ==
    ASSUME IInv, ParentsLive, Forest, UNCHANGED parent,
           \A q \in Pid : (Exists(q) => Exists(q)') /\ (Alive(q) => Alive(q)')
    PROVE  ParentsLive' /\ Forest'
  BY DEF IInv, TypeOK, TraceesTypeOK, ParentsLive, Forest

\* Every step keeps the family a tree whose members are alive.
LEMMA TreeStep == IInv /\ ParentsLive /\ Forest /\ [Next]_vars => ParentsLive' /\ Forest'
<1> SUFFICES ASSUME IInv, ParentsLive, Forest, [Next]_vars PROVE ParentsLive' /\ Forest'
  OBVIOUS
<1>0. /\ pstate \in [Pid -> ProcessState] /\ parent \in [Pid -> Pid \cup {NoPid}]
      /\ tracee_pid \in Pid
  BY DEF IInv, TypeOK, TraceesTypeOK, TracerTypeOK
<1>1. ASSUME NEW p \in Pid,
             \/ FirstStop(p) \/ CompleteSyscall(p) \/ Signal(p) \/ Fault(p) \/ Resume(p)
             \/ \E s \in Syscall : EnterSyscall(p, s)
      PROVE  ParentsLive' /\ Forest'
  <2>1. UNCHANGED parent /\ pstate[p] \in Running \cup Stopped
    BY <1>1 DEF FirstStop, CompleteSyscall, Signal, Fault, Resume, EnterSyscall, Running
  <2>2. \E state \in Running \cup Stopped : pstate' = [pstate EXCEPT ![p] = state]
    BY <1>1 DEF FirstStop, CompleteSyscall, Signal, Fault, Resume, Resumed, EnterSyscall, Running, Stopped
  <2>3. \A q \in Pid : (Exists(q) => Exists(q)') /\ (Alive(q) => Alive(q)')
    BY <1>0, <2>1, <2>2 DEF Exists, Alive, Running, Stopped
  <2> QED BY <2>1, <2>3, SameFamily
<1>2. ASSUME NEW p \in Pid, ProcessStep(p) \/ Signalled(p) \/ Killed(p) PROVE ParentsLive' /\ Forest'
  <2>1. CASE IsRoot(p) /\ (ChildStops \/ ChildFailsEarly \/ ChildExecve)
    BY <1>0, <1>1, <2>1, EndsFamily DEF ChildStops, ChildFailsEarly, ChildExecve, Zombie
  <2>2. CASE \E s \in Syscall : Enter(p, s)
    BY <1>1, <2>2 DEF Enter
  <2>3. CASE \E c \in Pid : Fork(p, c)
    BY <2>3, ForkFamily DEF Fork
  <2>4. CASE Complete(p) \/ Signalled(p) \/ Faulted(p)
    BY <1>1, <2>4 DEF Complete, Signalled, Faulted
  <2>5. CASE Exit(p) \/ Killed(p)
    BY <2>5, EndsFamily DEF Exit, ExitProcess, Killed, Kill, Zombie
  <2> QED BY <1>2, <2>1, <2>2, <2>3, <2>4, <2>5 DEF ProcessStep
<1>3. CASE WaitForChild \/ ChildNeverStopped
  BY <1>0, <1>1, <1>3, ReapFamily DEF WaitForChild, ChildNeverStopped
<1>4. CASE UNCHANGED traceeVars
  <2>1. UNCHANGED <<parent, pstate>>
    BY <1>4 DEF traceeVars
  <2> QED BY <2>1, SameFamily DEF Exists, Alive
<1>5. ASSUME NEW p \in Pid, Wait(p) \/ HandleStatus(p) PROVE ParentsLive' /\ Forest'
  <2>1. Resume(p) \/ Reap(p) \/ UNCHANGED traceeVars
    BY <1>5
    DEF Wait, HandleStatus, HandleExecveEnter, HandleGetcwdExit, HandleStatExit, MockCallback,
        HandleOtherSyscall, HandleOtherStop, HandleExited, RootExited, WrongSyscall,
        TraceeVanished, TraceError, Continue
  <2> QED BY <1>1, <1>4, <2>1, ReapFamily
<1>6. ASSUME NEW p \in Pid, MockFailsAtSyscall(p) \/ MockFailsAtExited(p)
      PROVE  ParentsLive' /\ Forest'
  BY <1>4, <1>6 DEF MockFailsAtSyscall, MockFailsAtExited, TraceError
<1>7. CASE JoinStreams \/ JoinFails \/ ReturnFromRun
  BY <1>4, <1>7 DEF JoinStreams, JoinFails, TraceError, ReturnFromRun
<1>8. ASSUME NEW c \in Pid, StartRun(c) PROVE ParentsLive' /\ Forest'
  BY <1>8, SpawnFamily DEF StartRun
<1>9. CASE Finished \/ UNCHANGED vars
  BY <1>4, <1>9 DEF Finished, vars, traceeVars
<1> QED
  BY <1>2, <1>3, <1>5, <1>6, <1>7, <1>8, <1>9 DEF Next, TracerStep

\* The root tracee stays away: its pid is not reused while the run lasts.
LEMMA RootGoneStep == IInv /\ RootGone /\ [Next]_vars => RootGone'
<1> SUFFICES ASSUME IInv, RootGone, [Next]_vars PROVE RootGone'
  OBVIOUS
<1>0. pstate \in [Pid -> ProcessState] /\ tracee_pid \in Pid
  BY DEF IInv, TypeOK, TraceesTypeOK, TracerTypeOK
<1> USE DEF RootGone
<1>1. ASSUME NEW p \in Pid, ProcessStep(p) \/ Signalled(p) \/ Killed(p) PROVE RootGone'
  <2>1. UNCHANGED <<tpc, status, reason, tracee_pid>>
    BY <1>1
    DEF ProcessStep, Signalled, Killed, ChildStops, ChildFailsEarly, ChildExecve, Enter, Fork,
        Complete, Exit, Faulted, tracerVars
  <2>2. ASSUME NEW c \in Pid, Fork(p, c) PROVE pstate'[tracee_pid] = "none" \/ Exists(tracee_pid)
    BY <1>0, <2>2 DEF Fork, ForkChild, IsRoot, Exists
  <2>3. ASSUME NEW q \in Pid, NEW state, Exists(q), pstate' = [pstate EXCEPT ![q] = state]
        PROVE  pstate'[tracee_pid] = "none" \/ Exists(tracee_pid)
    BY <1>0, <2>3 DEF Exists
  <2>4. ASSUME ~(\E c \in Pid : Fork(p, c))
        PROVE  pstate'[tracee_pid] = "none" \/ Exists(tracee_pid)
    <3>1. \E q \in Pid : Exists(q) /\ \E state \in ProcessState : pstate' = [pstate EXCEPT ![q] = state]
      BY <1>0, <1>1, <2>4
      DEF ProcessStep, Signalled, Killed, ChildStops, ChildFailsEarly, ChildExecve, Enter,
          Complete, Exit, Faulted, FirstStop, Ends, CompleteSyscall, EnterSyscall,
          ExitProcess, Signal, Fault, Kill, Exists, Alive, ProcessState, Running, Stopped, Zombie
    <3> QED BY <2>3, <3>1
  <2>5. pstate'[tracee_pid] = "none" \/ Exists(tracee_pid)
    BY <2>2, <2>4
  <2> QED BY <2>1, <2>5 DEF Exists
<1>2. ASSUME NEW p \in Pid, Wait(p) PROVE RootGone'
  <2>1. status' = [pid |-> p, kind |-> KindOf(pstate[p])] /\ tpc' = "handle"
        /\ tracee_pid' = tracee_pid
    BY <1>2 DEF Wait
  <2>2. CASE pstate[p] \in Stopped
    BY <2>1, <2>2 DEF KindOf, Stopped
  <2>3. CASE Reap(p)
    BY <1>0, <2>1, <2>3 DEF Reap, Exists
  <2> QED BY <1>2, <2>2, <2>3 DEF Wait
<1>3. ASSUME NEW p \in Pid, HandleStatus(p) PROVE RootGone'
  <2>1. CASE RootExited(p)
    BY <2>1 DEF RootExited, InHand, IsRoot, traceeVars, Exists
  <2>2. CASE ~RootExited(p)
    BY <1>3, <2>2
    DEF HandleStatus, HandleExecveEnter, HandleGetcwdExit, HandleStatExit, MockCallback,
        HandleOtherSyscall, HandleOtherStop, HandleExited, WrongSyscall,
        TraceeVanished, TraceError, Continue
  <2> QED BY <2>1, <2>2
<1>4. ASSUME NEW p \in Pid, MockFailsAtSyscall(p) \/ MockFailsAtExited(p) PROVE RootGone'
  BY <1>4 DEF MockFailsAtSyscall, MockFailsAtExited, TraceError
<1>5. CASE WaitForChild \/ ChildNeverStopped
  BY <1>5 DEF WaitForChild, ChildNeverStopped
<1>6. CASE JoinStreams \/ ReturnFromRun
  BY <1>6 DEF JoinStreams, ReturnFromRun, traceeVars, Exists
<1>7. CASE JoinFails
  BY <1>7 DEF JoinFails, TraceError
<1>8. ASSUME NEW c \in Pid, StartRun(c) PROVE RootGone'
  BY <1>8 DEF StartRun
<1>9. CASE Finished \/ UNCHANGED vars
  BY <1>9 DEF Finished, vars, Exists
<1> QED
  BY <1>1, <1>2, <1>3, <1>4, <1>5, <1>6, <1>7, <1>8, <1>9 DEF Next, TracerStep

LEMMA FamilyAlways == Spec => []FamilyInv
<1>1. IInv /\ FamilyInv /\ [Next]_vars => FamilyInv'
  BY TreeStep, RootGoneStep DEF FamilyInv
<1> QED BY <1>1, FamilyInit, Invariant, PTL DEF Spec

(***************************************************************************)
(* A verdict comes only after the script itself ended, and whatever it     *)
(* leaves to the wait of the next run outlived its parents, or descends    *)
(* from a process that did.                                                *)
(***************************************************************************)
THEOREM VerdictLeavesOrphans == Spec => []OnlyOrphansLeft
<1>1. IInv /\ FamilyInv => OnlyOrphansLeft
  <2> SUFFICES ASSUME IInv, FamilyInv, outcome = "verdict" PROVE OnlyOrphansLeft
    BY DEF OnlyOrphansLeft
  <2>1. tpc = "returned" /\ reason = "none"
    BY DEF IInv, ErrorEndsTrace, StartingRoot
  <2>2. ~Exists(tracee_pid)
    BY <2>1 DEF FamilyInv, RootGone
  <2>3. ASSUME \E p \in Pid : Exists(p) PROVE \E p \in Pid : Exists(p) /\ parent[p] = NoPid
    <3> DEFINE S == {p \in Pid : Exists(p)}
    <3>1. PICK p \in S : parent[p] \notin S
      BY <2>3 DEF FamilyInv, Forest
    <3>2. parent[p] \in Pid \cup {NoPid}
      BY DEF IInv, TypeOK, TraceesTypeOK
    <3>3. parent[p] # NoPid => Exists(parent[p])
      BY DEF FamilyInv, ParentsLive, Alive, Exists, Running, Stopped
    <3> QED BY <3>1, <3>2, <3>3
  <2> QED BY <2>2, <2>3 DEF OnlyOrphansLeft
<1> QED BY <1>1, FamilyAlways, Invariant, PTL
=============================================================================
