------------------------------- MODULE Tracer -------------------------------
(***************************************************************************)
(* The tracing loop of src/src/tracer/mod.rs: Tracer::run_against_mock,    *)
(* trace, handle_wait_status, update_syscall_state and handle_syscall, and *)
(* fork_with_child_errors around them.  One run starts the script in a     *)
(* traced child, resumes every tracee from stop to stop, tells the mock of *)
(* the syscalls it asked for, and ends with a verdict or an error.  A      *)
(* session makes several runs, one per test, in one process: it goes on    *)
(* after a verdict and ends at the first error (the ? of collect_results). *)
(***************************************************************************)
EXTENDS Tracees, Sequences

CONSTANTS
    MaxRuns,      \* bound on the runs of a session
    MockMayFail,  \* may a callback of the mock return an error?
    RelayMayFail  \* may a thread that relays the script's output fail?

ASSUME TracerAssumption ==
    /\ MaxRuns \in Nat \ {0}
    /\ {MockMayFail, RelayMayFail} \subseteq BOOLEAN

VARIABLES
    tracee_pid,         \* the root tracee, which runs the script
    child,              \* how far the root tracee got (see ChildFails)
    tpc,                \* where the tracer is
    status,             \* the WaitStatus in hand: pid and kind
    entered_syscalls,   \* per pid, the syscall it entered, or NoSyscall
    reason,             \* why trace returned an error, or "none"
    outcome,            \* what the run returned, or "none"
    run,                \* number of the run
    shown               \* history: what the mock was told of each process since
                        \* the process last entered a syscall

tracerVars == <<tracee_pid, child, tpc, status, entered_syscalls, reason, outcome, run, shown>>
vars == <<pstate, sys, parent, fuel, faulting, writers, used, suspect,
          tracee_pid, child, tpc, status, entered_syscalls, reason, outcome, run, shown>>

Kind == {"PtraceSyscall", "PtraceEvent", "Stopped", "Exited", "Signaled"}
NoStatus == [pid |-> NoPid, kind |-> "Stopped"]

TracerTypeOK ==
    /\ tracee_pid \in Pid
    /\ child \in {"starting", "script", "failed", "unreported"}
    /\ tpc \in {"waitpid", "wait", "handle", "join", "result", "returned"}
    /\ status \in [pid : Pid \cup {NoPid}, kind : Kind]
    /\ entered_syscalls \in [Pid -> Syscall \cup {NoSyscall}]
    /\ reason \in {"none", "no_tracee", "wrong_syscall", "mock", "relay"}
    /\ outcome \in {"none", "verdict", "child_error", "trace_error"}
    /\ run \in 1..MaxRuns
    /\ shown \in [Pid -> Seq({"execve_enter", "getcwd_exit", "stat_exit"})]

\* Every variable has its type.
TypeOK == TraceesTypeOK /\ TracerTypeOK

-----------------------------------------------------------------------------
(***************************************************************************)
(* The child branch of fork_with_child_errors.  The child redirects its    *)
(* streams, asks to be traced, stops itself and executes the program.  If  *)
(* one of these fails it writes the error file and exits with 0: it        *)
(* "failed".  If writing the file fails as well, it leaves the function    *)
(* and main with that error and exits with 1, and the file that the parent *)
(* will read is as empty as if the script had run: it is "unreported".     *)
(***************************************************************************)
ChildFails == {"failed", "unreported"}

IsRoot(p) == p = tracee_pid

ChildStops ==
    /\ FirstStop(tracee_pid)
    /\ UNCHANGED tracerVars

ChildFailsEarly ==
    /\ pstate[tracee_pid] = "boot"
    /\ Ends(tracee_pid, "exited")
    /\ child' \in ChildFails
    /\ UNCHANGED <<tracee_pid, tpc, status, entered_syscalls, reason, outcome, run, shown>>

ChildExecve ==
    /\ child = "starting"
    /\ pstate[tracee_pid] = "kernel"
    /\ CompleteSyscall(tracee_pid)
    /\ child' \in {"script"} \cup ChildFails
    /\ UNCHANGED <<tracee_pid, tpc, status, entered_syscalls, reason, outcome, run, shown>>

\* The syscalls a process may make next: the root tracee is still scriptkeeper's
\* own code until its execve succeeded; an error it cannot report, it prints.
NextCalls(p) ==
    IF ~IsRoot(p) \/ child = "script" THEN Calls
    ELSE IF child = "starting" THEN {"execve"}
    ELSE IF child = "failed" THEN {"exit_group"} ELSE {"exit_group"} \cup (Calls \cap {"other"})

Enter(p, s) ==
    /\ s \in NextCalls(p)
    /\ EnterSyscall(p, s)
    /\ shown' = [shown EXCEPT ![p] = <<>>]
    /\ UNCHANGED <<tracee_pid, child, tpc, status, entered_syscalls, reason, outcome, run>>

\* The pid of the root tracee is not reused while its run lasts.
Fork(p, c) ==
    /\ ~IsRoot(c)
    /\ ForkChild(p, c)
    /\ shown' = [shown EXCEPT ![c] = <<>>]
    /\ UNCHANGED <<tracee_pid, child, tpc, status, entered_syscalls, reason, outcome, run>>

Complete(p) ==
    /\ IsRoot(p) => child # "starting"
    /\ CompleteSyscall(p)
    /\ UNCHANGED tracerVars

Exit(p)      == ExitProcess(p) /\ UNCHANGED tracerVars

\* Signals and faults in scriptkeeper's own code before the execve are left out.
Started(p)   == IsRoot(p) => child # "starting"
Signalled(p) == Started(p) /\ Signal(p) /\ UNCHANGED tracerVars
Faulted(p)   == Started(p) /\ Fault(p) /\ UNCHANGED tracerVars
Killed(p)    == Kill(p) /\ UNCHANGED tracerVars

ProcessStep(p) ==
    \/ IsRoot(p) /\ (ChildStops \/ ChildFailsEarly \/ ChildExecve)
    \/ \E s \in Syscall : Enter(p, s)
    \/ \E c \in Pid : Fork(p, c)
    \/ Complete(p)
    \/ Exit(p)
    \/ Faulted(p)

-----------------------------------------------------------------------------
(***************************************************************************)
(* The parent branch: run_against_mock waits for the root tracee's first   *)
(* stop, sets the ptrace options and resumes it.  If it is a zombie by     *)
(* now, ptrace finds no tracee.                                            *)
(***************************************************************************)
WaitForChild ==
    /\ tpc = "waitpid"
    /\ Resume(tracee_pid)
    /\ tpc' = "wait"
    /\ UNCHANGED <<tracee_pid, child, status, entered_syscalls, reason, outcome, run, shown>>

ChildNeverStopped ==
    /\ tpc = "waitpid"
    /\ Reap(tracee_pid)
    /\ tpc' = "result"
    /\ reason' = "no_tracee"
    /\ UNCHANGED <<tracee_pid, child, status, entered_syscalls, outcome, run, shown>>

KindOf(state) ==
    IF state \in {"enter", "exit"} THEN "PtraceSyscall"
    ELSE IF state = "event" THEN "PtraceEvent"
    ELSE IF state = "stop" THEN "Stopped"
    ELSE IF state = "exited" THEN "Exited" ELSE "Signaled"

\* wait(): any tracee that stopped or ended, of this run or of an earlier one.
Wait(p) ==
    /\ tpc = "wait"
    /\ status' = [pid |-> p, kind |-> KindOf(pstate[p])]
    /\ tpc' = "handle"
    /\ \/ pstate[p] \in Stopped /\ UNCHANGED traceeVars
       \/ Reap(p)
    /\ UNCHANGED <<tracee_pid, child, entered_syscalls, reason, outcome, run, shown>>

InHand(p, kinds) ==
    /\ tpc = "handle"
    /\ status.pid = p
    /\ status.kind \in kinds

\* update_syscall_state: a syscall stop of a process that has not entered a
\* syscall is an entry, otherwise it is the exit of the syscall it entered.
SyscallStop(p) ==
    IF entered_syscalls[p] = NoSyscall THEN "Enter"
    ELSE IF entered_syscalls[p] = sys[p] THEN "Exit" ELSE "Wrong"

\* Broken: the entry is not removed.
EntryIsKept(p) ==
    entered_syscalls' = [entered_syscalls EXCEPT ![p] = IF @ = NoSyscall THEN sys[p] ELSE @]

UpdateSyscallState(p) ==
    entered_syscalls' = [entered_syscalls EXCEPT
        ![p] = IF @ = NoSyscall THEN sys[p] ELSE NoSyscall]

\* Broken: the root is not told apart.
CallbackForRootToo(p) ==
    IF SyscallStop(p) = "Enter" /\ sys[p] = "execve" THEN "execve_enter"
    ELSE IF SyscallStop(p) = "Exit" /\ sys[p] = "getcwd" THEN "getcwd_exit"
    ELSE IF SyscallStop(p) = "Exit" /\ sys[p] = "stat" THEN "stat_exit"
    ELSE "none"

\* The callback of the mock that handle_syscall makes for p's stop, if any.
Callback(p) ==
    IF SyscallStop(p) = "Enter" /\ sys[p] = "execve" /\ ~IsRoot(p) THEN "execve_enter"
    ELSE IF SyscallStop(p) = "Exit" /\ sys[p] = "getcwd" THEN "getcwd_exit"
    ELSE IF SyscallStop(p) = "Exit" /\ sys[p] = "stat" THEN "stat_exit"
    ELSE "none"

\* Resume the tracee whose stop was handled and wait for the next one.
Continue(p) ==
    /\ Resume(p)
    /\ tpc' = "wait"
    /\ status' = NoStatus
    /\ UNCHANGED <<tracee_pid, child, reason, outcome, run>>

MockCallback(p, callback) ==
    /\ InHand(p, {"PtraceSyscall"})
    /\ Callback(p) = callback
    /\ UpdateSyscallState(p)
    /\ shown' = [shown EXCEPT ![p] = Append(@, callback)]
    /\ Continue(p)

HandleExecveEnter(p) == MockCallback(p, "execve_enter")
HandleGetcwdExit(p)  == MockCallback(p, "getcwd_exit")
HandleStatExit(p)    == MockCallback(p, "stat_exit")

HandleOtherSyscall(p) ==
    /\ InHand(p, {"PtraceSyscall"})
    /\ SyscallStop(p) # "Wrong"
    /\ Callback(p) = "none"
    /\ UpdateSyscallState(p)
    /\ Continue(p)
    /\ UNCHANGED shown

\* Broken: the tracee is not resumed.
OtherStopIgnored(p) ==
    /\ InHand(p, {"PtraceEvent", "Stopped", "Signaled"})
    /\ tpc' = "wait"
    /\ status' = NoStatus
    /\ UNCHANGED <<traceeVars, tracee_pid, child, entered_syscalls, reason, outcome, run, shown>>

\* (A killed process is reaped: its pid may name a new, stopped tracee by now.)
HandleOtherStop(p) ==
    /\ InHand(p, {"PtraceEvent", "Stopped", "Signaled"})
    /\ Continue(p)
    /\ UNCHANGED <<entered_syscalls, shown>>

TraceError(why) ==
    /\ tpc' = "result"
    /\ reason' = why
    /\ status' = NoStatus
    /\ UNCHANGED <<traceeVars, tracee_pid, child, outcome, run, shown>>

WrongSyscall(p) ==
    /\ InHand(p, {"PtraceSyscall"})
    /\ pstate[p] \in Stopped
    /\ SyscallStop(p) = "Wrong"
    /\ TraceError("wrong_syscall")
    /\ UNCHANGED entered_syscalls

\* getregs or ptrace::syscall on a process that is gone: ESRCH.
TraceeVanished(p) ==
    /\ InHand(p, Kind \ {"Exited"})
    /\ pstate[p] \notin Stopped
    /\ TraceError("no_tracee")
    /\ UNCHANGED entered_syscalls

MockFailsAtSyscall(p) ==
    /\ MockMayFail
    /\ InHand(p, {"PtraceSyscall"})
    /\ pstate[p] \in Stopped
    /\ Callback(p) # "none"
    /\ UpdateSyscallState(p)
    /\ TraceError("mock")

MockFailsAtExited(p) ==
    /\ MockMayFail
    /\ InHand(p, {"Exited"})
    /\ ~IsRoot(p)
    /\ TraceError("mock")
    /\ UNCHANGED entered_syscalls

HandleExited(p) ==
    /\ InHand(p, {"Exited"})
    /\ ~IsRoot(p)
    /\ tpc' = "wait"
    /\ status' = NoStatus
    /\ UNCHANGED <<traceeVars, tracee_pid, child, entered_syscalls, reason, outcome, run, shown>>

\* Broken: the loop ends at the first exit.
AnyExited(p) ==
    /\ InHand(p, {"Exited"})
    /\ tpc' = "join"
    /\ status' = NoStatus
    /\ UNCHANGED <<traceeVars, tracee_pid, child, entered_syscalls, reason, outcome, run, shown>>

RootExited(p) ==
    /\ InHand(p, {"Exited"})
    /\ IsRoot(p)
    /\ tpc' = "join"
    /\ status' = NoStatus
    /\ UNCHANGED <<traceeVars, tracee_pid, child, entered_syscalls, reason, outcome, run, shown>>

\* join()?: the relay threads end when nobody holds a write end any more; then
\* the mock's handle_end makes the result.
JoinStreams ==
    /\ tpc = "join"
    /\ writers = {}
    /\ tpc' = "result"
    /\ UNCHANGED <<traceeVars, tracee_pid, child, status, entered_syscalls, reason, outcome,
                   run, shown>>

\* A relay thread returns the error of its stream; a thread behind it in the order of
\* joining is not waited for, whoever holds a write end.
JoinFails ==
    /\ RelayMayFail
    /\ tpc = "join"
    /\ TraceError("relay")
    /\ UNCHANGED entered_syscalls

\* Broken: the error file is not read.
ErrorFileIgnored ==
    /\ tpc = "result"
    /\ outcome' = IF reason # "none" THEN "trace_error" ELSE "verdict"
    /\ tpc' = "returned"
    /\ UNCHANGED <<traceeVars, tracee_pid, child, status, entered_syscalls, reason, run, shown>>

\* fork_with_child_errors reads the error file: a child error replaces whatever
\* the parent's closure returned.
ReturnFromRun ==
    /\ tpc = "result"
    /\ outcome' = IF child = "failed" THEN "child_error"
                  ELSE IF reason # "none" THEN "trace_error" ELSE "verdict"
    /\ tpc' = "returned"
    /\ UNCHANGED <<traceeVars, tracee_pid, child, status, entered_syscalls, reason, run, shown>>

\* Broken: the entered syscalls of the run before are kept.
TracerIsReused(c) ==
    /\ tpc = "returned"
    /\ outcome = "verdict"
    /\ run < MaxRuns
    /\ Spawn(c)
    /\ tracee_pid' = c
    /\ child' = "starting"
    /\ tpc' = "waitpid"
    /\ status' = NoStatus
    /\ reason' = "none"
    /\ outcome' = "none"
    /\ run' = run + 1
    /\ shown' = [p \in Pid |-> <<>>]
    /\ UNCHANGED entered_syscalls

\* The next test of the file gets a new Tracer.
StartRun(c) ==
    /\ tpc = "returned"
    /\ outcome = "verdict"
    /\ run < MaxRuns
    /\ Spawn(c)
    /\ tracee_pid' = c
    /\ child' = "starting"
    /\ tpc' = "waitpid"
    /\ status' = NoStatus
    /\ entered_syscalls' = [p \in Pid |-> NoSyscall]
    /\ reason' = "none"
    /\ outcome' = "none"
    /\ run' = run + 1
    /\ shown' = [p \in Pid |-> <<>>]

Finished ==
    /\ tpc = "returned"
    /\ UNCHANGED vars

-----------------------------------------------------------------------------
Init ==
    \E c \in Pid :
        /\ pstate = [p \in Pid |-> IF p = c THEN "boot" ELSE "none"]
        /\ sys = [p \in Pid |-> NoSyscall]
        /\ parent = [p \in Pid |-> NoPid]
        /\ fuel = [p \in Pid |-> IF p = c THEN Fuel ELSE 0]
        /\ faulting = {}
        /\ writers = {c}
        /\ used = {c}
        /\ suspect = {}
        /\ tracee_pid = c
        /\ child = "starting"
        /\ tpc = "waitpid"
        /\ status = NoStatus
        /\ entered_syscalls = [p \in Pid |-> NoSyscall]
        /\ reason = "none"
        /\ outcome = "none"
        /\ run = 1
        /\ shown = [p \in Pid |-> <<>>]

HandleStatus(p) ==
    \/ HandleExecveEnter(p) \/ HandleGetcwdExit(p) \/ HandleStatExit(p)
    \/ HandleOtherSyscall(p) \/ HandleOtherStop(p) \/ HandleExited(p) \/ RootExited(p)
    \/ WrongSyscall(p) \/ TraceeVanished(p)

TracerStep ==
    \/ WaitForChild \/ ChildNeverStopped
    \/ \E p \in Pid : Wait(p) \/ HandleStatus(p)
    \/ JoinStreams \/ ReturnFromRun
    \/ \E c \in Pid : StartRun(c)

Next ==
    \/ \E p \in Pid : ProcessStep(p) \/ Signalled(p) \/ Killed(p)
    \/ TracerStep
    \/ \E p \in Pid : MockFailsAtSyscall(p) \/ MockFailsAtExited(p)
    \/ JoinFails
    \/ Finished

Spec == Init /\ [][Next]_vars

-----------------------------------------------------------------------------
InSyscall(p) == pstate[p] \in {"kernel", "forked", "event", "exit"}

\* What the mock is due to have been told of p's current or last syscall.
Due(p) ==
    IF sys[p] = "execve" /\ ~IsRoot(p) /\ pstate[p] # "enter" THEN <<"execve_enter">>
    ELSE IF sys[p] = "getcwd" /\ pstate[p] \notin {"enter", "kernel", "exit"} THEN <<"getcwd_exit">>
    ELSE IF sys[p] = "stat" /\ pstate[p] \notin {"enter", "kernel", "exit"} THEN <<"stat_exit">>
    ELSE <<>>

(***************************************************************************)
(* entered_syscalls agrees with the kernel: as long as trace did not give  *)
(* up, it holds a syscall for exactly the processes that are inside one.   *)
(* Entry and exit stops look alike, so one stop missed or counted twice    *)
(* turns every later entry of that process into an exit.  It is not true   *)
(* of a process with a used pid or from an earlier run (suspect).          *)
(***************************************************************************)
PhaseAgrees ==
    reason = "none" =>
        \A p \in Pid \ suspect : Alive(p) =>
            entered_syscalls[p] = IF InSyscall(p) THEN sys[p] ELSE NoSyscall

(***************************************************************************)
(* The mock is told of every execve of a process other than the root       *)
(* exactly once, before the kernel executes it, and of every getcwd and    *)
(* stat exactly once, when the result is there to be replaced and before   *)
(* the process reads it; it is never told of an execve of the root.        *)
(***************************************************************************)
ShownExactlyOnce ==
    reason = "none" => \A p \in Pid \ suspect : Alive(p) => shown[p] = Due(p)

(***************************************************************************)
(* A failure of the child before or in its execve is reported, although    *)
(* that child exits with 0 and looks to the tracing loop like a script     *)
(* that succeeds: a run gives a verdict only if the script was started, or *)
(* the child could not write its error file either.                        *)
(***************************************************************************)
FailedStartIsReported == outcome = "verdict" => child \in {"script", "unreported"}

(***************************************************************************)
(* A run ends after its script did, and what it leaves for the wait of the *)
(* next run are processes that outlived their parents, and what descends   *)
(* from them.                                                              *)
(***************************************************************************)
OnlyOrphansLeft ==
    outcome = "verdict" =>
        /\ ~Exists(tracee_pid)
        /\ (\E p \in Pid : Exists(p)) => \E p \in Pid : Exists(p) /\ parent[p] = NoPid

(***************************************************************************)
(* "exiting with the wrong syscall" needs a process with a used pid or     *)
(* from an earlier run.                                                    *)
(***************************************************************************)
WrongSyscallOnlyIfSuspect == reason = "wrong_syscall" => suspect # {}
=============================================================================
