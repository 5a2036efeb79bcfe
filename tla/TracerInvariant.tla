-------------------------- MODULE TracerInvariant --------------------------
(***************************************************************************)
(* The inductive strengthening of the safety invariants of Tracer.         *)
(***************************************************************************)
EXTENDS Tracer

\* A process that exists has a used pid, and the tables know only used pids.
PidsUsed ==
    /\ \A p \in Pid : Exists(p) => p \in used
    /\ \A p \in Pid \ used : entered_syscalls[p] = NoSyscall

\* A process in or at the border of a syscall has one; only a fork forks.
SyscallKnown ==
    \A p \in Pid :
        /\ InSyscall(p) \/ pstate[p] = "enter" => sys[p] \in Syscall
        /\ pstate[p] \in {"forked", "event"} => sys[p] = "fork"

\* While the tracer has a stop in hand the process stays in it, unless killed.
\* (The pid of a process killed and reaped may name a new one.)
StatusHolds ==
    tpc = "handle" =>
        /\ status.pid \in Pid
        /\ status.kind = "PtraceSyscall" => pstate[status.pid] \in {"enter", "exit", "killed"}
        /\ status.kind = "PtraceEvent" => pstate[status.pid] \in {"event", "killed"}
        /\ status.kind = "Stopped" => pstate[status.pid] \in {"stop", "killed"}
        /\ status.kind = "Signaled" => pstate[status.pid] \in {"none", "stop", "killed"}

\* Before the tracer's first wait the root tracee went no further than SIGSTOP.
RootBeforeWait ==
    tpc = "waitpid" => pstate[tracee_pid] \in {"boot", "stop", "exited", "killed"}

\* trace returns at its first error, and a run has an outcome when it returned.
ErrorEndsTrace ==
    /\ reason # "none" => tpc \in {"result", "returned"}
    /\ outcome # "none" => tpc = "returned"

\* Until its execve returns the root tracee makes no other syscall, so it cannot
\* exit normally: a root tracee that exited started the script or failed, and a failure
\* it reported is no verdict.
StartingRoot ==
    /\ pstate[tracee_pid] = "boot" => child = "starting"
    /\ child = "starting" =>
        /\ pstate[tracee_pid] \in {"boot", "stop", "user", "enter", "kernel", "killed", "none"}
        /\ pstate[tracee_pid] \in {"enter", "kernel"} => sys[tracee_pid] = "execve"
        /\ ~ (tpc = "handle" /\ status.pid = tracee_pid /\ status.kind = "Exited")
        /\ tpc # "join"
        /\ tpc = "result" => reason # "none"
    /\ outcome = "verdict" => child \in {"script", "unreported"} /\ reason = "none"

(***************************************************************************)
(* The inductive invariant: the pieces of state the tracer keeps about its *)
(* tracees fit what the kernel does with them.                             *)
(***************************************************************************)
IInv ==
    /\ TypeOK
    /\ PidsUsed
    /\ SyscallKnown
    /\ StatusHolds
    /\ RootBeforeWait
    /\ ErrorEndsTrace
    /\ StartingRoot
    /\ PhaseAgrees
    /\ ShownExactlyOnce
    /\ WrongSyscallOnlyIfSuspect

(***************************************************************************)
(* The strengthening of OnlyOrphansLeft.  The root tracee is gone once its *)
(* exit was waited for, and its pid names no other process.                *)
(***************************************************************************)
RootGone ==
    \/ tpc = "handle" /\ status.pid = tracee_pid /\ status.kind = "Exited"
    \/ tpc \in {"join", "result", "returned"} /\ reason = "none"
    => ~Exists(tracee_pid)

\* A parent is alive, and only what exists has one.
ParentsLive ==
    \A p \in Pid : parent[p] # NoPid => Exists(p) /\ Alive(parent[p])

\* Nobody is an ancestor of itself: in each set of processes one is the eldest.
Forest ==
    \A S \in SUBSET Pid : S # {} => \E p \in S : parent[p] \notin S

FamilyInv == RootGone /\ ParentsLive /\ Forest
=============================================================================
