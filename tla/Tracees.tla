------------------------------ MODULE Tracees ------------------------------
(***************************************************************************)
(* The traced processes as the kernel runs them.  None of this is code of  *)
(* scriptkeeper: it is what the loop of src/src/tracer/mod.rs relies on    *)
(* when it calls fork, wait and ptrace.  A tracee stops when it enters and *)
(* when it leaves a syscall, when a signal is about to be delivered, when  *)
(* it has forked (PTRACE_O_TRACEFORK), and at the start of its life when   *)
(* its parent was traced; it stays stopped until the tracer resumes it.    *)
(*                                                                         *)
(* The data of a syscall is left out; Tracer and MockedRun add what they   *)
(* tell apart.  Threads are left out too (PTRACE_O_TRACECLONE is not set). *)
(***************************************************************************)
EXTENDS Naturals

CONSTANTS
    Pid,          \* process ids the kernel may hand out
    NoPid,        \* no process
    NoSyscall,    \* no syscall
    Calls,        \* the syscalls the tracees make
    Fuel,         \* bound on the syscalls and signals of one process
    PidReuse,     \* may the kernel reuse a pid within a run?
    Kills,        \* may somebody SIGKILL a tracee?
    Faults,       \* may a tracee execute a faulting instruction?
    Background    \* may a process exit while a child of it still exists?

(***************************************************************************)
(* The syscalls the tracer and its mocks tell apart.  "fork" stands for    *)
(* fork, vfork and a clone that makes a process, "other" for the rest.     *)
(***************************************************************************)
Syscall == {"execve", "fork", "exit_group", "getcwd", "stat", "other"}

ASSUME TraceesAssumption ==
    /\ NoPid \notin Pid
    /\ NoSyscall \notin Syscall
    /\ {"execve", "exit_group"} \subseteq Calls
    /\ Calls \subseteq Syscall
    /\ Fuel \in Nat \ {0}
    /\ {PidReuse, Kills, Faults, Background} \subseteq BOOLEAN

VARIABLES
    pstate,       \* what each process is doing, see ProcessState
    sys,          \* the syscall it is in, or made last
    parent,       \* its parent
    fuel,         \* the syscalls and signals it has left
    faulting,     \* the processes that re-execute a faulting instruction
    writers,      \* the processes that hold a write end of the run's pipes
    used,         \* pids that belonged to some process during this run
    suspect       \* processes that carry the pid of an earlier process of this
                  \* run or that stem from an earlier run

treeVars == <<parent, fuel, faulting, writers>>
traceeVars == <<pstate, sys, parent, fuel, faulting, writers, used, suspect>>

(***************************************************************************)
(* none     no such process            boot     before its first SIGSTOP   *)
(* user     runs its own code          kernel   runs inside a syscall      *)
(* forked   inside fork, child made    enter    stopped entering a syscall *)
(* exit     stopped leaving a syscall  stop     stopped by a signal        *)
(* event    stopped by PTRACE_EVENT    exited, killed   a zombie           *)
(***************************************************************************)
Running  == {"boot", "user", "kernel", "forked"}
Stopped  == {"enter", "exit", "stop", "event"}
Zombie   == {"exited", "killed"}
ProcessState == {"none"} \cup Running \cup Stopped \cup Zombie

Alive(p)  == pstate[p] \in Running \cup Stopped
Exists(p) == pstate[p] # "none"

TraceesTypeOK ==
    /\ pstate \in [Pid -> ProcessState]
    /\ sys \in [Pid -> Syscall \cup {NoSyscall}]
    /\ parent \in [Pid -> Pid \cup {NoPid}]
    /\ fuel \in [Pid -> 0..Fuel]
    /\ faulting \subseteq Pid
    /\ writers \subseteq Pid
    /\ used \subseteq Pid
    /\ suspect \subseteq Pid

HasChildren(p) == \E c \in Pid : Exists(c) /\ parent[c] = p

(***************************************************************************)
(* What a process does by itself.                                          *)
(***************************************************************************)
\* A new tracee raises SIGSTOP to itself.
FirstStop(p) ==
    /\ pstate[p] = "boot"
    /\ pstate' = [pstate EXCEPT ![p] = "stop"]
    /\ UNCHANGED <<sys, parent, fuel, faulting, writers, used, suspect>>

EnterSyscall(p, s) ==
    /\ pstate[p] = "user"
    /\ p \notin faulting
    /\ s = "exit_group" => Background \/ ~HasChildren(p)
    /\ s # "exit_group" => fuel[p] > 0
    /\ pstate' = [pstate EXCEPT ![p] = "enter"]
    /\ sys' = [sys EXCEPT ![p] = s]
    /\ fuel' = [fuel EXCEPT ![p] = IF s = "exit_group" THEN @ ELSE @ - 1]
    /\ UNCHANGED <<parent, faulting, writers, used, suspect>>

\* The fork event stops the parent; the child starts its life stopped.
ForkChild(p, c) ==
    /\ pstate[p] = "kernel"
    /\ sys[p] = "fork"
    /\ pstate[c] = "none"
    /\ PidReuse \/ c \notin used
    /\ pstate' = [pstate EXCEPT ![p] = "event", ![c] = "stop"]
    /\ sys' = [sys EXCEPT ![c] = NoSyscall]
    /\ parent' = [parent EXCEPT ![c] = p]
    /\ fuel' = [fuel EXCEPT ![c] = fuel[p]]
    /\ writers' = IF p \in writers THEN writers \cup {c} ELSE writers
    /\ used' = used \cup {c}
    /\ suspect' = IF c \in used \/ p \in suspect THEN suspect \cup {c} ELSE suspect
    /\ UNCHANGED faulting

\* A syscall returns; one of the "other" ones may have redirected the process's
\* output away from the pipes.  A fork that fails returns without an event.
CompleteSyscall(p) ==
    /\ \/ pstate[p] = "forked"
       \/ pstate[p] = "kernel" /\ sys[p] # "exit_group"
    /\ pstate' = [pstate EXCEPT ![p] = "exit"]
    /\ \/ UNCHANGED writers
       \/ sys[p] = "other" /\ writers' = writers \ {p}
    /\ UNCHANGED <<sys, parent, fuel, faulting, used, suspect>>

\* A process ends: its descriptors are closed, its children have no parent.
Ends(p, how) ==
    /\ pstate' = [pstate EXCEPT ![p] = how]
    /\ writers' = writers \ {p}
    /\ parent' = [c \in Pid |-> IF parent[c] = p THEN NoPid ELSE parent[c]]
    /\ UNCHANGED <<sys, fuel, faulting, used, suspect>>

ExitProcess(p) ==
    /\ pstate[p] = "kernel"
    /\ sys[p] = "exit_group"
    /\ Ends(p, "exited")

\* A signal is about to be delivered (the SIGTRAP after an execve is one).
Signal(p) ==
    /\ pstate[p] = "user"
    /\ p \notin faulting
    /\ fuel[p] > 0
    /\ pstate' = [pstate EXCEPT ![p] = "stop"]
    /\ fuel' = [fuel EXCEPT ![p] = @ - 1]
    /\ UNCHANGED <<sys, parent, faulting, writers, used, suspect>>

\* The instruction faults each time it is executed; the first time counts as a
\* signal for the bound.
Fault(p) ==
    /\ Faults
    /\ p \in faulting \/ fuel[p] > 0
    /\ pstate[p] = "user"
    /\ pstate' = [pstate EXCEPT ![p] = "stop"]
    /\ faulting' = faulting \cup {p}
    /\ UNCHANGED <<sys, parent, fuel, writers, used, suspect>>

Kill(p) ==
    /\ Kills
    /\ Alive(p)
    /\ Ends(p, "killed")

(***************************************************************************)
(* What the tracer does to a process: ptrace(PTRACE_SYSCALL) without a     *)
(* signal resumes it, a wait that returns its exit removes it.             *)
(***************************************************************************)
Resumed(state) ==
    IF state = "enter" THEN "kernel" ELSE IF state = "event" THEN "forked" ELSE "user"

Resume(p) ==
    /\ pstate[p] \in Stopped
    /\ pstate' = [pstate EXCEPT ![p] = Resumed(@)]
    /\ UNCHANGED <<sys, parent, fuel, faulting, writers, used, suspect>>

Reap(p) ==
    /\ pstate[p] \in Zombie
    /\ pstate' = [pstate EXCEPT ![p] = "none"]
    /\ sys' = [sys EXCEPT ![p] = NoSyscall]
    /\ parent' = [parent EXCEPT ![p] = NoPid]
    /\ fuel' = [fuel EXCEPT ![p] = 0]
    /\ faulting' = faulting \ {p}
    /\ UNCHANGED <<writers, used, suspect>>

\* The tracer forks the process that will run the script.  Whatever an earlier
\* run left is still this tracer's to wait for.
Spawn(c) ==
    LET leftover == {p \in Pid : Exists(p)} IN
    /\ ~Exists(c)
    /\ pstate' = [pstate EXCEPT ![c] = "boot"]
    /\ sys' = [sys EXCEPT ![c] = NoSyscall]
    /\ parent' = [parent EXCEPT ![c] = NoPid]
    /\ fuel' = [fuel EXCEPT ![c] = Fuel]
    /\ writers' = {c}
    /\ used' = leftover \cup {c}
    /\ suspect' = leftover
    /\ UNCHANGED faulting
=============================================================================
