------------------------- MODULE MockedRunInvariant -------------------------
(***************************************************************************)
(* The inductive strengthening of the safety invariants of MockedRun, on   *)
(* top of the one of Tracer.  A pid may name one process after another:    *)
(* what Tracer says of processes that are not suspect is here said of all, *)
(* since in MockedRun processes end by exit_group only.                    *)
(***************************************************************************)
EXTENDS MockedRun

(***************************************************************************)
(* entered_syscalls knows the syscall of each process that is inside one.  *)
(* Of the process before, its last exit_group may be left; then the next   *)
(* syscall of its successor is taken for the end of that exit_group.       *)
(***************************************************************************)
EntryOf(p) ==
    IF ~InSyscall(p) THEN {NoSyscall, "exit_group"}
    ELSE IF sys[p] = "exit_group" THEN {NoSyscall, "exit_group"} ELSE {sys[p]}

EntriesKnown == reason = "none" => \A p \in Pid : entered_syscalls[p] \in EntryOf(p)

\* A process that is stopped outside of a syscall has not made one yet.
NoSyscallYet == \A p \in Pid : pstate[p] \in {"none", "boot", "stop"} => sys[p] = NoSyscall

\* What the mock and the processes know has its type.
MockTypeOK ==
    /\ received \in Seq(Command)
    /\ ends_with_hole \in BOOLEAN
    /\ mode \in {"checker", "recorder"}
    /\ image \in [Pid -> {"none", "script", "mock"} \cup Command]
    /\ arg \in [Pid -> {NoArg, "mock"} \cup Command \cup File]
    /\ answer \in [Pid -> {"none", "real", "mocked"}]
    /\ executed \in [Command -> Nat]

\* The steps were used up by what the test expects.
AtTheHole == ends_with_hole /\ steps = <<>> /\ result = C!Pass

RecorderAtHole == mode = "recorder" => AtTheHole

\* An execve that asks for a command, and one that the mock has seen.
Asking(p)   == pstate[p] = "enter" /\ sys[p] = "execve" /\ ~IsRoot(p)
Answered(p) == pstate[p] = "kernel" /\ sys[p] = "execve" /\ ~IsRoot(p)

\* What the kernel is asked to execute, and after the callback what the mock made
\* of it.
ArgumentsKnown ==
    \A p \in Pid :
        /\ Asking(p) => arg[p] \in Command
        /\ Answered(p) => arg[p] \in {"mock"} \cup Command
        /\ Answered(p) /\ arg[p] \in Command \ Unmocked => AtTheHole

\* The strengthening of CommandsAreMocked.
MockingInv ==
    /\ MockTypeOK
    /\ EntriesKnown
    /\ RecorderAtHole
    /\ ArgumentsKnown
    /\ CommandsAreMocked

(***************************************************************************)
(* The strengthening of AnswersAreMocked: what the kernel answered is      *)
(* still there when the callback gets the chance to replace it.            *)
(***************************************************************************)
AnswersReal ==
    \A p \in Pid : pstate[p] = "exit" /\ sys[p] \in {"getcwd", "stat"} => answer[p] = "real"

AnswersInv == NoSyscallYet /\ AnswersReal /\ AnswersAreMocked

(***************************************************************************)
(* The strengthening of EveryCommandChecked: the executions of a command   *)
(* that were not checked yet are those that wait for the tracer.           *)
(***************************************************************************)
Pending(c) == {p \in Pid : Asking(p) /\ arg[p] = c}

CountsAgree ==
    ~ends_with_hole => \A c \in Command \ Unmocked :
        IsFiniteSet(Pending(c)) /\ executed[c] = Times(c) + Cardinality(Pending(c))

\* No process outlives its parent, if a process only exits when its children ended.
NoOrphans ==
    \A p \in Pid : Exists(p) /\ ~IsRoot(p) => parent[p] # NoPid

\* A process that has not started or is about to exit has no children.
ExitsAlone ==
    \A p \in Pid :
        pstate[p] = "boot" \/ (sys[p] = "exit_group" /\ pstate[p] \in {"enter", "kernel"})
            => ~HasChildren(p)

FamilyStays == NoOrphans /\ ExitsAlone

(***************************************************************************)
(* The strengthening of PassNeedsScript: scriptkeeper's own code in the    *)
(* root tracee forks no process and asks the mock for nothing, so the      *)
(* steps are all left at the end.                                          *)
(***************************************************************************)
Unstarted ==
    /\ \A p \in Pid : Exists(p) => IsRoot(p)
    /\ sys[tracee_pid] # "fork"
    /\ tpc \notin {"result", "returned"} => steps = test.steps

UnstartedInv ==
    /\ child # "script" => Unstarted
    /\ child = "starting" => verdict = NoValue
    /\ child = "unreported" /\ verdict = C!Pass => test.steps = <<>> /\ test.exitcode = 1
=============================================================================
