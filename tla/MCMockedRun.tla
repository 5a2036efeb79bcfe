----------------------------- MODULE MCMockedRun -----------------------------
(***************************************************************************)
(* MockedRun on tests that expect build, nothing, or nothing and the exit  *)
(* code 1, and leave push unmocked.                                        *)
(***************************************************************************)
EXTENDS MockedRunInvariant, TLC

CONSTANTS build, push, isBuild

MostCalls == Syscall \ {"other"}

Commands == {build, push}
AcceptedBy == [m \in {isBuild} |-> {build}]
Steps == [matcher : {isBuild}, stdout : {NoOutput}, exitcode : {0}]
Tests ==
    [steps : UNION {[1..n -> Steps] : n \in 0..1}, exitcode : {NoValue},
     stdout : {NoValue}, stderr : {NoValue}]
    \cup {[steps |-> <<>>, exitcode |-> 1, stdout |-> NoValue, stderr |-> NoValue]}

\* Bound: only two processes, which executed no command to be mocked so far, ask
\* for their directory or for files.
FewQueries ==
    (\E p \in Pid : sys[p] \in {"getcwd", "stat"}) =>
        /\ executed[build] = 0
        /\ used # Pid

\* Bound: the root tracee executes a command only before it has forked.
RootExecsFirst == arg[tracee_pid] \in Command => used = {tracee_pid}

Permuted == Permutations(Pid)
=============================================================================
