------------------------------ MODULE MCTracer ------------------------------
(***************************************************************************)
(* Tracer on small instances: two or three pids, a few syscalls each.      *)
(***************************************************************************)
EXTENDS TracerInvariant, TLC

\* Without stat, which the tracer treats like getcwd.
MostCalls == Syscall \ {"stat"}

\* The pids are interchangeable.
Permuted == Permutations(Pid)
=============================================================================
