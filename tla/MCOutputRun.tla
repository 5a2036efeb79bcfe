----------------------------- MODULE MCOutputRun -----------------------------
(***************************************************************************)
(* OutputRun on scripts that write a few bytes, through pipes for one byte *)
(* or two.                                                                 *)
(***************************************************************************)
EXTENDS OutputRun, TLC

WritingCalls == {"execve", "fork", "other", "exit_group"}
Bytes == 1..8
=============================================================================
