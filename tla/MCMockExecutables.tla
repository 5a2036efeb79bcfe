-------------------------- MODULE MCMockExecutables --------------------------
(***************************************************************************)
(* MockExecutables with words of four bytes.  Two commands: b, whose path  *)
(* is shorter than a word and has an argument right behind it, and d, at   *)
(* the very end of the memory, where no whole word is left.                *)
(***************************************************************************)
EXTENDS MockExecutables, TLC

CONSTANTS k1, k2

b == 33
c == 34
d == 35
slash == 36

\* from  1: b and ccccc, the path and an argument    from  9: argv of the first command
\* from 21: a buffer for getcwd                      from 29: a st_mode, what follows it
\* from 33: argv and path of the second command
MCImage ==
    << b, 0, c, c, c, c, c, 0,
       1, 0, 0, 0,   3, 0, 0, 0,   0, 0, 0, 0,
       7, 7, 7, 7, 7, 7, 7, 7,
       8, 8, 9, 9,
       41, 0, 0, 0,  0, 0, 0, 0,  d, 0 >>

MCTaken == {<<1, 2>>}
MCOthers == {<<1, 1>>}
\* Bound: one of these in a behaviour.  The script makes a query; there is a second
\* scriptkeeper; the first one fails or is killed; a cleaner removes a file.
MCRare ==
    << queries > 0,
       created[k2] > 0 \/ pc[k2] # "idle",
       queries = 0 /\ failure[k1] \in {"io", "killed"},
       cleaned # {} >>
MCBound == \A i, j \in DOMAIN MCRare : MCRare[i] /\ MCRare[j] => i = j
MCCreated == (k1 :> 2) @@ (k2 :> 1)
MCCall == {[path |-> 1, argv |-> 9], [path |-> 41, argv |-> 33]}
MCBuffer == {[at |-> 21, size |-> 4], [at |-> 21, size |-> 5], [at |-> 21, size |-> 8]}
MCStat == {29}
MCReal == <<c>>
MCMock == <<d, d, d, d>>
Symmetric == Permutations(Process)
=============================================================================
