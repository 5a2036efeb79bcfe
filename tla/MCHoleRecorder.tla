--------------------------- MODULE MCHoleRecorder ---------------------------
(***************************************************************************)
(* HoleRecorder on tests of up to MaxSteps steps before the hole.          *)
(***************************************************************************)
EXTENDS HoleRecorderInvariant, TLC

CONSTANTS build, push, echo, isBuild, isPush, isEcho, regex, silent, MaxSteps

AllCommands == {build, push, echo}
Matchers == {isBuild, isPush, isEcho, regex}
ExactMatches == [c \in AllCommands |->
    IF c = build THEN isBuild ELSE IF c = push THEN isPush ELSE isEcho]
AcceptedBy == [m \in Matchers |->
    IF m = regex THEN {build, push} ELSE {c \in AllCommands : ExactMatches[c] = m}]

Steps ==
    {[matcher |-> isBuild, stdout |-> silent, exitcode |-> 0],
     [matcher |-> regex, stdout |-> silent, exitcode |-> 3]}
Tests(exitcodes) ==
    [steps : UNION {[1..n -> Steps] : n \in 0..MaxSteps}, exitcode : exitcodes,
     stdout : {NoValue}, stderr : {NoValue}]
AnyTest == Tests({1, NoValue})

\* The processes are interchangeable.
Permuted == Permutations(Pid)
=============================================================================
