---------------------------- MODULE MCTestChecker ----------------------------
(***************************************************************************)
(* TestChecker on every test of up to MaxSteps steps: a matcher for one    *)
(* command and one, like a regular expression, for two; two outputs; two   *)
(* exit codes.                                                             *)
(***************************************************************************)
EXTENDS TestChecker

CONSTANTS build, push, echo, exact, regex, silent, text, MaxSteps

Commands == {build, push, echo}
Matchers == {exact, regex}
AcceptedBy == [m \in Matchers |-> IF m = exact THEN {build} ELSE {build, push}]
Outputs == {silent, text}

Steps == [matcher : Matchers, stdout : Outputs, exitcode : {0, 1}]
Tests ==
    [steps : UNION {[1..n -> Steps] : n \in 0..MaxSteps}, exitcode : {0, 1, NoValue},
     stdout : Outputs \cup {NoValue}, stderr : {text, NoValue}]
=============================================================================
