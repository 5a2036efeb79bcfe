--------------------------- MODULE CommandMatcher ---------------------------
(***************************************************************************)
(* The two kinds of matchers of src/src/test_spec/command_matcher.rs: the  *)
(* exact ones of CommandMatching, and regular expressions, which are given *)
(* the text of a command as it is formatted on the machine.                *)
(***************************************************************************)
EXTENDS CommandMatching, AnchoredRegex

CONSTANTS
    NoArguments,    \* the empty list of arguments
    NoRegex,
    MaxRegex        \* bound on the length of an alternative

VARIABLES
    regex,          \* the alternatives of the regex that was tried, or NoRegex
    matches         \* what is_match answered, or "unknown"

matcherVars == <<matchVars, regex, matches>>

ASSUME MatcherAssumption ==
    /\ NoArguments \in Arguments
    /\ Letters = Directories \cup Names \cup (Arguments \ {NoArguments})

Alternatives == UNION {[1..n -> Letters \cup {AnyText}] : n \in 0..MaxRegex}

\* Command::format: the directory, the name and the arguments, a letter each.
Text(c) ==
    (IF c.executable.dir = Bare THEN <<>> ELSE <<c.executable.dir>>)
        \o <<c.executable.name>>
        \o (IF c.arguments = NoArguments THEN <<>> ELSE <<c.arguments>>)

\* The text that a matcher gets of the script's command.
Formatted == Text(Format(machine, Executed(machine, script)))

-----------------------------------------------------------------------------
MatcherInit ==
    /\ Init
    /\ regex = NoRegex
    /\ matches = "unknown"

\* CommandMatcher::matches of an exact matcher.
MatchExact ==
    /\ matches = "unknown"
    /\ Next
    /\ UNCHANGED <<regex, matches>>

\* CommandMatcher::matches of a regex.
MatchRegex(r) ==
    /\ stage = "new"
    /\ matches = "unknown"
    /\ regex' = r
    /\ matches' = IF IsMatch(r, Formatted) THEN "yes" ELSE "no"
    /\ UNCHANGED matchVars

Matched == matches # "unknown" /\ UNCHANGED matcherVars

MatcherNext ==
    \/ MatchExact
    \/ \E r \in Alternatives : MatchRegex(<<r>>)
    \/ \E r1, r2 \in Alternatives : MatchRegex(<<r1, r2>>)
    \/ Matched

MatcherSpec == MatcherInit /\ [][MatcherNext]_matcherVars

-----------------------------------------------------------------------------
(***************************************************************************)
(* An expression matches only entire commands: no command with more        *)
(* arguments than the expression has passes for the expected one.          *)
(***************************************************************************)
MatchesEntireCommand == matches = "yes" => InLanguage(regex, Formatted)

(***************************************************************************)
(* That holds of an expression without alternatives.                       *)
(***************************************************************************)
SingleMatchesEntireCommand ==
    regex # NoRegex /\ Len(regex) = 1 => MatchesEntireCommand

(***************************************************************************)
(* Anchoring excludes no command that the expression describes.            *)
(***************************************************************************)
AllOfTheLanguage == matches = "no" => ~InLanguage(regex, Formatted)

(***************************************************************************)
(* A command that a script runs by its name is matched by its name: the    *)
(* answer does not depend on the PATH of the machine.                      *)
(***************************************************************************)
RegexSeesName ==
    matches # "unknown" /\ script.executable.dir = Bare =>
        (matches = "yes" <=> IsMatch(regex, Text(script)))
=============================================================================
