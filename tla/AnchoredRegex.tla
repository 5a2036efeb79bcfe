---------------------------- MODULE AnchoredRegex ----------------------------
(***************************************************************************)
(* The regular expressions of src/src/test_spec/command_matcher.rs.  The   *)
(* raw expression of a test file is put between a ^ and a $ as text, so    *)
(* that in one with alternatives, r1|r2|...|rn, the ^ belongs to the first *)
(* of them and the $ to the last.                                          *)
(***************************************************************************)
EXTENDS Naturals, Sequences

CONSTANTS
    Letters,        \* what the texts of commands consist of
    AnyText         \* .*

ASSUME RegexAssumption == AnyText \notin Letters

\* r matches the text from position i on up to position j: cut[k] is where
\* the kth part of r ends.
MatchesAt(r, text, i, j) ==
    \E cut \in [0..Len(r) -> i..j] :
        /\ cut[0] = i /\ cut[Len(r)] = j
        /\ \A k \in 1..Len(r) :
            IF r[k] = AnyText THEN cut[k - 1] <= cut[k]
            ELSE cut[k] = cut[k - 1] + 1 /\ text[cut[k]] = r[k]

\* Broken: format!("^{}", raw_regex)
OnlyStartAnchored(r, text) ==
    \E n \in 1..Len(r) : \E i \in 0..Len(text) : \E j \in i..Len(text) :
        /\ n = 1 => i = 0
        /\ MatchesAt(r[n], text, i, j)

\* AnchoredRegex::new and is_match: format!("^{}$", raw_regex)
IsMatch(r, text) ==
    \E n \in 1..Len(r) : \E i \in 0..Len(text) : \E j \in i..Len(text) :
        /\ n = 1 => i = 0
        /\ n = Len(r) => j = Len(text)
        /\ MatchesAt(r[n], text, i, j)

\* The language of an expression.
InLanguage(r, text) == \E n \in 1..Len(r) : MatchesAt(r[n], text, 0, Len(text))
=============================================================================
