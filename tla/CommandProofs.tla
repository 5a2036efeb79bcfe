---------------------------- MODULE CommandProofs ----------------------------
(***************************************************************************)
(* Proofs about commands: CommandMatching, for any names, directories,     *)
(* arguments and machines; CommandMatcher, what the anchoring of regular   *)
(* expressions does, for any alphabet, PATH and expression; CommandLine,   *)
(* that formatted commands are parsed back, for texts of any length.       *)
(***************************************************************************)
EXTENDS CommandMatcher, CommandLine, SequenceTheorems, WellFoundedInduction, TLAPS

-----------------------------------------------------------------------------
(***************************************************************************)
(* Exact matchers.                                                         *)
(***************************************************************************)
\* Two executables have the same canonical form exactly if they denote the same file.
LEMMA CanonicalFormIsFile ==
    ASSUME NEW m \in Machines, NEW a \in Executables, NEW b \in Executables
    PROVE  CompareExecutables(m, a, b) <=> Resolve(m, a) = Resolve(m, b)
BY MatchingAssumption DEF CompareExecutables, Canonicalize, Resolve, Executables, Machines

\* Executing a command that was looked up already changes nothing.
LEMMA ExecutedType ==
    ASSUME NEW m \in Machines, NEW c \in Commands
    PROVE  /\ Executed(m, c) \in Commands
           /\ Executed(m, c).executable = Resolve(m, c.executable)
           /\ Executed(m, c).arguments = c.arguments
BY MatchingAssumption DEF Executed, Resolve, Commands, Executables, Machines

LEMMA FormatType ==
    ASSUME NEW m \in Machines, NEW c \in Commands
    PROVE  Format(m, c) \in Commands
BY DEF Format, Canonicalize, Commands, Executables, Machines

\* What is looked up by its name is shortened to its name again.
LEMMA NameIsKept ==
    ASSUME NEW m \in Machines, NEW c \in Commands, c.executable.dir = Bare
    PROVE  Format(m, Executed(m, c)) = c
BY MatchingAssumption
DEF Format, Canonicalize, Executed, Commands, Executables, Machines

LEMMA MatchInvInit == Init => MatchInv
BY DEF Init, MatchInv, TypeOK, NamesAreRecorded

LEMMA MatchInvNext == MatchInv /\ [Next]_matchVars => MatchInv'
<1> SUFFICES ASSUME MatchInv, [Next]_matchVars PROVE MatchInv'
  OBVIOUS
<1> USE DEF MatchInv, TypeOK
<1>1. CASE Record
  <2>1. expected' \in Commands
    BY <1>1, ExecutedType, FormatType DEF Record
  <2>2. NamesAreRecorded'
    BY <1>1, NameIsKept DEF Record, NamesAreRecorded
  <2> QED BY <1>1, <2>1, <2>2 DEF Record
<1>2. CASE Check
  <2>1. verdict' \in BOOLEAN
    BY <1>2 DEF Check, Compare, CompareExecutables
  <2> QED BY <1>2, <2>1 DEF Check, NamesAreRecorded
<1>3. CASE Change
  BY <1>3 DEF Change, NamesAreRecorded
<1>4. CASE UNCHANGED matchVars
  BY <1>4 DEF matchVars, NamesAreRecorded
<1> QED BY <1>1, <1>2, <1>3, <1>4 DEF Next

LEMMA MatchInvHolds == Spec => []MatchInv
BY MatchInvInit, MatchInvNext, PTL DEF Spec

(***************************************************************************)
(* The verdict of the last comparison is the one that Check computed.      *)
(***************************************************************************)
Compared == stage = "compared" => verdict = Compare(machine, expected, Executed(machine, script))

LEMMA ComparedHolds == Spec => []Compared
<1>1. Init => Compared
  BY DEF Init, Compared
<1>2. Compared /\ [Next]_matchVars => Compared'
  BY DEF Compared, Next, Record, Check, Change, matchVars
<1> QED BY <1>1, <1>2, PTL DEF Spec

(***************************************************************************)
(* A command is the expected one exactly if the two denote the same file   *)
(* and the arguments are equal, on every machine.                          *)
(***************************************************************************)
THEOREM FilesCompared == Spec => []ComparesFiles
<1>1. MatchInv /\ Compared => ComparesFiles
  <2> SUFFICES ASSUME MatchInv, Compared, stage = "compared"
               PROVE  verdict <=>
                        /\ Resolve(machine, expected.executable)
                              = Resolve(machine, Executed(machine, script).executable)
                        /\ expected.arguments = script.arguments
    BY DEF ComparesFiles
  <2>1. verdict <=> Compare(machine, expected, Executed(machine, script))
    BY DEF Compared
  <2>2. /\ expected.executable \in Executables
        /\ Executed(machine, script).executable \in Executables
        /\ Executed(machine, script).arguments = script.arguments
    BY ExecutedType DEF MatchInv, TypeOK, Commands
  <2> QED BY <2>1, <2>2, CanonicalFormIsFile DEF Compare, MatchInv, TypeOK
<1> QED BY <1>1, MatchInvHolds, ComparedHolds, PTL

(***************************************************************************)
(* A script that runs a command by its name passes the test recorded from  *)
(* it on every machine that has the command.                               *)
(***************************************************************************)
THEOREM RecordingIsPortable == Spec => []NamesArePortable
<1>1. MatchInv /\ Compared => NamesArePortable
  <2> SUFFICES ASSUME MatchInv, Compared, stage = "compared", script = original,
                      original.executable.dir = Bare
               PROVE  verdict
    BY DEF NamesArePortable
  <2>1. expected = script /\ script \in Commands /\ machine \in Machines
    BY DEF MatchInv, TypeOK, NamesAreRecorded
  <2>2. script.executable \in Executables
    BY <2>1 DEF Commands
  <2>3. Executed(machine, script).executable = Resolve(machine, script.executable)
    BY <2>1, ExecutedType
  <2>4. Canonicalize(machine, Resolve(machine, script.executable))
            = Canonicalize(machine, script.executable)
    BY <2>1, <2>2, MatchingAssumption DEF Canonicalize, Resolve, Executables, Machines
  <2>5. Compare(machine, expected, Executed(machine, script))
    BY <2>1, <2>3, <2>4, ExecutedType DEF Compare, CompareExecutables
  <2> QED BY <2>5 DEF Compared
<1> QED BY <1>1, MatchInvHolds, ComparedHolds, PTL

-----------------------------------------------------------------------------
(***************************************************************************)
(* Regular expressions.                                                    *)
(***************************************************************************)
\* The text of a command has a length.
LEMMA TextIsSequence ==
    ASSUME NEW c \in Commands
    PROVE  Len(Text(c)) \in Nat
<1> DEFINE S == {c.executable.dir, c.executable.name, c.arguments}
           dir == IF c.executable.dir = Bare THEN <<>> ELSE <<c.executable.dir>>
           args == IF c.arguments = NoArguments THEN <<>> ELSE <<c.arguments>>
<1>1. dir \in Seq(S)
  <2>1. <<>> \in Seq(S) /\ <<c.executable.dir>> \in Seq(S)
    OBVIOUS
  <2> QED BY <2>1
<1>2. <<c.executable.name>> \in Seq(S)
  OBVIOUS
<1>3. args \in Seq(S)
  <2>1. <<>> \in Seq(S) /\ <<c.arguments>> \in Seq(S)
    OBVIOUS
  <2> QED BY <2>1
<1>4. Text(c) = dir \o <<c.executable.name>> \o args
  BY DEF Text
<1> HIDE DEF S, dir, args
<1>5. Text(c) \in Seq(S)
  BY <1>1, <1>2, <1>3, <1>4
<1> QED BY <1>5

\* Anchoring loses nothing: a text of the language is matched from 0 to its end.
LEMMA LanguageIsMatched ==
    ASSUME NEW r, NEW text, Len(text) \in Nat, InLanguage(r, text)
    PROVE  IsMatch(r, text)
<1>1. PICK n \in 1..Len(r) : MatchesAt(r[n], text, 0, Len(text))
  BY DEF InLanguage
<1>2. 0 \in 0..Len(text) /\ Len(text) \in 0..Len(text)
  OBVIOUS
<1> QED BY <1>1, <1>2 DEF IsMatch

\* The only alternative is the first and the last one, so that it has both anchors.
LEMMA SingleIsAnchored ==
    ASSUME NEW r, NEW text, Len(r) = 1, IsMatch(r, text)
    PROVE  InLanguage(r, text)
<1>1. PICK n \in 1..Len(r), i \in 0..Len(text) : \E j \in i..Len(text) :
        /\ n = 1 => i = 0
        /\ n = Len(r) => j = Len(text)
        /\ MatchesAt(r[n], text, i, j)
  BY DEF IsMatch
<1>2. n = 1 /\ i = 0
  BY <1>1
<1> QED BY <1>1, <1>2 DEF InLanguage

\* What is_match answered is about the regex and the command that are there.
Answered ==
    /\ matches \in {"unknown", "yes", "no"}
    /\ matches # "unknown" => (matches = "yes" <=> IsMatch(regex, Formatted))

LEMMA MatcherInvInit == MatcherInit => MatchInv /\ Answered
BY DEF MatcherInit, Init, MatchInv, TypeOK, NamesAreRecorded, Answered

LEMMA MatcherInvNext ==
    MatchInv /\ Answered /\ [MatcherNext]_matcherVars => (MatchInv /\ Answered)'
<1> SUFFICES ASSUME MatchInv, Answered, [MatcherNext]_matcherVars
             PROVE  (MatchInv /\ Answered)'
  OBVIOUS
<1>1. CASE MatchExact
  BY <1>1, MatchInvNext DEF MatchExact, Answered
<1>2. ASSUME NEW r, MatchRegex(r) PROVE (MatchInv /\ Answered)'
  <2>1. MatchInv'
    BY <1>2, MatchInvNext DEF MatchRegex
  <2>2. Formatted' = Formatted
    BY <1>2 DEF MatchRegex, Formatted, matchVars
  <2>3. Answered'
    BY <1>2, <2>2 DEF MatchRegex, Answered
  <2> QED BY <2>1, <2>3
<1>3. CASE UNCHANGED matcherVars
  <2>1. MatchInv'
    BY <1>3, MatchInvNext DEF matcherVars
  <2>2. Formatted' = Formatted /\ UNCHANGED <<regex, matches>>
    BY <1>3 DEF matcherVars, Formatted, matchVars
  <2> QED BY <2>1, <2>2 DEF Answered
<1> QED BY <1>1, <1>2, <1>3 DEF MatcherNext, Matched

LEMMA MatcherInvHolds == MatcherSpec => [](MatchInv /\ Answered)
BY MatcherInvInit, MatcherInvNext, PTL DEF MatcherSpec

\* The text a matcher gets has a length.
LEMMA FormattedIsSequence == MatchInv => Len(Formatted) \in Nat
BY ExecutedType, FormatType, TextIsSequence DEF MatchInv, TypeOK, Formatted

(***************************************************************************)
(* A regex without alternatives matches only entire commands: the ^ and    *)
(* the $ that AnchoredRegex::new adds are both its own.                    *)
(***************************************************************************)
THEOREM SingleIsEntire == MatcherSpec => []SingleMatchesEntireCommand
<1>1. MatchInv /\ Answered => SingleMatchesEntireCommand
  BY SingleIsAnchored DEF Answered, SingleMatchesEntireCommand, MatchesEntireCommand
<1> QED BY <1>1, MatcherInvHolds, PTL

(***************************************************************************)
(* The anchors exclude no command that the expression describes, with any  *)
(* number of alternatives.                                                 *)
(***************************************************************************)
THEOREM NothingIsMissed == MatcherSpec => []AllOfTheLanguage
<1>1. MatchInv /\ Answered => AllOfTheLanguage
  BY LanguageIsMatched, FormattedIsSequence DEF Answered, AllOfTheLanguage
<1> QED BY <1>1, MatcherInvHolds, PTL

(***************************************************************************)
(* A regex is given the name of a command that was run by its name: what   *)
(* it answers does not depend on the PATH.                                 *)
(***************************************************************************)
THEOREM RegexIsPortable == MatcherSpec => []RegexSeesName
<1>1. MatchInv /\ Answered => RegexSeesName
  BY NameIsKept DEF MatchInv, TypeOK, Answered, RegexSeesName, Formatted
<1> QED BY <1>1, MatcherInvHolds, PTL

-----------------------------------------------------------------------------
(***************************************************************************)
(* Texts.  FlattenSeq is a recursive function: what it computes is found   *)
(* by induction over the natural numbers, stated for a set.                *)
(***************************************************************************)
\* Induction over the natural numbers for a set.
LEMMA SetInduction ==
    ASSUME NEW S, 0 \in S, \A n \in Nat : n \in S => n + 1 \in S
    PROVE  Nat \subseteq S
<1> SUFFICES ASSUME Nat \ S # {} PROVE FALSE
  OBVIOUS
<1>1. PICK x \in Nat \ S : \A y \in Nat \ S : <<y, x>> \notin OpToRel(<, Nat)
  <2>1. Nat \ S \subseteq Nat
    OBVIOUS
  <2> QED BY <2>1, WFMin, NatLessThanWellFounded
<1>2. x \in Nat /\ x \notin S /\ x # 0 /\ x - 1 \in Nat /\ x - 1 < x /\ x - 1 + 1 = x
  <2>1. x \in Nat /\ x \notin S /\ x # 0
    OBVIOUS
  <2> QED BY <2>1
<1>3. <<x - 1, x>> \in OpToRel(<, Nat)
  BY <1>1, <1>2 DEF OpToRel
<1>4. x - 1 \in S
  BY <1>1, <1>2, <1>3
<1> QED BY <1>2, <1>4

\* What FlattenSeq computes, as a function.
Flattening(s, n, f) == f = [i \in 1..n |-> IF i = 1 THEN s[i] ELSE f[i-1] \o s[i]]

LEMMA FlatteningExists == ASSUME NEW s, NEW n \in Nat PROVE \E f : Flattening(s, n, f)
<1> DEFINE S == {k \in Nat : \E f : Flattening(s, k, f)}
<1>1. 0 \in S
  <2>1. Flattening(s, 0, [i \in {} |-> s])
    BY DEF Flattening
  <2> QED BY <2>1
<1>2. ASSUME NEW k \in Nat, k \in S PROVE k + 1 \in S
  <2>1. PICK f : Flattening(s, k, f)
    BY <1>2
  <2> DEFINE g == [i \in 1..k+1 |-> IF i = 1 THEN s[i] ELSE f[i-1] \o s[i]]
  <2>2. \A i \in 1..k : f[i] = g[i]
    <3>1. \A i \in 1..k : f[i] = IF i = 1 THEN s[i] ELSE f[i-1] \o s[i]
      BY <2>1, Zenon DEF Flattening
    <3>2. \A i \in 1..k : i \in 1..k+1
      OBVIOUS
    <3> QED BY <3>1, <3>2
  <2>3. \A i \in 1..k+1 : i # 1 => i - 1 \in 1..k
    OBVIOUS
  <2>4. \A i \in 1..k+1 : i # 1 => f[i-1] = g[i-1]
    BY <2>2, <2>3
  <2>5. g = [i \in 1..k+1 |-> IF i = 1 THEN s[i] ELSE g[i-1] \o s[i]]
    BY <2>4
  <2> HIDE DEF g
  <2>6. Flattening(s, k+1, g)
    BY <2>5 DEF Flattening
  <2> QED BY <2>6
<1> HIDE DEF S
<1>3. Nat \subseteq S
  BY <1>1, <1>2, SetInduction
<1> QED BY <1>3 DEF S

LEMMA FlattenIsFlattening ==
    ASSUME NEW s, Len(s) \in Nat \ {0}
    PROVE  \E f : Flattening(s, Len(s), f) /\ FlattenSeq(s) = f[Len(s)]
<1> DEFINE f == CHOOSE f : Flattening(s, Len(s), f)
<1>1. Flattening(s, Len(s), f)
  BY FlatteningExists
<1>2. FlattenSeq(s) = f[Len(s)]
  BY DEF FlattenSeq, Flattening
<1> QED BY <1>1, <1>2

LEMMA FlatteningStep ==
    ASSUME NEW s, NEW n \in Nat, NEW f, Flattening(s, n, f)
    PROVE  /\ n > 0 => f[1] = s[1]
           /\ \A i \in 1..n-1 : f[i+1] = f[i] \o s[i+1]
<1>1. \A i \in 1..n : f[i] = IF i = 1 THEN s[i] ELSE f[i-1] \o s[i]
  BY Zenon DEF Flattening
<1>2. \A i \in 1..n-1 : i + 1 \in 1..n /\ i + 1 # 1 /\ i + 1 - 1 = i
  OBVIOUS
<1>3. ASSUME NEW i \in 1..n-1 PROVE f[i+1] = f[i] \o s[i+1]
  <2> DEFINE j == i + 1
  <2>1. j \in 1..n /\ j # 1 /\ j - 1 = i
    BY <1>2
  <2> HIDE DEF j
  <2>2. f[j] = f[j-1] \o s[j]
    BY <1>1, <2>1
  <2> QED BY <2>1, <2>2 DEF j
<1>4. n > 0 => 1 \in 1..n
  OBVIOUS
<1>5. n > 0 => f[1] = s[1]
  BY <1>1, <1>4, Zenon
<1> QED BY <1>3, <1>5

LEMMA FlatteningType ==
    ASSUME NEW S, NEW s \in Seq(Seq(S)), NEW f, Flattening(s, Len(s), f)
    PROVE  \A i \in 1..Len(s) : f[i] \in Seq(S)
<1> DEFINE K == {k \in Nat : k \in 1..Len(s) => f[k] \in Seq(S)}
<1>1. Len(s) \in Nat /\ \A i \in 1..Len(s) : s[i] \in Seq(S)
  BY LenProperties, ElementOfSeq
<1>2. 0 \in K
  OBVIOUS
<1>3. /\ Len(s) > 0 => f[1] = s[1]
      /\ \A i \in 1..Len(s)-1 : f[i+1] = f[i] \o s[i+1]
  <2> DEFINE n == Len(s)
  <2>1. n \in Nat /\ Flattening(s, n, f)
    BY <1>1
  <2> HIDE DEF n
  <2>2. /\ n > 0 => f[1] = s[1]
        /\ \A i \in 1..n-1 : f[i+1] = f[i] \o s[i+1]
    BY <2>1, FlatteningStep
  <2> QED BY <2>2 DEF n
<1>4. ASSUME NEW k \in Nat, k \in K PROVE k + 1 \in K
  <2> SUFFICES ASSUME k + 1 \in 1..Len(s) PROVE f[k+1] \in Seq(S)
    OBVIOUS
  <2>1. CASE k = 0
    <3>1. Len(s) > 0 /\ k + 1 = 1
      BY <1>1, <2>1
    <3>2. f[1] = s[1]
      BY <1>3, <3>1
    <3> QED BY <1>1, <3>1, <3>2
  <2>2. CASE k # 0
    <3>1. k \in 1..Len(s) /\ k \in 1..Len(s)-1
      BY <1>1, <2>2
    <3>2. f[k] \in Seq(S) /\ s[k+1] \in Seq(S)
      BY <1>1, <1>4, <3>1
    <3>3. f[k+1] = f[k] \o s[k+1]
      BY <1>3, <3>1
    <3> QED BY <3>2, <3>3, ConcatProperties
  <2> QED BY <2>1, <2>2
<1> HIDE DEF K
<1>5. Nat \subseteq K
  BY <1>2, <1>4, SetInduction
<1> QED BY <1>5 DEF K

LEMMA FlattenType == ASSUME NEW S, NEW s \in Seq(Seq(S)) PROVE FlattenSeq(s) \in Seq(S)
<1>1. CASE s = <<>>
  BY <1>1 DEF FlattenSeq
<1>2. CASE s # <<>>
  <2>1. Len(s) \in Nat \ {0}
    BY <1>2, EmptySeq
  <2>2. PICK f : Flattening(s, Len(s), f) /\ FlattenSeq(s) = f[Len(s)]
    BY <2>1, FlattenIsFlattening
  <2>3. Len(s) \in 1..Len(s)
    BY <2>1
  <2> QED BY <2>2, <2>3, FlatteningType
<1> QED BY <1>1, <1>2

\* The texts of a sequence, one after the other: the first one, then the others.
LEMMA FlattenHead ==
    ASSUME NEW S, NEW s \in Seq(Seq(S)), s # <<>>
    PROVE  FlattenSeq(s) = s[1] \o FlattenSeq(Tail(s))
<1> DEFINE t == Tail(s)
           n == Len(t)
<1>1. /\ t \in Seq(Seq(S)) /\ n \in Nat /\ Len(s) = n + 1
      /\ \A i \in 1..n : t[i] = s[i+1]
      /\ \A i \in 1..n+1 : s[i] \in Seq(S)
      /\ \A i \in 1..n : t[i] \in Seq(S)
  BY HeadTailProperties, LenProperties, ElementOfSeq
<1> HIDE DEF t, n
<1>2. PICK f : Flattening(s, n + 1, f) /\ FlattenSeq(s) = f[n+1]
  <2>1. Len(s) \in Nat \ {0}
    BY <1>1
  <2>2. \E f : Flattening(s, Len(s), f) /\ FlattenSeq(s) = f[Len(s)]
    BY <2>1, FlattenIsFlattening, Zenon
  <2> QED BY <1>1, <2>2, Zenon
<1>3. /\ f[1] = s[1]
      /\ \A i \in 1..n : f[i+1] = f[i] \o s[i+1]
  <2> DEFINE m == n + 1
  <2>1. m \in Nat /\ m > 0 /\ m - 1 = n /\ Flattening(s, m, f)
    BY <1>1, <1>2
  <2> HIDE DEF m
  <2>2. /\ m > 0 => f[1] = s[1]
        /\ \A i \in 1..m-1 : f[i+1] = f[i] \o s[i+1]
    BY <2>1, FlatteningStep
  <2> QED BY <2>1, <2>2
<1>4. CASE n = 0
  <2>1. FlattenSeq(t) = <<>>
    BY <1>1, <1>4, EmptySeq DEF FlattenSeq, n
  <2>2. s[1] \o <<>> = s[1]
    BY <1>1, ConcatEmptySeq
  <2>3. FlattenSeq(s) = s[1]
    <3>1. n + 1 = 1
      BY <1>4
    <3> QED BY <1>2, <1>3, <3>1, Zenon
  <2> QED BY <2>1, <2>2, <2>3, Zenon DEF t
<1>5. CASE n # 0
  <2>1. PICK g : Flattening(t, n, g) /\ FlattenSeq(t) = g[n]
    BY <1>1, <1>5, FlattenIsFlattening DEF n
  <2>2. /\ g[1] = t[1]
        /\ \A i \in 1..n-1 : g[i+1] = g[i] \o t[i+1]
        /\ \A i \in 1..n : g[i] \in Seq(S)
    <3>1. n \in Nat /\ n > 0 /\ n = Len(t) /\ t \in Seq(Seq(S))
      BY <1>1, <1>5 DEF n
    <3>2. Flattening(t, n, g) /\ Flattening(t, Len(t), g)
      BY <2>1, <3>1
    <3>3. \A i \in 1..Len(t) : g[i] \in Seq(S)
      BY <3>1, <3>2, FlatteningType, Zenon
    <3>4. n \in Nat /\ Flattening(t, n, g)
      BY <3>1, <3>2
    <3>5. /\ n > 0 => g[1] = t[1]
          /\ \A i \in 1..n-1 : g[i+1] = g[i] \o t[i+1]
      BY <3>4, FlatteningStep
    <3> QED BY <3>1, <3>3, <3>5
  <2> DEFINE K == {k \in Nat : k \in 1..n => f[k+1] = s[1] \o g[k]}
  <2>3. 0 \in K
    OBVIOUS
  <2>4. ASSUME NEW k \in Nat, k \in K PROVE k + 1 \in K
    <3>0. k + 1 \in Nat
      OBVIOUS
    <3> SUFFICES ASSUME k + 1 \in 1..n PROVE f[k+1+1] = s[1] \o g[k+1]
      BY <3>0, Zenon
    <3>1. f[k+1+1] = f[k+1] \o t[k+1]
      BY <1>1, <1>3
    <3>2. CASE k = 0
      <4>1. k + 1 = 1
        BY <3>2
      <4> QED BY <1>3, <2>2, <3>1, <4>1, Zenon
    <3>3. CASE k # 0
      <4>1. k \in 1..n /\ k \in 1..n-1
        BY <1>1, <3>3
      <4>2. f[k+1] = s[1] \o g[k] /\ g[k+1] = g[k] \o t[k+1]
        BY <2>2, <2>4, <4>1
      <4>3. s[1] \in Seq(S) /\ g[k] \in Seq(S) /\ t[k+1] \in Seq(S)
        BY <1>1, <2>2, <4>1
      <4> DEFINE a == s[1]
                 b == g[k]
                 c == t[k+1]
      <4>4. a \in Seq(S) /\ b \in Seq(S) /\ c \in Seq(S)
        BY <4>3
      <4> HIDE DEF a, b, c
      <4>5. (a \o b) \o c = a \o (b \o c)
        BY <4>4, ConcatAssociative, SMTT(30)
      <4> QED BY <3>1, <4>2, <4>5 DEF a, b, c
    <3> QED BY <3>2, <3>3
  <2> HIDE DEF K
  <2>5. Nat \subseteq K
    BY <2>3, <2>4, SetInduction
  <2>6. f[n+1] = s[1] \o g[n]
    <3>1. n \in Nat /\ n \in 1..n
      BY <1>1, <1>5
    <3> QED BY <2>5, <3>1, Zenon DEF K
  <2> QED BY <1>2, <2>1, <2>6 DEF t
<1> QED BY <1>4, <1>5

\* One character before a text, and two.
LEMMA OneBefore ==
    ASSUME NEW c \in Char, NEW s \in Seq(Char)
    PROVE  /\ <<c>> \o s \in Seq(Char)
           /\ <<c>> \o s # <<>>
           /\ Head(<<c>> \o s) = c
           /\ Tail(<<c>> \o s) = s
<1>1. <<c>> \in Seq(Char) /\ Len(<<c>>) = 1 /\ <<c>>[1] = c
  OBVIOUS
<1> DEFINE t == <<c>> \o s
<1>2. /\ t \in Seq(Char) /\ Len(t) = 1 + Len(s) /\ Len(s) \in Nat
      /\ \A i \in 1..1+Len(s) : t[i] = IF i <= 1 THEN c ELSE s[i - 1]
  BY <1>1, ConcatProperties, LenProperties
<1> HIDE DEF t
<1>3. t # <<>> /\ Head(t) = c
  BY <1>2
<1>4. Tail(t) = s
  <2>1. /\ Tail(t) \in Seq(Char) /\ Len(Tail(t)) = Len(s)
        /\ \A i \in 1..Len(Tail(t)) : Tail(t)[i] = t[i+1]
    BY <1>2, <1>3, HeadTailProperties
  <2>2. \A i \in 1..Len(s) : t[i+1] = s[i]
    BY <1>2
  <2> QED BY <2>1, <2>2, SeqEqual
<1> QED BY <1>2, <1>3, <1>4 DEF t

LEMMA TwoBefore ==
    ASSUME NEW c \in Char, NEW d \in Char, NEW s \in Seq(Char)
    PROVE  /\ <<c, d>> \o s = <<c>> \o (<<d>> \o s)
           /\ Len(<<c, d>> \o s) > 1
           /\ (<<c, d>> \o s)[2] = d
<1>1. <<c, d>> = <<c>> \o <<d>> /\ <<c>> \in Seq(Char) /\ <<d>> \in Seq(Char) /\ <<c, d>> \in Seq(Char)
  <2>1. /\ <<c>> \in Seq(Char) /\ <<d>> \in Seq(Char) /\ <<c, d>> \in Seq(Char)
        /\ Len(<<c>>) = 1 /\ Len(<<d>>) = 1 /\ Len(<<c, d>>) = 2
        /\ <<c>>[1] = c /\ <<d>>[1] = d /\ <<c, d>>[1] = c /\ <<c, d>>[2] = d
    OBVIOUS
  <2>2. <<c>> \o <<d>> \in Seq(Char) /\ Len(<<c>> \o <<d>>) = 2
    BY <2>1, ConcatProperties
  <2>3. (<<c>> \o <<d>>)[1] = c /\ (<<c>> \o <<d>>)[2] = d
    BY <2>1, ConcatProperties
  <2>4. \A i \in 1..2 : <<c, d>>[i] = (<<c>> \o <<d>>)[i]
    BY <2>1, <2>3
  <2> QED BY <2>1, <2>2, <2>4, SeqEqual
<1>2. (<<c>> \o <<d>>) \o s = <<c>> \o (<<d>> \o s)
  BY <1>1, ConcatAssociative
<1>3. Len(<<c, d>>) = 2 /\ <<c, d>>[2] = d /\ Len(s) \in Nat
  BY LenProperties
<1>4. Len(<<c, d>> \o s) > 1
  BY <1>1, <1>3, ConcatProperties
<1>5. (<<c, d>> \o s)[2] = <<c, d>>[2]
  <2>1. \A i \in 1..Len(<<c, d>>)+Len(s) : (<<c, d>> \o s)[i] =
           IF i <= Len(<<c, d>>) THEN <<c, d>>[i] ELSE s[i - Len(<<c, d>>)]
    BY <1>1, ConcatProperties
  <2> QED BY <1>3, <2>1
<1> QED BY <1>1, <1>2, <1>3, <1>4, <1>5

\* What is left of a sequence after n elements.
LEMMA AfterNone == ASSUME NEW S, NEW s \in Seq(S) PROVE After(s, 0) = s
BY SubSeqFull, LenProperties DEF After

LEMMA AfterAll == ASSUME NEW S, NEW s \in Seq(S) PROVE After(s, Len(s)) = <<>>
BY SubSeqEmpty, LenProperties DEF After

LEMMA AfterSome ==
    ASSUME NEW S, NEW s \in Seq(S), NEW n \in Nat, n < Len(s)
    PROVE  /\ After(s, n) \in Seq(S)
           /\ After(s, n) # <<>>
           /\ After(s, n)[1] = s[n+1]
           /\ Tail(After(s, n)) = After(s, n + 1)
           /\ After(s, n) = <<s[n+1]>> \o After(s, n + 1)
<1> DEFINE m == n + 1
<1>1. m \in 1..Len(s) /\ Len(s) \in m..Len(s) /\ Len(s) \in Int /\ m \in Int
  BY LenProperties
<1>2. After(s, n) = SubSeq(s, m, Len(s)) /\ After(s, m) = SubSeq(s, m + 1, Len(s))
  BY DEF After
<1> HIDE DEF m
<1> DEFINE t == SubSeq(s, m, Len(s))
<1>3. \A i \in m..Len(s) : s[i] \in S
  BY <1>1, ElementOfSeq
<1>4. t \in Seq(S) /\ Len(t) = Len(s) - m + 1 /\ \A i \in 1..Len(s)-m+1 : t[i] = s[m+i-1]
  BY <1>1, <1>3, SubSeqProperties
<1>5. t = <<s[m]>> \o SubSeq(s, m + 1, Len(s)) /\ Tail(t) = SubSeq(s, m + 1, Len(s))
  BY <1>1, SubSeqRecursiveFirst, HeadTailOfSubSeq
<1> HIDE DEF t
<1>6. t # <<>> /\ t[1] = s[m]
  BY <1>1, <1>4
<1> QED BY <1>2, <1>4, <1>5, <1>6 DEF t, m

LEMMA UpToNext ==
    ASSUME NEW S, NEW s \in Seq(S), NEW n \in Nat, n < Len(s)
    PROVE  SubSeq(s, 1, n + 1) = Append(SubSeq(s, 1, n), s[n+1])
<1> DEFINE m == n + 1
<1>1. m \in 1..Len(s) /\ m - 1 = n /\ 1 \in 1..Len(s) /\ m \in 1..Len(s)
  BY LenProperties
<1>2. s[m] \in S /\ \A i \in 1..n : s[i] \in S
  BY <1>1, ElementOfSeq
<1>3. SubSeq(s, 1, n) \in Seq(S)
  BY <1>1, <1>2, SubSeqProperties
<1> HIDE DEF m
<1>4. SubSeq(s, 1, m) = SubSeq(s, 1, m - 1) \o <<s[m]>>
  BY <1>1, SubSeqRecursiveSecond
<1>5. Append(SubSeq(s, 1, n), s[m]) = SubSeq(s, 1, n) \o <<s[m]>>
  BY <1>2, <1>3, AppendIsConcat
<1> QED BY <1>1, <1>4, <1>5 DEF m

-----------------------------------------------------------------------------
(***************************************************************************)
(* What is formatted.                                                      *)
(***************************************************************************)
LEMMA EscapeCharType == ASSUME NEW c \in Char PROVE EscapeChar(c) \in Seq(Char)
<1>1. "backslash" \in Char /\ "n" \in Char
  BY DEF Char
<1> QED BY <1>1 DEF EscapeChar

LEMMA EscapeType ==
    /\ Escape(<<>>) = <<>>
    /\ \A w \in Seq(Char) : Escape(w) \in Seq(Char)
<1>1. Escape(<<>>) = <<>>
  <2>1. [i \in 1..Len(<<>>) |-> EscapeChar(<<>>[i])] = <<>>
    OBVIOUS
  <2> QED BY <2>1 DEF Escape, FlattenSeq
<1>2. ASSUME NEW w \in Seq(Char) PROVE Escape(w) \in Seq(Char)
  <2>1. Len(w) \in Nat /\ \A i \in 1..Len(w) : w[i] \in Char
    BY LenProperties, ElementOfSeq
  <2>2. [i \in 1..Len(w) |-> EscapeChar(w[i])] \in Seq(Seq(Char))
    BY <2>1, EscapeCharType
  <2> QED BY <2>2, FlattenType DEF Escape
<1> QED BY <1>1, <1>2

LEMMA EscapeHead ==
    ASSUME NEW w \in Seq(Char), w # <<>>
    PROVE  Escape(w) = EscapeChar(w[1]) \o Escape(Tail(w))
<1> DEFINE e == [i \in 1..Len(w) |-> EscapeChar(w[i])]
           f == [i \in 1..Len(Tail(w)) |-> EscapeChar(Tail(w)[i])]
<1>1. Len(w) \in Nat \ {0} /\ \A i \in 1..Len(w) : w[i] \in Char
  BY LenProperties, ElementOfSeq, EmptySeq
<1>2. /\ Tail(w) \in Seq(Char) /\ Len(Tail(w)) = Len(w) - 1
      /\ \A i \in 1..Len(w)-1 : Tail(w)[i] = w[i+1]
  BY HeadTailProperties
<1>3. \A i \in 1..Len(w)-1 : Tail(w)[i] \in Char
  BY <1>1, <1>2
<1>4. /\ e \in Seq(Seq(Char)) /\ Len(e) = Len(w) /\ e # <<>> /\ e[1] = EscapeChar(w[1])
      /\ \A i \in 1..Len(w) : e[i] = EscapeChar(w[i])
  <2>1. e \in Seq(Seq(Char)) /\ Len(e) = Len(w)
    BY <1>1, EscapeCharType
  <2>2. \A i \in 1..Len(w) : e[i] = EscapeChar(w[i])
    OBVIOUS
  <2>3. 1 \in 1..Len(w)
    BY <1>1
  <2> HIDE DEF e
  <2>4. e # <<>>
    BY <1>1, <2>1
  <2> QED BY <2>1, <2>2, <2>3, <2>4
<1>5. f \in Seq(Seq(Char)) /\ Len(f) = Len(w) - 1
      /\ \A i \in 1..Len(w)-1 : f[i] = EscapeChar(Tail(w)[i])
  BY <1>1, <1>2, <1>3, EscapeCharType
<1> HIDE DEF e, f
<1>6. /\ Tail(e) \in Seq(Seq(Char)) /\ Len(Tail(e)) = Len(w) - 1
      /\ \A i \in 1..Len(w)-1 : Tail(e)[i] = e[i+1]
  BY <1>4, HeadTailProperties
<1>7. ASSUME NEW i \in 1..Len(w)-1 PROVE Tail(e)[i] = f[i]
  <2>1. i + 1 \in 1..Len(w)
    BY <1>1
  <2>2. Tail(e)[i] = EscapeChar(w[i+1])
    BY <1>4, <1>6, <2>1
  <2>3. f[i] = EscapeChar(w[i+1])
    BY <1>2, <1>5
  <2> QED BY <2>2, <2>3
<1>8. Tail(e) = f
  BY <1>5, <1>6, <1>7, SeqEqual
<1>9. FlattenSeq(e) = e[1] \o FlattenSeq(f)
  BY <1>4, <1>8, FlattenHead
<1> QED BY <1>4, <1>9 DEF Escape, e, f

\* A space is kept by escaping, and no other character becomes one.
LEMMA EscapeKeepsSpaces ==
    ASSUME NEW w \in Seq(Char)
    PROVE  Contains(Escape(w), "space") <=> Contains(w, "space")
<1> DEFINE K == {k \in Nat : \A v \in Seq(Char) :
                    Len(v) = k => (Contains(Escape(v), "space") <=> Contains(v, "space"))}
<1>1. 0 \in K
  <2>1. ASSUME NEW v \in Seq(Char), Len(v) = 0
        PROVE  Contains(Escape(v), "space") <=> Contains(v, "space")
    <3>1. v = <<>>
      BY <2>1, EmptySeq
    <3> QED BY <3>1, EscapeType
  <2> QED BY <2>1
<1>2. ASSUME NEW k \in Nat, k \in K PROVE k + 1 \in K
  <2>1. ASSUME NEW v \in Seq(Char), Len(v) = k + 1
        PROVE  Contains(Escape(v), "space") <=> Contains(v, "space")
    <3>1. /\ v # <<>> /\ v[1] \in Char
          /\ Tail(v) \in Seq(Char) /\ Len(Tail(v)) = k
          /\ \A i \in 1..k : Tail(v)[i] = v[i+1]
      BY <2>1, HeadTailProperties, ElementOfSeq, EmptySeq
    <3> DEFINE e == EscapeChar(v[1])
               t == Escape(Tail(v))
    <3>2. Escape(v) = e \o t
      BY <3>1, EscapeHead
    <3>3. Contains(t, "space") <=> Contains(Tail(v), "space")
      BY <1>2, <3>1
    <3>4. e \in Seq(Char) /\ t \in Seq(Char)
      BY <3>1, EscapeCharType, EscapeType
    <3>5. Contains(e, "space") <=> v[1] = "space"
      BY DEF Contains, EscapeChar
    <3>6. Contains(v, "space") <=> v[1] = "space" \/ Contains(Tail(v), "space")
      <4>1. \A i \in 2..k+1 : i - 1 \in 1..k /\ Tail(v)[i-1] = v[i]
        BY <3>1
      <4>2. \A i \in 1..k : i + 1 \in 1..k+1
        OBVIOUS
      <4>3. \A i \in 1..k+1 : i = 1 \/ i \in 2..k+1
        OBVIOUS
      <4> QED BY <2>1, <3>1, <4>1, <4>2, <4>3 DEF Contains
    <3> HIDE DEF e, t
    <3>7. Contains(e \o t, "space") <=> Contains(e, "space") \/ Contains(t, "space")
      <4>1. Len(e) \in Nat /\ Len(t) \in Nat
        BY <3>4, LenProperties
      <4>2. /\ Len(e \o t) = Len(e) + Len(t)
            /\ \A i \in 1..Len(e)+Len(t) : (e \o t)[i] = IF i <= Len(e) THEN e[i] ELSE t[i - Len(e)]
        BY <3>4, ConcatProperties
      <4>3. \A i \in 1..Len(e) : i \in 1..Len(e)+Len(t) /\ (e \o t)[i] = e[i]
        BY <4>1, <4>2
      <4>4. \A i \in 1..Len(t) : i + Len(e) \in 1..Len(e)+Len(t) /\ (e \o t)[i + Len(e)] = t[i]
        BY <4>1, <4>2
      <4>5. \A i \in 1..Len(e)+Len(t) :
              i \in 1..Len(e) \/ (i - Len(e) \in 1..Len(t) /\ (e \o t)[i] = t[i - Len(e)])
        BY <4>1, <4>2
      <4> HIDE DEF K
      <4>6. ASSUME Contains(e \o t, "space")
            PROVE  Contains(e, "space") \/ Contains(t, "space")
        <5>1. PICK i \in 1..Len(e)+Len(t) : (e \o t)[i] = "space"
          BY <4>2, <4>6 DEF Contains
        <5> QED BY <4>3, <4>5, <5>1 DEF Contains
      <4>7. ASSUME Contains(e, "space") PROVE Contains(e \o t, "space")
        <5>1. PICK i \in 1..Len(e) : e[i] = "space"
          BY <4>7 DEF Contains
        <5> QED BY <4>2, <4>3, <5>1 DEF Contains
      <4>8. ASSUME Contains(t, "space") PROVE Contains(e \o t, "space")
        <5>1. PICK i \in 1..Len(t) : t[i] = "space"
          BY <4>8 DEF Contains
        <5> QED BY <4>2, <4>4, <5>1 DEF Contains
      <4> QED BY <4>6, <4>7, <4>8
    <3> QED BY <3>2, <3>3, <3>5, <3>6, <3>7
  <2> QED BY <2>1
<1> HIDE DEF K
<1>3. Nat \subseteq K
  BY <1>1, <1>2, SetInduction
<1>4. Len(w) \in K
  BY <1>3, LenProperties
<1> QED BY <1>4 DEF K

LEMMA QuotedType ==
    ASSUME NEW w \in Seq(Char) PROVE AddQuotesIfNeeded(Escape(w)) \in Seq(Char)
<1>1. Escape(w) \in Seq(Char) /\ <<"quote">> \in Seq(Char)
  BY EscapeType DEF Char
<1>2. <<"quote">> \o Escape(w) \o <<"quote">> \in Seq(Char)
  BY <1>1, ConcatProperties
<1> QED BY <1>1, <1>2 DEF AddQuotesIfNeeded

\* The text of further words: none, or a space, the first one, and the others.
SpacedWord(w) == <<"space">> \o AddQuotesIfNeeded(Escape(w))

LEMMA SpacedType == ASSUME NEW w \in Seq(Char) PROVE SpacedWord(w) \in Seq(Char)
<1>1. <<"space">> \in Seq(Char)
  BY DEF Char
<1> QED BY <1>1, QuotedType, ConcatProperties DEF SpacedWord

LEMMA SpacedWords ==
    ASSUME NEW ws \in Seq(Seq(Char))
    PROVE  /\ [i \in 1..Len(ws) |-> SpacedWord(ws[i])] \in Seq(Seq(Char))
           /\ Len([i \in 1..Len(ws) |-> SpacedWord(ws[i])]) = Len(ws)
<1>1. Len(ws) \in Nat /\ \A i \in 1..Len(ws) : ws[i] \in Seq(Char)
  BY LenProperties, ElementOfSeq
<1> QED BY <1>1, SpacedType

LEMMA RestIsSpaced == \A ws : Rest(ws) = FlattenSeq([i \in 1..Len(ws) |-> SpacedWord(ws[i])])
BY DEF Rest, SpacedWord

LEMMA RestType ==
    /\ Rest(<<>>) = <<>>
    /\ \A ws \in Seq(Seq(Char)) : Rest(ws) \in Seq(Char)
<1>1. Rest(<<>>) = <<>>
  <2>1. [i \in 1..Len(<<>>) |-> SpacedWord(<<>>[i])] = <<>>
    OBVIOUS
  <2> QED BY <2>1, RestIsSpaced DEF FlattenSeq
<1>2. ASSUME NEW ws \in Seq(Seq(Char)) PROVE Rest(ws) \in Seq(Char)
  BY SpacedWords, FlattenType, RestIsSpaced
<1> QED BY <1>1, <1>2

LEMMA RestHead ==
    ASSUME NEW ws \in Seq(Seq(Char)), ws # <<>>
    PROVE  Rest(ws) = <<"space">> \o (AddQuotesIfNeeded(Escape(ws[1])) \o Rest(Tail(ws)))
<1> DEFINE e == [i \in 1..Len(ws) |-> SpacedWord(ws[i])]
           f == [i \in 1..Len(Tail(ws)) |-> SpacedWord(Tail(ws)[i])]
<1>1. Len(ws) \in Nat \ {0} /\ \A i \in 1..Len(ws) : ws[i] \in Seq(Char)
  BY LenProperties, ElementOfSeq, EmptySeq
<1>2. /\ Tail(ws) \in Seq(Seq(Char)) /\ Len(Tail(ws)) = Len(ws) - 1
      /\ \A i \in 1..Len(ws)-1 : Tail(ws)[i] = ws[i+1]
  BY HeadTailProperties
<1>3. /\ e \in Seq(Seq(Char)) /\ Len(e) = Len(ws)
      /\ \A i \in 1..Len(ws) : e[i] = SpacedWord(ws[i])
  BY SpacedWords
<1>4. /\ f \in Seq(Seq(Char)) /\ Len(f) = Len(ws) - 1
      /\ \A i \in 1..Len(ws)-1 : f[i] = SpacedWord(Tail(ws)[i])
  BY <1>2, SpacedWords
<1> HIDE DEF e, f
<1>5. e # <<>> /\ e[1] = SpacedWord(ws[1])
  BY <1>1, <1>3
<1>6. /\ Tail(e) \in Seq(Seq(Char)) /\ Len(Tail(e)) = Len(ws) - 1
      /\ \A i \in 1..Len(ws)-1 : Tail(e)[i] = e[i+1]
  BY <1>3, <1>5, HeadTailProperties
<1>7. ASSUME NEW i \in 1..Len(ws)-1 PROVE Tail(e)[i] = f[i]
  <2>1. i + 1 \in 1..Len(ws)
    BY <1>1
  <2>2. Tail(e)[i] = SpacedWord(ws[i+1])
    BY <1>3, <1>6, <2>1
  <2>3. f[i] = SpacedWord(ws[i+1])
    BY <1>2, <1>4
  <2> QED BY <2>2, <2>3
<1>8. Tail(e) = f
  BY <1>4, <1>6, <1>7, SeqEqual
<1>9. FlattenSeq(e) = e[1] \o FlattenSeq(f)
  BY <1>3, <1>5, <1>8, FlattenHead
<1>10. Rest(ws) = SpacedWord(ws[1]) \o Rest(Tail(ws))
  BY <1>5, <1>9, RestIsSpaced DEF e, f
<1> DEFINE q == AddQuotesIfNeeded(Escape(ws[1]))
           t == Rest(Tail(ws))
<1>11. <<"space">> \in Seq(Char) /\ q \in Seq(Char) /\ t \in Seq(Char)
  <2>1. ws[1] \in Seq(Char) /\ "space" \in Char
    BY <1>1 DEF Char
  <2>2. <<"space">> \in Seq(Char)
    BY <2>1
  <2>3. q \in Seq(Char)
    BY <2>1, QuotedType
  <2>4. t \in Seq(Char)
    BY <1>2, RestType
  <2> QED BY <2>2, <2>3, <2>4
<1>12. SpacedWord(ws[1]) = <<"space">> \o q
  BY DEF SpacedWord
<1> HIDE DEF q, t
<1>13. (<<"space">> \o q) \o t = <<"space">> \o (q \o t)
  BY <1>11, ConcatAssociative
<1> QED BY <1>10, <1>12, <1>13 DEF q, t

\* join(" ")
LEMMA JoinIsRest ==
    ASSUME NEW ws \in Seq(Seq(Char)), ws # <<>>
    PROVE  FormatArguments(ws) = AddQuotesIfNeeded(Escape(ws[1])) \o Rest(Tail(ws))
<1> DEFINE q == [i \in 1..Len(ws) |-> AddQuotesIfNeeded(Escape(ws[i]))]
           e == [i \in 1..Len(q) |-> IF i = 1 THEN q[1] ELSE <<"space">> \o q[i]]
           f == [i \in 1..Len(Tail(ws)) |-> SpacedWord(Tail(ws)[i])]
<1>1. Len(ws) \in Nat \ {0} /\ \A i \in 1..Len(ws) : ws[i] \in Seq(Char)
  BY LenProperties, ElementOfSeq, EmptySeq
<1>2. /\ Tail(ws) \in Seq(Seq(Char)) /\ Len(Tail(ws)) = Len(ws) - 1
      /\ \A i \in 1..Len(ws)-1 : Tail(ws)[i] = ws[i+1]
  BY HeadTailProperties
<1>3. \A i \in 1..Len(ws) : AddQuotesIfNeeded(Escape(ws[i])) \in Seq(Char)
  BY <1>1, QuotedType
<1>4. /\ q \in Seq(Seq(Char)) /\ Len(q) = Len(ws)
      /\ \A i \in 1..Len(ws) : q[i] = AddQuotesIfNeeded(Escape(ws[i]))
  BY <1>1, <1>3
<1> HIDE DEF q
<1>5. \A i \in 1..Len(ws) : SpacedWord(ws[i]) = <<"space">> \o q[i]
                           /\ SpacedWord(ws[i]) \in Seq(Char)
  BY <1>1, <1>4, SpacedType DEF SpacedWord
<1>6. 1 \in 1..Len(ws) /\ q[1] \in Seq(Char)
  BY <1>1, <1>3, <1>4
<1>7. \A i \in 1..Len(ws) : (IF i = 1 THEN q[1] ELSE <<"space">> \o q[i])
                          = (IF i = 1 THEN q[1] ELSE SpacedWord(ws[i]))
  BY <1>5
<1>8. e = [i \in 1..Len(ws) |-> IF i = 1 THEN q[1] ELSE SpacedWord(ws[i])]
  BY <1>4, <1>7
<1>9. /\ e \in Seq(Seq(Char)) /\ Len(e) = Len(ws)
  <2>1. \A i \in 1..Len(ws) : (IF i = 1 THEN q[1] ELSE SpacedWord(ws[i])) \in Seq(Char)
    BY <1>5, <1>6
  <2> HIDE DEF e
  <2> DEFINE g == [i \in 1..Len(ws) |-> IF i = 1 THEN q[1] ELSE SpacedWord(ws[i])]
  <2>2. g \in Seq(Seq(Char)) /\ Len(g) = Len(ws)
    BY <1>1, <2>1
  <2> QED BY <1>8, <2>2
<1>10. /\ e[1] = q[1]
       /\ \A i \in 1..Len(ws) : i # 1 => e[i] = SpacedWord(ws[i])
  BY <1>6, <1>8
<1>11. /\ f \in Seq(Seq(Char)) /\ Len(f) = Len(ws) - 1
       /\ \A i \in 1..Len(ws)-1 : f[i] = SpacedWord(Tail(ws)[i])
  BY <1>2, SpacedWords
<1>12. FormatArguments(ws) = FlattenSeq(e)
  <2>1. q # <<>>
    BY <1>1, <1>4
  <2> QED BY <2>1 DEF FormatArguments, Join, q
<1> HIDE DEF e, f
<1>13. e # <<>>
  BY <1>1, <1>9
<1>14. /\ Tail(e) \in Seq(Seq(Char)) /\ Len(Tail(e)) = Len(ws) - 1
       /\ \A i \in 1..Len(ws)-1 : Tail(e)[i] = e[i+1]
  BY <1>9, <1>13, HeadTailProperties
<1>15. ASSUME NEW i \in 1..Len(ws)-1 PROVE Tail(e)[i] = f[i]
  <2>1. i + 1 \in 1..Len(ws) /\ i + 1 # 1
    BY <1>1
  <2>2. Tail(e)[i] = SpacedWord(ws[i+1])
    BY <1>10, <1>14, <2>1
  <2>3. f[i] = SpacedWord(ws[i+1])
    BY <1>2, <1>11
  <2> QED BY <2>2, <2>3
<1>16. Tail(e) = f
  BY <1>11, <1>14, <1>15, SeqEqual
<1>17. FlattenSeq(e) = e[1] \o FlattenSeq(f)
  BY <1>9, <1>13, <1>16, FlattenHead
<1>18. FlattenSeq(f) = Rest(Tail(ws))
  BY RestIsSpaced DEF f
<1> QED BY <1>4, <1>6, <1>10, <1>12, <1>17, <1>18

-----------------------------------------------------------------------------
LEMMA TextsAssociate == \A a, b, c \in Seq(Char) : (a \o b) \o c = a \o (b \o c)
BY ConcatAssociative

LEMMA TextsJoin == \A a, b \in Seq(Char) : a \o b \in Seq(Char)
BY ConcatProperties

LEMMA FormatArgumentsType ==
    ASSUME NEW ws \in Seq(Seq(Char)) PROVE FormatArguments(ws) \in Seq(Char)
<1>1. CASE ws = <<>>
  <2>1. [i \in 1..Len(ws) |-> AddQuotesIfNeeded(Escape(ws[i]))] = <<>>
    BY <1>1
  <2> QED BY <2>1 DEF FormatArguments, Join
<1>2. CASE ws # <<>>
  <2>1. Len(ws) \in Nat \ {0} /\ Tail(ws) \in Seq(Seq(Char))
    BY <1>2, EmptySeq, HeadTailProperties
  <2>2. ws[1] \in Seq(Char)
    BY <2>1, ElementOfSeq
  <2>3. AddQuotesIfNeeded(Escape(ws[1])) \in Seq(Char) /\ Rest(Tail(ws)) \in Seq(Char)
    BY <2>1, <2>2, QuotedType, RestType
  <2> QED BY <1>2, <2>3, JoinIsRest, ConcatProperties
<1> QED BY <1>1, <1>2

\* The executable comes first, as it is.
LEMMA CommandIsRest ==
    ASSUME NEW ws \in Seq(Seq(Char)), ws # <<>>
    PROVE  FormatCommand(ws) = ws[1] \o Rest(Tail(ws))
<1> DEFINE x == ws[1]
           t == Tail(ws)
<1>1. Len(ws) \in Nat \ {0} /\ x \in Seq(Char) /\ t \in Seq(Seq(Char)) /\ Len(t) = Len(ws) - 1
  BY EmptySeq, HeadTailProperties, ElementOfSeq
<1>2. FormatCommand(ws) = IF Len(ws) = 1 THEN x ELSE x \o <<"space">> \o FormatArguments(t)
  BY DEF FormatCommand
<1> HIDE DEF x, t
<1>3. CASE Len(ws) = 1
  <2>1. t = <<>>
    BY <1>1, <1>3, EmptySeq
  <2>2. Rest(t) = <<>>
    BY <2>1, RestType
  <2>3. x \o <<>> = x
    BY <1>1, ConcatEmptySeq
  <2> QED BY <1>2, <1>3, <2>2, <2>3 DEF x, t
<1>4. CASE Len(ws) # 1
  <2> DEFINE f == FormatArguments(t)
  <2>1. t # <<>>
    BY <1>1, <1>4, EmptySeq
  <2>2. Rest(t) = <<"space">> \o f
    BY <1>1, <2>1, RestHead, JoinIsRest
  <2>3. <<"space">> \in Seq(Char)
    <3>1. "space" \in Char
      BY DEF Char
    <3> QED BY <3>1
  <2>4. f \in Seq(Char)
    BY <1>1, FormatArgumentsType
  <2> HIDE DEF f
  <2>5. (x \o <<"space">>) \o f = x \o (<<"space">> \o f)
    BY <1>1, <2>3, <2>4, TextsAssociate
  <2> QED BY <1>2, <1>4, <2>2, <2>5 DEF x, t, f
<1> QED BY <1>3, <1>4

LEMMA FormatCommandType ==
    ASSUME NEW ws \in Seq(Seq(Char)), ws # <<>> PROVE FormatCommand(ws) \in Seq(Char)
<1>1. ws[1] \in Seq(Char) /\ Tail(ws) \in Seq(Seq(Char))
  BY EmptySeq, HeadTailProperties, ElementOfSeq
<1>2. Rest(Tail(ws)) \in Seq(Char)
  BY <1>1, RestType
<1> QED BY <1>1, <1>2, CommandIsRest, ConcatProperties

-----------------------------------------------------------------------------
(***************************************************************************)
(* The parser on a formatted text.                                         *)
(***************************************************************************)
\* Further words: none, or a space and the next word.
LEMMA GapShape ==
    ASSUME LineTypeOK, NEW n \in 0..Len(formatted)
    PROVE  /\ RestAfter(n) \in Seq(Char)
           /\ n = Len(formatted) => RestAfter(n) = <<>>
           /\ n < Len(formatted) =>
                /\ AddQuotesIfNeeded(Escape(formatted[n+1])) \o RestAfter(n + 1) \in Seq(Char)
                /\ RestAfter(n) =
                    <<"space">> \o (AddQuotesIfNeeded(Escape(formatted[n+1])) \o RestAfter(n + 1))
<1>1. formatted \in Seq(Seq(Char)) /\ Len(formatted) \in Nat
  BY LenProperties DEF LineTypeOK
<1>2. CASE n = Len(formatted)
  <2>1. After(formatted, n) = <<>>
    BY <1>1, <1>2, AfterAll
  <2>2. RestAfter(n) = <<>>
    BY <2>1, RestType DEF RestAfter
  <2> QED BY <1>2, <2>2
<1>3. CASE n < Len(formatted)
  <2>1. n \in Nat /\ n + 1 \in 1..Len(formatted)
    BY <1>1, <1>3
  <2>2. /\ After(formatted, n) \in Seq(Seq(Char)) /\ After(formatted, n) # <<>>
        /\ After(formatted, n)[1] = formatted[n+1]
        /\ Tail(After(formatted, n)) = After(formatted, n + 1)
    BY <1>1, <1>3, <2>1, AfterSome
  <2>3. After(formatted, n + 1) \in Seq(Seq(Char))
    BY <2>2, HeadTailProperties
  <2>4. formatted[n+1] \in Seq(Char)
    BY <1>1, <2>1, ElementOfSeq
  <2>5. RestAfter(n) \in Seq(Char) /\ RestAfter(n + 1) \in Seq(Char)
    BY <2>2, <2>3, RestType DEF RestAfter
  <2>6. RestAfter(n) =
          <<"space">> \o (AddQuotesIfNeeded(Escape(formatted[n+1])) \o RestAfter(n + 1))
    BY <2>2, RestHead DEF RestAfter
  <2>7. AddQuotesIfNeeded(Escape(formatted[n+1])) \o RestAfter(n + 1) \in Seq(Char)
    BY <2>4, <2>5, QuotedType, ConcatProperties
  <2> QED BY <1>1, <1>3, <2>5, <2>6, <2>7
<1>4. n = Len(formatted) \/ n < Len(formatted)
  BY <1>1
<1> QED BY <1>2, <1>3, <1>4, Zenon

LEMMA GapBegins ==
    ASSUME LineTypeOK, NEW n \in 0..Len(formatted), RestAfter(n) # <<>>
    PROVE  /\ n < Len(formatted)
           /\ Head(RestAfter(n)) = "space"
           /\ Tail(RestAfter(n)) = AddQuotesIfNeeded(Escape(formatted[n+1])) \o RestAfter(n + 1)
<1>1. formatted \in Seq(Seq(Char)) /\ Len(formatted) \in Nat
  BY LenProperties DEF LineTypeOK
<1>2. n < Len(formatted)
  BY <1>1, GapShape
<1> DEFINE t == AddQuotesIfNeeded(Escape(formatted[n+1])) \o RestAfter(n + 1)
<1>3. t \in Seq(Char) /\ RestAfter(n) = <<"space">> \o t
  BY <1>2, GapShape
<1>4. "space" \in Char
  BY DEF Char
<1> HIDE DEF t
<1>5. Head(<<"space">> \o t) = "space" /\ Tail(<<"space">> \o t) = t
  BY <1>3, <1>4, OneBefore
<1> QED BY <1>2, <1>3, <1>5 DEF t

\* What holds of a formatted text that is parsed.
Parsing ==
    /\ LineTypeOK
    /\ kind = "command" =>
        formatted # <<>> /\ NoEmptyWord /\ PlainExecutable(formatted[1])

LEMMA WordType ==
    ASSUME LineTypeOK, NEW n \in Nat, n < Len(formatted)
    PROVE  /\ formatted[n+1] \in Seq(Char) /\ Len(formatted[n+1]) \in Nat
           /\ n + 1 \in 1..Len(formatted) /\ n + 1 \in 0..Len(formatted)
           /\ \A k \in Nat : k < Len(formatted[n+1]) => formatted[n+1][k+1] \in Char
<1>1. formatted \in Seq(Seq(Char)) /\ Len(formatted) \in Nat
  BY LenProperties DEF LineTypeOK
<1>2. n + 1 \in 1..Len(formatted) /\ n + 1 \in 0..Len(formatted)
  BY <1>1
<1> DEFINE w == formatted[n+1]
<1>3. w \in Seq(Char)
  BY <1>1, <1>2, ElementOfSeq
<1> HIDE DEF w
<1>4. Len(w) \in Nat /\ \A k \in Nat : k < Len(w) => w[k+1] \in Char
  <2>1. Len(w) \in Nat /\ \A i \in 1..Len(w) : w[i] \in Char
    BY <1>3, LenProperties, ElementOfSeq
  <2>2. \A k \in Nat : k < Len(w) => k + 1 \in 1..Len(w)
    BY <2>1
  <2> QED BY <2>1, <2>2
<1> QED BY <1>2, <1>3, <1>4 DEF w

\* The letters that are left: none, or one, as it is or escaped, and the others.
LEMMA LettersShape ==
    ASSUME Parsing, NEW n \in Nat, n < Len(formatted),
           NEW k \in 0..Len(formatted[n+1])
    PROVE  LET w == formatted[n+1]
               more == LettersAfter(n + 1, k + 1)
           IN  /\ LettersAfter(n + 1, k) \in Seq(Char)
               /\ k = Len(w) => LettersAfter(n + 1, k) = <<>>
               /\ k < Len(w) =>
                    /\ w[k+1] \in Char /\ more \in Seq(Char)
                    /\ \/ \E d \in Escapable :
                            /\ Unescaped(d) = w[k+1]
                            /\ LettersAfter(n + 1, k) = <<"backslash", d>> \o more
                       \/ /\ w[k+1] \notin {"quote", "backslash"}
                          /\ LettersAfter(n + 1, k) = <<w[k+1]>> \o more
<1> DEFINE w == formatted[n+1]
           a == After(w, k)
           b == After(w, k + 1)
           raw == IsExecutable(n + 1)
           left == LettersAfter(n + 1, k)
           more == LettersAfter(n + 1, k + 1)
<1>1. /\ w \in Seq(Char) /\ Len(w) \in Nat /\ k \in Nat /\ k <= Len(w)
      /\ \A i \in Nat : i < Len(w) => w[i+1] \in Char
  BY WordType DEF Parsing
<1>2. /\ left = IF raw THEN a ELSE Escape(a)
      /\ more = IF raw THEN b ELSE Escape(b)
  BY DEF LettersAfter
<1>3. raw => \A i \in Nat : i < Len(w) => w[i+1] \in Plain \cup {"n", "newline"}
  <2>1. raw => w = formatted[1] /\ PlainExecutable(formatted[1])
    BY DEF IsExecutable, Parsing
  <2> HIDE DEF w, raw
  <2>2. raw => \A i \in DOMAIN w : w[i] \in Plain \cup {"n", "newline"}
    BY <2>1 DEF PlainExecutable, ToSet
  <2>3. DOMAIN w = 1..Len(w) /\ \A i \in Nat : i < Len(w) => i + 1 \in 1..Len(w)
    BY <1>1, LenProperties
  <2> QED BY <2>2, <2>3
<1>4. k < Len(w) => /\ a \in Seq(Char) /\ a # <<>> /\ a[1] = w[k+1] /\ Tail(a) = b
                    /\ a = <<w[k+1]>> \o b
  <2> HIDE DEF w
  <2> QED BY <1>1, AfterSome
<1>5. k = Len(w) => a = <<>>
  <2> HIDE DEF w
  <2> QED BY <1>1, AfterAll
<1> SUFFICES /\ left \in Seq(Char)
             /\ k = Len(w) => left = <<>>
             /\ k < Len(w) =>
                  /\ w[k+1] \in Char /\ more \in Seq(Char)
                  /\ \/ \E d \in Escapable : Unescaped(d) = w[k+1] /\ left = <<"backslash", d>> \o more
                     \/ w[k+1] \notin {"quote", "backslash"} /\ left = <<w[k+1]>> \o more
  BY Zenon
<1> HIDE DEF w, a, b, raw, left, more
<1>6. ASSUME k = Len(w) PROVE left = <<>> /\ left \in Seq(Char)
  <2>1. a = <<>> /\ Escape(a) = <<>>
    BY <1>5, <1>6, EscapeType
  <2>2. left = <<>>
    BY <1>2, <2>1
  <2> QED BY <2>2
<1>7. ASSUME k < Len(w)
      PROVE  /\ left \in Seq(Char) /\ more \in Seq(Char) /\ w[k+1] \in Char
             /\ \/ \E d \in Escapable : Unescaped(d) = w[k+1] /\ left = <<"backslash", d>> \o more
                \/ w[k+1] \notin {"quote", "backslash"} /\ left = <<w[k+1]>> \o more
  <2> DEFINE c == w[k+1]
  <2>1. c \in Char /\ a \in Seq(Char) /\ b \in Seq(Char) /\ a = <<c>> \o b
    BY <1>1, <1>4, <1>7, HeadTailProperties
  <2>2. Escape(a) = EscapeChar(c) \o Escape(b)
    BY <1>4, <1>7, EscapeHead
  <2>3. Escape(a) \in Seq(Char) /\ Escape(b) \in Seq(Char)
    BY <2>1, EscapeType
  <2>4. raw => c \notin {"quote", "backslash"}
    BY <1>1, <1>3, <1>7, CommandLineAssumption
  <2>5. left \in Seq(Char) /\ more \in Seq(Char)
    BY <1>2, <2>1, <2>3
  <2> HIDE DEF c
  <2>6. raw => left = <<c>> \o more
    BY <1>2, <2>1
  <2>7. ~raw => left = EscapeChar(c) \o more
    BY <1>2, <2>2
  <2>8. CASE raw
    BY <2>1, <2>4, <2>5, <2>6, <2>8 DEF c
  <2>9. CASE ~raw /\ c \in {"quote", "backslash"}
    <3>1. c \in Escapable /\ Unescaped(c) = c /\ EscapeChar(c) = <<"backslash", c>>
      BY <2>9 DEF Escapable, Unescaped, EscapeChar
    <3>2. left = <<"backslash", c>> \o more
      BY <2>7, <2>9, <3>1
    <3> QED BY <2>1, <2>5, <3>1, <3>2, Zenon DEF c
  <2>10. CASE ~raw /\ c = "newline"
    <3>1. "n" \in Escapable /\ Unescaped("n") = c /\ EscapeChar(c) = <<"backslash", "n">>
      BY <2>10 DEF Escapable, Unescaped, EscapeChar
    <3>2. left = <<"backslash", "n">> \o more
      BY <2>7, <2>10, <3>1
    <3> QED BY <2>1, <2>5, <3>1, <3>2, Zenon DEF c
  <2>11. CASE ~raw /\ c \notin {"quote", "backslash", "newline"}
    <3>1. EscapeChar(c) = <<c>>
      BY <2>11 DEF EscapeChar
    <3> QED BY <2>1, <2>5, <2>7, <2>11, <3>1 DEF c
  <2> QED BY <2>8, <2>9, <2>10, <2>11
<1>8. k = Len(w) \/ k < Len(w)
  BY <1>1
<1> QED BY <1>6, <1>7, <1>8, Zenon

LEMMA Stays ==
    ASSUME formatted' = formatted, kind' = kind, NEW n, NEW k
    PROVE  /\ RestAfter(n)' = RestAfter(n)
           /\ LettersAfter(n, k)' = LettersAfter(n, k)
           /\ WordText(n)' = WordText(n)
           /\ IsExecutable(n)' <=> IsExecutable(n)
           /\ NoEmptyWord' <=> NoEmptyWord
<1>1. IsExecutable(n)' <=> IsExecutable(n)
  BY DEF IsExecutable
<1>2. RestAfter(n)' = RestAfter(n)
  BY DEF RestAfter
<1>3. LettersAfter(n, k)' = LettersAfter(n, k)
  BY <1>1 DEF LettersAfter
<1>4. WordText(n)' = WordText(n)
  BY <1>1 DEF WordText
<1>5. NoEmptyWord' <=> NoEmptyWord
  BY DEF NoEmptyWord
<1> QED BY <1>1, <1>2, <1>3, <1>4, <1>5

\* After the last letter of a word.
LEMMA EndShape ==
    ASSUME Parsing, NEW n \in Nat, n < Len(formatted)
    PROVE  /\ Closing \o RestAfter(n + 1) \in Seq(Char)
           /\ at # "quoted" => Closing \o RestAfter(n + 1) = RestAfter(n + 1)
           /\ at = "quoted" =>
                /\ Closing \o RestAfter(n + 1) # <<>>
                /\ Head(Closing \o RestAfter(n + 1)) = "quote"
                /\ Tail(Closing \o RestAfter(n + 1)) = RestAfter(n + 1)
<1> DEFINE r == RestAfter(n + 1)
<1>1. r \in Seq(Char)
  BY WordType, GapShape DEF Parsing
<1>2. "quote" \in Char /\ <<"quote">> \in Seq(Char)
  BY DEF Char
<1> HIDE DEF r
<1>3. CASE at = "quoted"
  <2>1. Closing = <<"quote">>
    BY <1>3 DEF Closing
  <2>2. /\ <<"quote">> \o r \in Seq(Char) /\ <<"quote">> \o r # <<>>
        /\ Head(<<"quote">> \o r) = "quote" /\ Tail(<<"quote">> \o r) = r
    BY <1>1, <1>2, OneBefore
  <2> QED BY <1>3, <2>1, <2>2 DEF r
<1>4. CASE at # "quoted"
  <2>1. Closing = <<>>
    BY <1>4 DEF Closing
  <2>2. <<>> \o r = r
    BY <1>1, ConcatEmptySeq
  <2> QED BY <1>1, <1>4, <2>1, <2>2 DEF r
<1> QED BY <1>3, <1>4

\* What the parser sees inside a word: the next letter, as it is or escaped.
LEMMA NextLetter ==
    ASSUME Parsing, NEW n \in Nat, NEW k \in Nat, k < Len(formatted[n+1]), AtLetter(n, k)
    PROVE  LET c == formatted[n+1][k+1]
               more == LettersAfter(n + 1, k + 1) \o (Closing \o RestAfter(n + 1))
           IN  /\ c \in Char
               /\ input # <<>>
               /\ \/ /\ Len(input) > 1 /\ Head(input) = "backslash"
                     /\ input[2] \in Escapable /\ Unescaped(input[2]) = c
                     /\ Tail(Tail(input)) = more
                  \/ /\ c \notin Excluded \cup {"backslash"}
                     /\ Head(input) = c
                     /\ Tail(input) = more
<1> DEFINE w == formatted[n+1]
           c == w[k+1]
           left == LettersAfter(n + 1, k)
           further == LettersAfter(n + 1, k + 1)
           end == Closing \o RestAfter(n + 1)
           more == further \o end
<1>1. n < Len(formatted) /\ input = left \o end /\ at = IF Contains(w, "space") THEN "quoted" ELSE "bare"
  BY DEF AtLetter
<1>2. end \in Seq(Char)
  BY <1>1, EndShape
<1>3. /\ c \in Char /\ further \in Seq(Char)
      /\ \/ \E d \in Escapable : Unescaped(d) = c /\ left = <<"backslash", d>> \o further
         \/ c \notin {"quote", "backslash"} /\ left = <<c>> \o further
  <2>1. Len(formatted[n+1]) \in Nat
    BY <1>1, WordType DEF Parsing
  <2>2. k \in 0..Len(formatted[n+1])
    BY <2>1
  <2> QED BY <1>1, <2>2, LettersShape
<1>4. c = "space" => at = "quoted"
  <2>1. w \in Seq(Char) /\ Len(w) \in Nat
    BY <1>1, WordType DEF Parsing
  <2>2. k + 1 \in 1..Len(w)
    BY <2>1
  <2> HIDE DEF w
  <2> QED BY <1>1, <2>2 DEF Contains
<1> SUFFICES /\ input # <<>>
             /\ \/ /\ Len(input) > 1 /\ Head(input) = "backslash"
                   /\ input[2] \in Escapable /\ Unescaped(input[2]) = c
                   /\ Tail(Tail(input)) = more
                \/ /\ c \notin Excluded \cup {"backslash"}
                   /\ Head(input) = c
                   /\ Tail(input) = more
  BY <1>3, Zenon
<1> HIDE DEF w, c, left, further, end
<1>5. more \in Seq(Char)
  BY <1>2, <1>3, TextsJoin
<1>6. ASSUME NEW d \in Escapable, Unescaped(d) = c, left = <<"backslash", d>> \o further
      PROVE  /\ Len(input) > 1 /\ Head(input) = "backslash" /\ input # <<>>
             /\ input[2] = d
             /\ Tail(Tail(input)) = more
  <2>1. "backslash" \in Char /\ d \in Char /\ <<"backslash", d>> \in Seq(Char)
    BY DEF Escapable, Char
  <2>2. input = <<"backslash", d>> \o more
    BY <1>1, <1>2, <1>3, <1>6, <2>1, TextsAssociate
  <2> HIDE DEF more
  <2>3. /\ input = <<"backslash">> \o (<<d>> \o more)
        /\ Len(input) > 1 /\ input[2] = d
    BY <1>5, <2>1, <2>2, TwoBefore
  <2>4. <<d>> \o more \in Seq(Char) /\ Tail(<<d>> \o more) = more
    BY <1>5, <2>1, OneBefore
  <2>5. input # <<>> /\ Head(input) = "backslash" /\ Tail(input) = <<d>> \o more
    BY <2>1, <2>3, <2>4, OneBefore
  <2> QED BY <2>3, <2>4, <2>5
<1>7. ASSUME c \notin {"quote", "backslash"}, left = <<c>> \o further
      PROVE  /\ c \notin Excluded \cup {"backslash"}
             /\ Head(input) = c /\ input # <<>>
             /\ Tail(input) = more
  <2>1. <<c>> \in Seq(Char)
    BY <1>3
  <2>2. input = <<c>> \o more
    BY <1>1, <1>2, <1>3, <1>7, <2>1, TextsAssociate
  <2> HIDE DEF more
  <2>3. Head(input) = c /\ input # <<>> /\ Tail(input) = more
    BY <1>3, <1>5, <2>2, OneBefore
  <2> QED BY <1>4, <1>7, <2>3 DEF Excluded
<1> QED BY <1>3, <1>6, <1>7

\* What the parser sees at the end of a word.
LEMMA NoLetter ==
    ASSUME Parsing, NEW n \in Nat, NEW k \in Nat, k = Len(formatted[n+1]), AtLetter(n, k)
    PROVE  /\ input = Closing \o RestAfter(n + 1)
           /\ input # <<>> => Head(input) \in Excluded
<1>1. n < Len(formatted) /\ input = LettersAfter(n + 1, k) \o (Closing \o RestAfter(n + 1))
  BY DEF AtLetter
<1>2. LettersAfter(n + 1, k) = <<>>
  <2>1. k \in 0..Len(formatted[n+1])
    OBVIOUS
  <2> QED BY <1>1, <2>1, LettersShape
<1> DEFINE end == Closing \o RestAfter(n + 1)
<1>3. end \in Seq(Char)
  BY <1>1, EndShape
<1>4. n + 1 \in 0..Len(formatted) /\ LineTypeOK
  BY <1>1, WordType DEF Parsing
<1>5. at # "quoted" /\ end # <<>> => Head(end) = "space"
  BY <1>1, <1>4, EndShape, GapBegins
<1>6. at = "quoted" => Head(end) = "quote"
  BY <1>1, EndShape
<1> HIDE DEF end
<1>7. input = end
  BY <1>1, <1>2, <1>3, ConcatEmptySeq DEF end
<1> QED BY <1>5, <1>6, <1>7 DEF Excluded, end

LEMMA LetterTaken ==
    ASSUME Parsing, NEW n \in 0..Len(formatted), NEW k \in 0..Len(formatted[n+1]),
           AtLetter(n, k), NoEmptyWord => words = SubSeq(formatted, 1, n),
           k < Len(formatted[n+1]), word' = Append(word, formatted[n+1][k+1]),
           input' = LettersAfter(n + 1, k + 1) \o (Closing \o RestAfter(n + 1)),
           UNCHANGED <<kind, words, at, formatted>>
    PROVE  Position(n)'
<1>1. n \in Nat /\ n < Len(formatted) /\ k \in Nat
  BY LenProperties DEF AtLetter
<1>2. formatted[n+1] \in Seq(Char) /\ Len(formatted[n+1]) \in Nat
  BY <1>1, WordType DEF Parsing
<1>3. k + 1 \in 0..Len(formatted[n+1])
  BY <1>1, <1>2
<1>4. /\ RestAfter(n + 1)' = RestAfter(n + 1)
      /\ LettersAfter(n + 1, k + 1)' = LettersAfter(n + 1, k + 1)
      /\ NoEmptyWord' <=> NoEmptyWord
  BY Stays
<1>5. Closing' = Closing
  BY DEF Closing
<1>6. NoEmptyWord => word' = SubSeq(formatted[n+1], 1, k + 1)
  BY <1>1, <1>2, UpToNext DEF AtLetter
<1>7. AtLetter(n, k + 1)'
  BY <1>1, <1>4, <1>5, <1>6 DEF AtLetter
<1> QED BY <1>1, <1>3, <1>4, <1>7 DEF Position

LEMMA InWordIsAtLetter ==
    ASSUME Parsing, NEW n \in 0..Len(formatted), Position(n), InWord
    PROVE  /\ n \in Nat /\ n < Len(formatted)
           /\ \E k \in 0..Len(formatted[n+1]) : AtLetter(n, k)
<1>1. n \in Nat
  BY LenProperties
<1> QED BY <1>1 DEF Position, AtGap, AtWord, InWord

LEMMA TakeCharKeeps ==
    ASSUME Parsing, NEW n \in 0..Len(formatted), Position(n), TakeChar
    PROVE  Position(n)'
<1>1. PICK k \in 0..Len(formatted[n+1]) : AtLetter(n, k)
  BY InWordIsAtLetter DEF TakeChar
<1>2. n \in Nat /\ n < Len(formatted) /\ k \in Nat /\ Len(formatted[n+1]) \in Nat
  BY InWordIsAtLetter, WordType DEF TakeChar, Parsing
<1>3. k < Len(formatted[n+1])
  <2>1. CASE k = Len(formatted[n+1])
    BY <1>1, <1>2, <2>1, NoLetter DEF TakeChar, Next1
  <2> QED BY <1>2, <2>1
<1>4. /\ word' = Append(word, formatted[n+1][k+1])
      /\ input' = LettersAfter(n + 1, k + 1) \o (Closing \o RestAfter(n + 1))
  BY <1>1, <1>2, <1>3, NextLetter DEF TakeChar, Next1
<1>5. UNCHANGED <<kind, words, at, formatted>> /\ (NoEmptyWord => words = SubSeq(formatted, 1, n))
  BY DEF TakeChar, Position
<1> QED BY <1>1, <1>3, <1>4, <1>5, LetterTaken

LEMMA TakeEscapedKeeps ==
    ASSUME Parsing, NEW n \in 0..Len(formatted), Position(n), TakeEscaped
    PROVE  Position(n)'
<1>1. PICK k \in 0..Len(formatted[n+1]) : AtLetter(n, k)
  BY InWordIsAtLetter DEF TakeEscaped
<1>2. n \in Nat /\ n < Len(formatted) /\ k \in Nat /\ Len(formatted[n+1]) \in Nat
  BY InWordIsAtLetter, WordType DEF TakeEscaped, Parsing
<1>3. input # <<>> /\ Head(input) = "backslash"
  BY DEF TakeEscaped, Next1
<1>4. k < Len(formatted[n+1])
  <2>1. CASE k = Len(formatted[n+1])
    BY <1>1, <1>2, <1>3, <2>1, NoLetter DEF Excluded
  <2> QED BY <1>2, <2>1
<1>5. /\ word' = Append(word, formatted[n+1][k+1])
      /\ input' = LettersAfter(n + 1, k + 1) \o (Closing \o RestAfter(n + 1))
  BY <1>1, <1>2, <1>3, <1>4, NextLetter DEF TakeEscaped
<1>6. UNCHANGED <<kind, words, at, formatted>> /\ (NoEmptyWord => words = SubSeq(formatted, 1, n))
  BY DEF TakeEscaped, Position
<1> QED BY <1>1, <1>4, <1>5, <1>6, LetterTaken

LEMMA NoBadEscape ==
    ASSUME Parsing, NEW n \in 0..Len(formatted), Position(n), BadEscape
    PROVE  FALSE
<1>1. PICK k \in 0..Len(formatted[n+1]) : AtLetter(n, k)
  BY InWordIsAtLetter DEF BadEscape
<1>2. n \in Nat /\ n < Len(formatted) /\ k \in Nat /\ Len(formatted[n+1]) \in Nat
  BY InWordIsAtLetter, WordType DEF BadEscape, Parsing
<1>3. input # <<>> /\ Head(input) = "backslash" /\ (Len(input) > 1 => input[2] \notin Escapable)
  BY DEF BadEscape, Next1
<1>4. k < Len(formatted[n+1])
  <2>1. CASE k = Len(formatted[n+1])
    BY <1>1, <1>2, <1>3, <2>1, NoLetter DEF Excluded
  <2> QED BY <1>2, <2>1
<1> QED BY <1>1, <1>2, <1>3, <1>4, NextLetter

LEMMA EndWordKeeps ==
    ASSUME Parsing, NEW n \in 0..Len(formatted), Position(n), EndWord
    PROVE  n + 1 \in 0..Len(formatted) /\ Position(n + 1)'
<1>1. PICK k \in 0..Len(formatted[n+1]) : AtLetter(n, k)
  BY InWordIsAtLetter DEF EndWord
<1>2. /\ n \in Nat /\ n < Len(formatted) /\ k \in Nat /\ Len(formatted[n+1]) \in Nat
      /\ formatted[n+1] \in Seq(Char) /\ n + 1 \in 0..Len(formatted)
      /\ formatted \in Seq(Seq(Char)) /\ LineTypeOK
  BY InWordIsAtLetter, WordType DEF EndWord, Parsing, LineTypeOK
<1>3. input # <<>> => Head(input) \in Excluded
  BY DEF EndWord, Next1
<1>4. k = Len(formatted[n+1])
  <2>1. CASE k < Len(formatted[n+1])
    BY <1>1, <1>2, <1>3, <2>1, NextLetter DEF Excluded
  <2> QED BY <1>2, <2>1
<1>5. input = Closing \o RestAfter(n + 1)
  BY <1>1, <1>2, <1>4, NoLetter
<1>6. RestAfter(n + 1) # <<>> => Head(RestAfter(n + 1)) = "space"
  BY <1>2, GapBegins
<1>7. at' = "between" /\ words' = Append(words, word) /\ input' = RestAfter(n + 1)
  <2>1. CASE at = "quoted"
    BY <1>2, <1>5, <1>6, <2>1, EndShape DEF EndWord
  <2>2. CASE at # "quoted"
    BY <1>2, <1>5, <1>6, <2>2, EndShape DEF EndWord, InWord
  <2> QED BY <2>1, <2>2
<1>8. UNCHANGED <<kind, formatted>>
  BY DEF EndWord
<1>9. RestAfter(n + 1)' = RestAfter(n + 1) /\ (NoEmptyWord' <=> NoEmptyWord)
  BY <1>8, Stays
<1>10. ~IsExecutable(n + 1 + 1)'
  BY <1>2 DEF IsExecutable
<1>11. NoEmptyWord => words' = SubSeq(formatted, 1, n + 1)
  <2>1. ASSUME NoEmptyWord PROVE words = SubSeq(formatted, 1, n) /\ word = formatted[n+1]
    BY <1>1, <1>2, <1>4, <2>1, SubSeqFull DEF Position, AtLetter
  <2> QED BY <1>2, <1>7, <2>1, UpToNext
<1> QED BY <1>2, <1>7, <1>8, <1>9, <1>10, <1>11 DEF Position, AtGap

\* Before a word that is not empty; an empty word is not there at all.
LEMMA BetweenWords ==
    ASSUME Parsing, NEW n \in 0..Len(formatted), Position(n), at = "between"
    PROVE  \E m \in 0..Len(formatted) :
                /\ NoEmptyWord => words = SubSeq(formatted, 1, m)
                /\ AtGap(m) \/ (AtWord(m) /\ formatted[m+1] # <<>>)
<1>1. n \in Nat /\ (AtGap(n) \/ AtWord(n)) /\ (NoEmptyWord => words = SubSeq(formatted, 1, n))
  BY LenProperties DEF Position, AtLetter
<1>2. ASSUME AtWord(n), formatted[n+1] = <<>>
      PROVE  n + 1 \in 0..Len(formatted) /\ AtGap(n + 1) /\ ~NoEmptyWord
  <2>1. /\ n < Len(formatted) /\ n + 1 \in 0..Len(formatted) /\ n + 1 \in 1..Len(formatted)
        /\ formatted \in Seq(Seq(Char)) /\ LineTypeOK
        /\ input = WordText(n + 1) \o RestAfter(n + 1)
    BY <1>1, <1>2, WordType DEF AtWord, Parsing, LineTypeOK
  <2>2. ~NoEmptyWord
    BY <1>2, <2>1, LenProperties DEF NoEmptyWord, ToSet
  <2>3. WordText(n + 1) = <<>>
    <3>1. AddQuotesIfNeeded(<<>>) = <<>>
      BY DEF AddQuotesIfNeeded, Contains
    <3> QED BY <1>2, <3>1, EscapeType DEF WordText
  <2>4. RestAfter(n + 1) \in Seq(Char)
    BY <2>1, GapShape
  <2>5. input = RestAfter(n + 1)
    BY <2>1, <2>3, <2>4, ConcatEmptySeq
  <2>6. ~IsExecutable(n + 1 + 1)
    BY <1>1 DEF IsExecutable
  <2> QED BY <2>1, <2>2, <2>5, <2>6 DEF AtGap
<1> QED BY <1>1, <1>2

\* What the parser sees before a word.
LEMMA WordBegins ==
    ASSUME Parsing, NEW n \in Nat, AtWord(n), formatted[n+1] # <<>>
    PROVE  /\ input # <<>> /\ Head(input) # "space"
           /\ Head(input) = "quote" <=> Contains(formatted[n+1], "space")
           /\ Head(input) = "quote" =>
                Tail(input) = LettersAfter(n + 1, 0) \o (<<"quote">> \o RestAfter(n + 1))
           /\ Head(input) # "quote" => input = LettersAfter(n + 1, 0) \o RestAfter(n + 1)
<1> DEFINE w == formatted[n+1]
           left == LettersAfter(n + 1, 0)
           rest == RestAfter(n + 1)
           further == LettersAfter(n + 1, 1)
<1>1. /\ n < Len(formatted) /\ n + 1 \in 0..Len(formatted) /\ LineTypeOK
      /\ w \in Seq(Char) /\ Len(w) \in Nat \ {0}
  BY WordType, EmptySeq DEF AtWord, Parsing
<1>2. rest \in Seq(Char)
  BY <1>1, GapShape
<1>3. /\ left \in Seq(Char) /\ further \in Seq(Char) /\ w[1] \in Char
      /\ \/ \E d \in Escapable : Unescaped(d) = w[1] /\ left = <<"backslash", d>> \o further
         \/ w[1] \notin {"quote", "backslash"} /\ left = <<w[1]>> \o further
  <2>1. PICK k \in Nat : k = 0
    OBVIOUS
  <2>2. k \in 0..Len(formatted[n+1]) /\ k < Len(formatted[n+1])
    BY <1>1, <2>1
  <2>3. /\ LettersAfter(n + 1, k) \in Seq(Char) /\ LettersAfter(n + 1, k + 1) \in Seq(Char)
        /\ formatted[n+1][k+1] \in Char
        /\ \/ \E d \in Escapable :
                /\ Unescaped(d) = formatted[n+1][k+1]
                /\ LettersAfter(n + 1, k) = <<"backslash", d>> \o LettersAfter(n + 1, k + 1)
           \/ /\ formatted[n+1][k+1] \notin {"quote", "backslash"}
              /\ LettersAfter(n + 1, k) = <<formatted[n+1][k+1]>> \o LettersAfter(n + 1, k + 1)
    BY <1>1, <2>2, LettersShape
  <2>4. k + 1 = 1
    BY <2>1
  <2> QED BY <2>1, <2>3, <2>4
<1>4. Contains(w, "space") => ~IsExecutable(n + 1)
  <2>1. IsExecutable(n + 1) => w = formatted[1] /\ PlainExecutable(w)
    BY DEF IsExecutable, Parsing
  <2> HIDE DEF w
  <2>2. DOMAIN w = 1..Len(w)
    BY <1>1, LenProperties
  <2>3. PlainExecutable(w) => ~Contains(w, "space")
    BY <2>2, CommandLineAssumption DEF PlainExecutable, ToSet, Contains
  <2> QED BY <2>1, <2>3
<1>5. left = IF IsExecutable(n + 1) THEN w ELSE Escape(w)
  BY <1>1, AfterNone DEF LettersAfter
<1>6. input = (IF Contains(w, "space") THEN <<"quote">> \o left \o <<"quote">> ELSE left) \o rest
  <2>1. WordText(n + 1) = IF Contains(w, "space") THEN <<"quote">> \o left \o <<"quote">> ELSE left
    BY <1>1, <1>4, <1>5, EscapeKeepsSpaces DEF WordText, AddQuotesIfNeeded
  <2> QED BY <2>1 DEF AtWord
<1>7. "quote" \in Char /\ "backslash" \in Char /\ <<"quote">> \in Seq(Char)
  BY DEF Char
<1>8. ~Contains(w, "space") => w[1] # "space"
  <2>1. 1 \in 1..Len(w)
    BY <1>1
  <2> HIDE DEF w
  <2> QED BY <2>1 DEF Contains
<1> HIDE DEF w, left, rest, further
<1>9. CASE Contains(w, "space")
  <2>1. <<"quote">> \o left \in Seq(Char) /\ <<"quote">> \o rest \in Seq(Char)
    BY <1>2, <1>3, <1>7, TextsJoin
  <2> DEFINE more == left \o (<<"quote">> \o rest)
  <2>2. more \in Seq(Char)
    BY <1>3, <2>1, TextsJoin
  <2>3. input = (<<"quote">> \o left) \o (<<"quote">> \o rest)
    <3>1. input = (<<"quote">> \o left \o <<"quote">>) \o rest
      BY <1>6, <1>9
    <3>2. (<<"quote">> \o left \o <<"quote">>) \o rest = (<<"quote">> \o left) \o (<<"quote">> \o rest)
      BY <1>2, <1>7, <2>1, TextsAssociate
    <3> QED BY <3>1, <3>2
  <2>4. input = <<"quote">> \o more
    BY <1>3, <1>7, <2>1, <2>3, TextsAssociate
  <2> HIDE DEF more
  <2>5. input # <<>> /\ Head(input) = "quote" /\ Tail(input) = more
    BY <1>7, <2>2, <2>4, OneBefore
  <2> QED BY <1>9, <2>5 DEF more, w, left, rest
<1>10. CASE ~Contains(w, "space")
  <2>1. input = left \o rest
    BY <1>6, <1>10
  <2>2. further \o rest \in Seq(Char)
    BY <1>2, <1>3, TextsJoin
  <2> DEFINE more == further \o rest
  <2>3. input # <<>> /\ Head(input) \notin {"space", "quote"}
    <3>1. ASSUME NEW d \in Escapable, left = <<"backslash", d>> \o further
          PROVE  input # <<>> /\ Head(input) = "backslash"
      <4>1. d \in Char /\ <<"backslash", d>> \in Seq(Char)
        BY <1>7 DEF Escapable, Char
      <4>2. input = <<"backslash", d>> \o more
        BY <1>2, <1>3, <2>1, <3>1, <4>1, TextsAssociate
      <4> HIDE DEF more
      <4>3. more \in Seq(Char)
        BY <2>2 DEF more
      <4>4. input = <<"backslash">> \o (<<d>> \o more)
        <5>1. <<"backslash", d>> \o more = <<"backslash">> \o (<<d>> \o more)
          BY <1>7, <4>1, <4>3, TwoBefore
        <5> QED BY <4>2, <5>1
      <4>5. <<d>> \o more \in Seq(Char)
        BY <4>1, <4>3, OneBefore
      <4> QED BY <1>7, <4>4, <4>5, OneBefore
    <3>2. ASSUME w[1] \notin {"quote", "backslash"}, left = <<w[1]>> \o further
          PROVE  input # <<>> /\ Head(input) = w[1]
      <4>1. <<w[1]>> \in Seq(Char)
        BY <1>3
      <4>2. input = <<w[1]>> \o more
        BY <1>2, <1>3, <2>1, <3>2, <4>1, TextsAssociate
      <4> HIDE DEF more
      <4> QED BY <1>3, <2>2, <4>2, OneBefore DEF more
    <3> QED BY <1>3, <1>8, <1>10, <3>1, <3>2
  <2> QED BY <1>10, <2>1, <2>3 DEF w, left, rest
<1> QED BY <1>9, <1>10

LEMMA SkipSpacesKeeps ==
    ASSUME Parsing, NEW n \in 0..Len(formatted), Position(n), SkipSpaces
    PROVE  \E m \in 0..Len(formatted) : Position(m)'
<1>1. at = "between" /\ input # <<>> /\ Head(input) = "space" /\ input' = Tail(input)
      /\ UNCHANGED <<kind, formatted, words, at>>
  BY DEF SkipSpaces, Next1
<1>2. PICK m \in 0..Len(formatted) :
            /\ NoEmptyWord => words = SubSeq(formatted, 1, m)
            /\ AtGap(m) \/ (AtWord(m) /\ formatted[m+1] # <<>>)
  BY <1>1, BetweenWords
<1>3. m \in Nat
  BY LenProperties
<1>4. AtGap(m)
  BY <1>1, <1>2, <1>3, WordBegins
<1>5. /\ m < Len(formatted)
      /\ Tail(RestAfter(m)) = AddQuotesIfNeeded(Escape(formatted[m+1])) \o RestAfter(m + 1)
  BY <1>1, <1>4, GapBegins DEF AtGap, Parsing
<1>6. /\ WordText(m + 1)' = WordText(m + 1) /\ RestAfter(m + 1)' = RestAfter(m + 1)
      /\ NoEmptyWord' <=> NoEmptyWord
  BY <1>1, Stays
<1>7. WordText(m + 1) = AddQuotesIfNeeded(Escape(formatted[m+1]))
  BY <1>4 DEF WordText, AtGap
<1>8. AtWord(m)'
  BY <1>1, <1>4, <1>5, <1>6, <1>7 DEF AtWord, AtGap
<1> QED BY <1>1, <1>2, <1>6, <1>8 DEF Position

LEMMA BeginWordKeeps ==
    ASSUME Parsing, NEW n \in 0..Len(formatted), Position(n), BeginWord
    PROVE  \E m \in 0..Len(formatted) : Position(m)'
<1>1. /\ at = "between" /\ input # <<>> /\ Head(input) # "space" /\ word' = <<>>
      /\ at' = IF Head(input) = "quote" THEN "quoted" ELSE "bare"
      /\ input' = IF Head(input) = "quote" THEN Tail(input) ELSE input
      /\ UNCHANGED <<kind, formatted, words>>
  BY DEF BeginWord, Next1
<1>2. PICK m \in 0..Len(formatted) :
            /\ NoEmptyWord => words = SubSeq(formatted, 1, m)
            /\ AtGap(m) \/ (AtWord(m) /\ formatted[m+1] # <<>>)
  BY <1>1, BetweenWords
<1>3. m \in Nat
  BY LenProperties
<1>4. AtWord(m) /\ formatted[m+1] # <<>> /\ m < Len(formatted)
  BY <1>1, <1>2, GapBegins DEF AtGap, AtWord, Parsing
<1>5. /\ LettersAfter(m + 1, 0)' = LettersAfter(m + 1, 0) /\ RestAfter(m + 1)' = RestAfter(m + 1)
      /\ NoEmptyWord' <=> NoEmptyWord
  BY <1>1, Stays
<1>6. /\ formatted[m+1] \in Seq(Char) /\ Len(formatted[m+1]) \in Nat
      /\ RestAfter(m + 1) \in Seq(Char)
  BY <1>3, <1>4, WordType, GapShape DEF Parsing
<1>7. at' = IF Contains(formatted[m+1], "space") THEN "quoted" ELSE "bare"
  BY <1>1, <1>3, <1>4, WordBegins
<1>8. input' = LettersAfter(m + 1, 0) \o (Closing' \o RestAfter(m + 1))
  <2>1. CASE Head(input) = "quote"
    <3>1. Closing' = <<"quote">>
      BY <1>1, <2>1 DEF Closing
    <3> QED BY <1>1, <1>3, <1>4, <2>1, <3>1, WordBegins
  <2>2. CASE Head(input) # "quote"
    <3>1. Closing' = <<>>
      BY <1>1, <2>2 DEF Closing
    <3>2. <<>> \o RestAfter(m + 1) = RestAfter(m + 1)
      BY <1>6, ConcatEmptySeq
    <3> QED BY <1>1, <1>3, <1>4, <2>2, <3>1, <3>2, WordBegins
  <2> QED BY <2>1, <2>2
<1>9. SubSeq(formatted[m+1], 1, 0) = <<>>
  BY SubSeqEmpty
<1>10. AtLetter(m, 0)'
  BY <1>1, <1>4, <1>5, <1>7, <1>8, <1>9 DEF AtLetter
<1>11. 0 \in 0..Len(formatted[m+1])
  BY <1>6
<1> QED BY <1>1, <1>2, <1>4, <1>5, <1>10, <1>11 DEF Position

LEMMA EndOfInputKeeps ==
    ASSUME Parsing, NEW n \in 0..Len(formatted), Position(n), EndOfInput
    PROVE  \E m \in 0..Len(formatted) : Position(m)'
<1>1. /\ at = "between" /\ input = <<>>
      /\ at' = IF kind = "command" /\ words = <<>> THEN "error" ELSE "end"
      /\ UNCHANGED <<kind, formatted, words>>
  BY DEF EndOfInput
<1>2. PICK m \in 0..Len(formatted) :
            /\ NoEmptyWord => words = SubSeq(formatted, 1, m)
            /\ AtGap(m) \/ (AtWord(m) /\ formatted[m+1] # <<>>)
  BY <1>1, BetweenWords
<1>3. m \in Nat /\ Len(formatted) \in Nat /\ formatted \in Seq(Seq(Char))
  BY LenProperties DEF Parsing, LineTypeOK
<1>4. AtGap(m)
  BY <1>1, <1>2, <1>3, WordBegins
<1>5. m = Len(formatted)
  <2>1. CASE m < Len(formatted)
    <3> DEFINE t == AddQuotesIfNeeded(Escape(formatted[m+1])) \o RestAfter(m + 1)
    <3>1. t \in Seq(Char) /\ RestAfter(m) = <<"space">> \o t
      BY <2>1, GapShape DEF Parsing
    <3>2. "space" \in Char
      BY DEF Char
    <3> HIDE DEF t
    <3>3. RestAfter(m) # <<>>
      BY <3>1, <3>2, OneBefore
    <3> QED BY <1>1, <1>4, <3>3 DEF AtGap
  <2> QED BY <1>3, <2>1
<1>6. kind = "command" => words # <<>>
  BY <1>2, <1>3, <1>5, SubSeqFull DEF Parsing
<1>7. NoEmptyWord' <=> NoEmptyWord
  BY <1>1, Stays
<1> QED BY <1>1, <1>2, <1>5, <1>6, <1>7 DEF Position

\* The words that were formatted are before the parser.
LEMMA ReformatStarts ==
    ASSUME LineTypeOK, kind = "command" => words # <<>>, Reformat
    PROVE  \E m \in 0..Len(formatted') : Position(m)'
<1>1. /\ formatted' = words /\ words' = <<>> /\ at' = "between" /\ kind' = kind
      /\ input' = IF kind = "arguments" THEN FormatArguments(words) ELSE FormatCommand(words)
      /\ words \in Seq(Seq(Char)) /\ Len(words) \in Nat /\ kind \in {"arguments", "command"}
  BY LenProperties DEF Reformat, LineTypeOK
<1>2. 0 \in 0..Len(formatted')
  BY <1>1
<1>3. SubSeq(words, 1, 0) = <<>>
  BY SubSeqEmpty
<1>4. CASE words = <<>>
  <2>1. kind = "arguments"
    BY <1>1, <1>4
  <2>2. FormatArguments(words) = <<>>
    <3>1. [i \in 1..Len(words) |-> AddQuotesIfNeeded(Escape(words[i]))] = <<>>
      BY <1>4
    <3> QED BY <3>1 DEF FormatArguments, Join
  <2>3. RestAfter(0)' = <<>>
    <3>1. After(words, 0) = <<>>
      BY <1>1, <1>4, AfterNone
    <3> QED BY <1>1, <3>1, RestType DEF RestAfter
  <2>4. AtGap(0)'
    BY <1>1, <2>1, <2>2, <2>3 DEF AtGap, IsExecutable
  <2> QED BY <1>1, <1>2, <1>3, <2>4 DEF Position
<1>5. CASE words # <<>>
  <2>1. /\ After(words, 0) = words
        /\ After(words, 1) = Tail(words)
    <3>1. PICK k \in Nat : k = 0
      OBVIOUS
    <3>2. k < Len(words) /\ k + 1 = 1
      BY <1>1, <1>5, <3>1, EmptySeq
    <3>3. Tail(After(words, k)) = After(words, k + 1)
      BY <1>1, <3>2, AfterSome
    <3>4. After(words, 0) = words
      BY <1>1, AfterNone
    <3> QED BY <3>1, <3>2, <3>3, <3>4
  <2>2. RestAfter(1)' = Rest(Tail(words))
    BY <1>1, <2>1 DEF RestAfter
  <2>3. input' = WordText(1)' \o Rest(Tail(words))
    <3>1. CASE kind = "arguments"
      <4>1. WordText(1)' = AddQuotesIfNeeded(Escape(words[1]))
        BY <1>1, <3>1 DEF WordText, IsExecutable
      <4> QED BY <1>1, <1>5, <3>1, <4>1, JoinIsRest
    <3>2. CASE kind = "command"
      <4>1. WordText(1)' = words[1]
        BY <1>1, <3>2 DEF WordText, IsExecutable
      <4> QED BY <1>1, <1>5, <3>2, <4>1, CommandIsRest
    <3> QED BY <1>1, <3>1, <3>2
  <2>4. 0 < Len(words)
    BY <1>1, <1>5, EmptySeq
  <2>5. AtWord(0)'
    <3>1. input' = WordText(1)' \o RestAfter(1)'
      BY <2>2, <2>3
    <3>2. at' = "between" /\ 0 < Len(formatted')
      BY <1>1, <2>4
    <3> QED BY <3>1, <3>2 DEF AtWord
  <2> QED BY <1>1, <1>2, <1>3, <2>5 DEF Position
<1> QED BY <1>4, <1>5

LEMMA LineTypeKept ==
    ASSUME LineTypeOK, kind = "command" /\ at = "end" => words # <<>>, [LineNext]_lineVars
    PROVE  LineTypeOK'
<1> USE DEF LineTypeOK
<1>1. CASE SkipSpaces
  BY <1>1, HeadTailProperties DEF SkipSpaces
<1>2. CASE BeginWord
  BY <1>2, HeadTailProperties, EmptySeq DEF BeginWord
<1>3. CASE EndOfInput
  BY <1>3 DEF EndOfInput
<1>4. CASE TakeChar
  BY <1>4, HeadTailProperties, AppendProperties DEF TakeChar, Next1
<1>5. CASE TakeEscaped
  <2>1. Len(input) \in Nat /\ Len(input) > 1 /\ input \in Seq(Char) /\ word \in Seq(Char)
    BY <1>5, LenProperties DEF TakeEscaped
  <2> DEFINE t == Tail(input)
  <2>2. input # <<>> /\ t \in Seq(Char) /\ Len(t) = Len(input) - 1
    BY <2>1, HeadTailProperties, EmptySeq
  <2> HIDE DEF t
  <2>3. t # <<>>
    BY <2>1, <2>2, EmptySeq
  <2>4. Tail(t) \in Seq(Char)
    BY <2>2, <2>3, HeadTailProperties
  <2> USE DEF t
  <2>5. Unescaped(input[2]) \in Char
    BY <2>1, ElementOfSeq DEF Unescaped, Char
  <2>6. Append(word, Unescaped(input[2])) \in Seq(Char)
    BY <2>1, <2>5, AppendProperties
  <2> QED BY <1>5, <2>4, <2>6 DEF TakeEscaped
<1>6. CASE BadEscape
  BY <1>6 DEF BadEscape
<1>7. CASE EndWord
  <2>1. words' \in Seq(Seq(Char))
    BY <1>7, AppendProperties DEF EndWord
  <2>2. input' \in Seq(Char)
    BY <1>7, HeadTailProperties DEF EndWord
  <2> QED BY <1>7, <2>1, <2>2 DEF EndWord
<1>8. CASE Reformat
  <2>1. words \in Seq(Seq(Char)) /\ (kind = "command" => words # <<>>) /\ kind \in {"arguments", "command"}
    BY <1>8 DEF Reformat
  <2>2. input' \in Seq(Char)
    BY <1>8, <2>1, FormatArgumentsType, FormatCommandType DEF Reformat
  <2> QED BY <1>8, <2>2, EmptySeq DEF Reformat
<1>9. CASE UNCHANGED lineVars
  BY <1>9 DEF lineVars
<1> QED BY <1>1, <1>2, <1>3, <1>4, <1>5, <1>6, <1>7, <1>8, <1>9 DEF LineNext, Parsed

LEMMA LineInvInit == LineInit => LineInv
<1> SUFFICES ASSUME LineInit PROVE LineInv
  OBVIOUS
<1>1. PICK n \in 0..MaxLength : input \in [1..n -> Char]
  BY DEF LineInit
<1>2. n \in Nat
  BY <1>1, CommandLineAssumption
<1>3. input \in Seq(Char)
  BY <1>1, <1>2, SeqDef
<1> QED BY <1>3, EmptySeq DEF LineInit, LineInv, LineTypeOK

LEMMA LineInvKept == LineInv /\ [LineNext]_lineVars => LineInv'
<1> SUFFICES ASSUME LineInv, [LineNext]_lineVars PROVE LineInv'
  OBVIOUS
<1>1. LineTypeOK'
  BY LineTypeKept DEF LineInv
<1>2. kind' = "command" => (at' = "end" => words' # <<>>) /\ (phase' = 2 => formatted' # <<>>)
  <2>1. CASE Reformat
    BY <2>1 DEF Reformat, LineInv
  <2>2. CASE ~Reformat
    BY <2>2 DEF LineInv, LineNext, lineVars, SkipSpaces, BeginWord, EndOfInput, TakeChar, TakeEscaped,
                BadEscape, EndWord, Parsed, InWord
  <2> QED BY <2>1, <2>2
<1> DEFINE Refused == kind = "command" /\ ~(NoEmptyWord /\ PlainExecutable(formatted[1]))
<1>3. phase' = 2 => (\E n \in 0..Len(formatted) : Position(n))' \/ Refused'
  <2>1. CASE Reformat
    <3>1. kind = "command" => words # <<>>
      BY <2>1 DEF Reformat, LineInv
    <3> QED BY <2>1, <3>1, ReformatStarts DEF LineInv
  <2> SUFFICES ASSUME ~Reformat, phase' = 2
               PROVE  (\E n \in 0..Len(formatted) : Position(n))' \/ Refused'
    BY <2>1
  <2>2. UNCHANGED <<kind, phase, formatted>>
    BY DEF LineNext, lineVars, SkipSpaces, BeginWord, EndOfInput, TakeChar, TakeEscaped,
           BadEscape, EndWord, Parsed
  <2>3. CASE Refused
    BY <2>2, <2>3, Stays
  <2>4. CASE ~Refused
    <3>1. Parsing
      BY <2>2, <2>4 DEF Parsing, LineInv
    <3>2. PICK n \in 0..Len(formatted) : Position(n)
      BY <2>2, <2>4 DEF LineInv
    <3>3. n + 1 \in 0..Len(formatted) /\ Position(n + 1)' => \E m \in 0..Len(formatted) : Position(m)'
      OBVIOUS
    <3> HIDE DEF Refused
    <3>4. SkipSpaces \/ BeginWord \/ EndOfInput \/ TakeChar \/ TakeEscaped \/ BadEscape \/ EndWord
          => \E m \in 0..Len(formatted) : Position(m)'
      BY <3>1, <3>2, <3>3, SkipSpacesKeeps, BeginWordKeeps, EndOfInputKeeps, TakeCharKeeps,
         TakeEscapedKeeps, NoBadEscape, EndWordKeeps
    <3>5. UNCHANGED lineVars => \E m \in 0..Len(formatted) : Position(m)'
      <4> SUFFICES ASSUME UNCHANGED lineVars PROVE Position(n)'
        BY <3>2
      <4> QED
        BY <3>2 DEF lineVars, Position, AtGap, AtWord, AtLetter, NoEmptyWord, RestAfter, WordText,
           LettersAfter, IsExecutable, Closing
    <3>6. \/ SkipSpaces \/ BeginWord \/ EndOfInput \/ TakeChar \/ TakeEscaped \/ BadEscape \/ EndWord
          \/ UNCHANGED lineVars
      BY DEF LineNext, Parsed
    <3>7. \E m \in 0..Len(formatted) : Position(m)'
      BY <3>4, <3>5, <3>6, Zenon
    <3> QED BY <2>2, <3>7
  <2> QED BY <2>3, <2>4
<1> QED BY <1>1, <1>2, <1>3 DEF LineInv

(***************************************************************************)
(* What is left of a formatted text always spells what is left of the      *)
(* words (Command::format, Parser), for texts of any length.               *)
(***************************************************************************)
THEOREM LineInvariant == LineSpec => []LineInv
<1> QED BY LineInvInit, LineInvKept, PTL DEF LineSpec

(***************************************************************************)
(* The words of a recorded command are those that are read from its text,  *)
(* with quotes, backslashes, newlines and spaces in any combination.       *)
(***************************************************************************)
THEOREM WordsSurvive == LineSpec => []PlainSurvives
<1>1. LineInv => PlainSurvives
  <2> SUFFICES ASSUME LineInv, NoEmptyWord, phase = 2,
                      kind = "command" /\ formatted # <<>> => PlainExecutable(formatted[1])
               PROVE  at # "error" /\ (at = "end" => words = formatted)
    BY DEF PlainSurvives, Survived, NoEmptyWord
  <2>1. PICK n \in 0..Len(formatted) : Position(n)
    BY DEF LineInv
  <2>2. formatted \in Seq(Seq(Char))
    BY DEF LineInv, LineTypeOK
  <2> QED BY <2>1, <2>2, SubSeqFull DEF Position, AtGap, AtWord, AtLetter
<1> QED BY <1>1, LineInvariant, PTL

(***************************************************************************)
(* Arguments that scriptkeeper formats are accepted by its parser, even    *)
(* with empty words.                                                       *)
(***************************************************************************)
THEOREM ArgumentsAccepted == LineSpec => []FormattedIsAccepted
<1>1. LineInv => FormattedIsAccepted
  BY DEF LineInv, FormattedIsAccepted, Position, AtGap, AtWord, AtLetter
<1> QED BY <1>1, LineInvariant, PTL
=============================================================================
