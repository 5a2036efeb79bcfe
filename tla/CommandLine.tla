----------------------------- MODULE CommandLine -----------------------------
(***************************************************************************)
(* Commands as text: the parser of src/src/test_spec/argument_parser.rs,   *)
(* which takes one character after the other off its input, and the        *)
(* formatter of src/src/test_spec/command.rs.  A text of a test file is    *)
(* parsed, the words are formatted, as for a recorded test file, and what  *)
(* comes out is parsed once more.                                          *)
(***************************************************************************)
EXTENDS Naturals, Sequences, SequencesExt

CONSTANTS
    Plain,        \* characters without a meaning
    MaxLength     \* bound on the length of a text

\* The characters that mean something, and the letter n of a \n.
Char == Plain \cup {"space", "quote", "backslash", "newline", "n"}

ASSUME CommandLineAssumption ==
    /\ Plain # {}
    /\ Plain \cap {"space", "quote", "backslash", "newline", "n"} = {}
    /\ MaxLength \in Nat

VARIABLES
    kind,         \* "arguments": the arguments of a script; "command": a step
    phase,        \* 1: the text of the file, 2: the formatted text
    input,        \* Parser.input
    words,        \* the words parsed so far
    word,         \* the word being collected
    at,           \* where the parser is: between words, in a bare or a quoted word,
                  \* at the end, or at an error
    formatted     \* the words that were formatted

lineVars == <<kind, phase, input, words, word, at, formatted>>

-----------------------------------------------------------------------------
(***************************************************************************)
(* The formatter.                                                          *)
(***************************************************************************)
\* Broken: a backslash is not escaped.
EscapeNoBackslash(c) ==
    IF c = "quote" THEN <<"backslash", "quote">>
    ELSE IF c = "newline" THEN <<"backslash", "n">> ELSE <<c>>

\* escape_char
EscapeChar(c) ==
    IF c \in {"quote", "backslash"} THEN <<"backslash", c>>
    ELSE IF c = "newline" THEN <<"backslash", "n">> ELSE <<c>>

Escape(w) == FlattenSeq([i \in 1..Len(w) |-> EscapeChar(w[i])])

AddQuotesIfNeeded(w) ==
    IF Contains(w, "space") THEN <<"quote">> \o w \o <<"quote">> ELSE w

\* join(" ")
Join(ws) ==
    IF ws = <<>> THEN <<>>
    ELSE FlattenSeq([i \in 1..Len(ws) |-> IF i = 1 THEN ws[1] ELSE <<"space">> \o ws[i]])

FormatArguments(ws) == Join([i \in 1..Len(ws) |-> AddQuotesIfNeeded(Escape(ws[i]))])

\* Command::format: the executable is neither escaped nor quoted.
FormatCommand(ws) ==
    IF Len(ws) = 1 THEN ws[1] ELSE ws[1] \o <<"space">> \o FormatArguments(Tail(ws))

-----------------------------------------------------------------------------
(***************************************************************************)
(* The parser.                                                             *)
(***************************************************************************)
Next1 == Head(input)
InWord == at \in {"bare", "quoted"}

\* The characters at which a word ends.
Excluded == IF at = "quoted" THEN {"quote"} ELSE {"space", "quote"}

Escapable == {"quote", "n", "space", "backslash"}
Unescaped(c) == IF c = "n" THEN "newline" ELSE c

SkipSpaces ==
    /\ at = "between"
    /\ input # <<>> /\ Next1 = "space"
    /\ input' = Tail(input)
    /\ UNCHANGED <<kind, phase, words, word, at, formatted>>

BeginWord ==
    /\ at = "between"
    /\ input # <<>> /\ Next1 # "space"
    /\ word' = <<>>
    /\ at' = IF Next1 = "quote" THEN "quoted" ELSE "bare"
    /\ input' = IF Next1 = "quote" THEN Tail(input) ELSE input
    /\ UNCHANGED <<kind, phase, words, formatted>>

EndOfInput ==
    /\ at = "between"
    /\ input = <<>>
    /\ at' = IF kind = "command" /\ words = <<>> THEN "error" ELSE "end"
    /\ UNCHANGED <<kind, phase, input, words, word, formatted>>

\* parse_char
TakeChar ==
    /\ InWord
    /\ input # <<>> /\ Next1 \notin Excluded \cup {"backslash"}
    /\ word' = Append(word, Next1)
    /\ input' = Tail(input)
    /\ UNCHANGED <<kind, phase, words, at, formatted>>

TakeEscaped ==
    /\ InWord
    /\ Len(input) > 1 /\ Next1 = "backslash" /\ input[2] \in Escapable
    /\ word' = Append(word, Unescaped(input[2]))
    /\ input' = Tail(Tail(input))
    /\ UNCHANGED <<kind, phase, words, at, formatted>>

BadEscape ==
    /\ InWord
    /\ input # <<>> /\ Next1 = "backslash"
    /\ Len(input) > 1 => input[2] \notin Escapable
    /\ at' = "error"
    /\ UNCHANGED <<kind, phase, input, words, word, formatted>>

\* parse_word, after collect_chars_until: a quoted word needs its closing quote,
\* and a space or nothing must follow.
EndWord ==
    /\ InWord
    /\ input # <<>> => Next1 \in Excluded
    /\ LET closed == at = "bare" \/ input # <<>>
           rest   == IF at = "bare" \/ input = <<>> THEN input ELSE Tail(input)
           ok     == closed /\ (rest = <<>> \/ Head(rest) = "space")
       IN  /\ at' = IF ok THEN "between" ELSE "error"
           /\ words' = IF ok THEN Append(words, word) ELSE words
           /\ input' = rest
    /\ UNCHANGED <<kind, phase, word, formatted>>

\* Test::serialize and Step::serialize
Reformat ==
    /\ phase = 1
    /\ at = "end"
    /\ phase' = 2
    /\ formatted' = words
    /\ input' = IF kind = "arguments" THEN FormatArguments(words) ELSE FormatCommand(words)
    /\ words' = <<>>
    /\ at' = "between"
    /\ UNCHANGED <<kind, word>>

Parsed ==
    /\ at = "error" \/ (phase = 2 /\ at = "end")
    /\ UNCHANGED lineVars

LineInit ==
    /\ kind \in {"arguments", "command"}
    /\ phase = 1
    /\ input \in UNION {[1..n -> Char] : n \in 0..MaxLength}
    /\ words = <<>>
    /\ word = <<>>
    /\ at = "between"
    /\ formatted = <<>>

LineNext ==
    \/ SkipSpaces \/ BeginWord \/ EndOfInput
    \/ TakeChar \/ TakeEscaped \/ BadEscape \/ EndWord
    \/ Reformat \/ Parsed

LineSpec == LineInit /\ [][LineNext]_lineVars

-----------------------------------------------------------------------------
(***************************************************************************)
(* The inductive invariant: the formatted text that is left spells what is *)
(* left of the words that were formatted.                                  *)
(***************************************************************************)
After(s, n) == SubSeq(s, n + 1, Len(s))

\* The n-th formatted word, and its letters after the first k ones.
IsExecutable(n) == kind = "command" /\ n = 1
WordText(n) ==
    IF IsExecutable(n) THEN formatted[n] ELSE AddQuotesIfNeeded(Escape(formatted[n]))
LettersAfter(n, k) ==
    IF IsExecutable(n) THEN After(formatted[n], k) ELSE Escape(After(formatted[n], k))

\* The text of further words.
Rest(ws) == FlattenSeq([i \in 1..Len(ws) |-> <<"space">> \o AddQuotesIfNeeded(Escape(ws[i]))])
RestAfter(n) == Rest(After(formatted, n))

\* Words that the parser finds again.
NoEmptyWord == <<>> \notin ToSet(formatted)

\* A word that formatting can get wrong.
PlainExecutable(w) == ToSet(w) \subseteq Plain \cup {"n", "newline"}

\* After n words, before a space or the end.
AtGap(n) == at = "between" /\ ~IsExecutable(n + 1) /\ input = RestAfter(n)

\* After n words, before the next one.
AtWord(n) == at = "between" /\ n < Len(formatted) /\ input = WordText(n + 1) \o RestAfter(n + 1)

\* After n words and k letters.
Closing == IF at = "quoted" THEN <<"quote">> ELSE <<>>
AtLetter(n, k) ==
    /\ n < Len(formatted)
    /\ at = IF Contains(formatted[n+1], "space") THEN "quoted" ELSE "bare"
    /\ input = LettersAfter(n + 1, k) \o (Closing \o RestAfter(n + 1))
    /\ NoEmptyWord => word = SubSeq(formatted[n+1], 1, k)

Position(n) ==
    /\ NoEmptyWord => words = SubSeq(formatted, 1, n)
    /\ \/ AtGap(n)
       \/ AtWord(n)
       \/ n < Len(formatted) /\ \E k \in 0..Len(formatted[n+1]) : AtLetter(n, k)
       \/ at = "end" /\ n = Len(formatted)

LineTypeOK ==
    /\ kind \in {"arguments", "command"}
    /\ phase \in {1, 2}
    /\ {input, word} \subseteq Seq(Char)
    /\ {words, formatted} \subseteq Seq(Seq(Char))
    /\ at \in {"between", "bare", "quoted", "end", "error"}

LineInv ==
    /\ LineTypeOK
    /\ kind = "command" => (at = "end" => words # <<>>) /\ (phase = 2 => formatted # <<>>)
    /\ phase = 2 =>
        \/ \E n \in 0..Len(formatted) : Position(n)
        \/ kind = "command" /\ ~(NoEmptyWord /\ PlainExecutable(formatted[1]))

-----------------------------------------------------------------------------
\* The words that were formatted are those that are parsed again.
Survived == phase = 2 => at # "error" /\ (at = "end" => words = formatted)

(***************************************************************************)
(* Words are formatted such that the parser reads the same words: quotes,  *)
(* backslashes, newlines and spaces survive in any combination, if no word *)
(* is empty and the executable of a command holds none of them.            *)
(***************************************************************************)
PlainSurvives ==
    /\ <<>> \notin ToSet(formatted)
    /\ kind = "command" /\ formatted # <<>> => PlainExecutable(formatted[1])
    => Survived

(***************************************************************************)
(* Formatted arguments are never refused: what scriptkeeper writes to a    *)
(* test file it can read.                                                  *)
(***************************************************************************)
FormattedIsAccepted == kind = "arguments" /\ phase = 2 => at # "error"
=============================================================================
