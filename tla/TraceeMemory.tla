---------------------------- MODULE TraceeMemory ----------------------------
(***************************************************************************)
(* src/src/tracer/tracee_memory.rs: the memory of a tracee as ptrace reads *)
(* and writes it, in words, and the strings in it, which end with a null   *)
(* byte.  A memory is one mapping of Size bytes; nothing is mapped at the  *)
(* null address and behind the end.  Word and Base stand for the 8 bytes   *)
(* and the 256 values of the machine.                                      *)
(***************************************************************************)
EXTENDS Integers, Sequences, SequencesExt, FiniteSetsExt

CONSTANTS
    Word,    \* the bytes of a word
    Base,    \* the values of a byte
    Size     \* the bytes of a memory

ASSUME TraceeMemoryAssumption ==
    /\ Word \in Nat \ {0, 1}
    /\ Word % 2 = 0
    /\ Base \in Nat \ {0, 1}
    /\ Size \in Nat

Address == 1..Size
Byte    == 0..(Base - 1)
Memory  == [Address -> Byte]

\* What a read returns that fails with EIO.
Fault == 0 - 1

-----------------------------------------------------------------------------
\* cast_to_four_byte_array and cast_to_eight_byte_array, least byte first: x >> 16
\* is (x >> 8) >> 8.
Bytes(word, n) ==
    LET shifted[i \in 1..n] == IF i = 1 THEN word ELSE shifted[i - 1] \div Base
    IN  [i \in 1..n |-> shifted[i] % Base]

\* cast_to_eight_byte_word, with the common shifts of the terms taken together.
WordOf(bytes) ==
    LET sum[i \in 1..(Word + 1)] == IF i = Word + 1 THEN 0 ELSE bytes[i] + Base * sum[i + 1]
    IN  sum[1]

\* A whole word has to be mapped.
Mapped(a) == a \in Address /\ a + Word - 1 \in Address

Peekdata(mem, a) ==
    IF Mapped(a) THEN WordOf([i \in 1..Word |-> mem[a + i - 1]]) ELSE Fault

Pokedata(mem, a, word) ==
    [x \in Address |-> IF x \in a..(a + Word - 1) THEN Bytes(word, Word)[x - a + 1] ELSE mem[x]]

-----------------------------------------------------------------------------
\* The bytes of a word before the first null byte.
BeforeNull(bytes) ==
    LET null == {i \in DOMAIN bytes : bytes[i] = 0} IN
    IF null = {} THEN bytes ELSE SubSeq(bytes, 1, Min(null) - 1)

\* Broken: the string ends with its word.
OneWord(mem, a) ==
    LET word == Peekdata(mem, a) IN
    IF word = Fault THEN <<Fault>> ELSE BeforeNull(Bytes(word, Word))

\* peek_string: word after word up to the first null byte; <<.., Fault>> if
\* one of them cannot be read.
PeekString(mem, a) ==
    LET data_to_string[i \in 0..Size] ==
        LET word == Peekdata(mem, a + i * Word)
            chars == BeforeNull(Bytes(word, Word)) IN
        IF word = Fault THEN <<Fault>>
        ELSE IF Len(chars) < Word THEN chars ELSE chars \o data_to_string[i + 1]
    IN  data_to_string[0]

Failed(string) == Fault \in Range(string)

\* peek_string_array: a null pointer ends the array; the first element, which is
\* the name of the program, is skipped unread.
PeekStringArray(mem, a) ==
    LET strings[i \in 0..Size] ==
        LET word == Peekdata(mem, a + i * Word) IN
        IF word = Fault THEN << <<Fault>> >>
        ELSE IF word = 0 THEN <<>> ELSE <<PeekString(mem, word)>> \o strings[i + 1]
    IN  strings[1]

-----------------------------------------------------------------------------
(***************************************************************************)
(* Writing.  Half a word is written by reading the whole one.              *)
(***************************************************************************)
PokeFourBytes(mem, a, half) ==
    LET existing == Bytes(Peekdata(mem, a), Word)
        first == Bytes(half, Word \div 2) IN
    Pokedata(mem, a, WordOf([i \in 1..Word |-> IF i <= Word \div 2 THEN first[i] ELSE existing[i]]))

TooLong(string, max_size) == Len(string) >= max_size

NumberOfWords(string) == (Len(string) \div Word) + 1

\* string_to_data: the string and null bytes up to the end of its last word.
StringToData(string) ==
    [n \in 1..NumberOfWords(string) |->
        WordOf([i \in 1..Word |->
            LET at == (n - 1) * Word + i IN IF at <= Len(string) THEN string[at] ELSE 0])]

WordsMapped(a, string) ==
    \A n \in 1..NumberOfWords(string) : Mapped(a + (n - 1) * Word)

\* poke_string, of a string that is not TooLong to words that are mapped.
PokeString(mem, a, string) ==
    LET data == StringToData(string)
        poked[n \in 0..Len(data)] ==
            IF n = 0 THEN mem ELSE Pokedata(poked[n - 1], a + (n - 1) * Word, data[n])
    IN  poked[Len(data)]
=============================================================================
