-------------------------- MODULE OutputRunProofs --------------------------
(***************************************************************************)
(* For pipes, buffers and outputs of any size a relayed stream implements  *)
(* ByteStream.  The composition of Tracer and Redirector is a behaviour of *)
(* each of them, so that what is proved of Tracer and of Redirector alone  *)
(* holds of the composition; and a verdict has all the output.             *)
(***************************************************************************)
EXTENDS OutputRun, TracerProofs, SequenceTheorems

-----------------------------------------------------------------------------
(***************************************************************************)
(* Taking the first bytes of a sequence away.                              *)
(***************************************************************************)
LEMMA SplitAt ==
    ASSUME NEW S, NEW q \in Seq(S), NEW n \in 0..Len(q)
    PROVE  /\ SubSeq(q, 1, n) \in Seq(S) /\ Len(SubSeq(q, 1, n)) = n
           /\ SubSeq(q, n + 1, Len(q)) \in Seq(S) /\ Len(SubSeq(q, n + 1, Len(q))) = Len(q) - n
           /\ SubSeq(q, 1, n) \o SubSeq(q, n + 1, Len(q)) = q
<1>1. Len(q) \in Nat /\ \A i \in 1..Len(q) : q[i] \in S
  BY ElementOfSeq, LenProperties
<1>2. /\ SubSeq(q, 1, n) \in Seq(S)
      /\ Len(SubSeq(q, 1, n)) = IF 1 <= n THEN n - 1 + 1 ELSE 0
  BY <1>1, SubSeqProperties
<1>3. /\ SubSeq(q, n + 1, Len(q)) \in Seq(S)
      /\ Len(SubSeq(q, n + 1, Len(q))) = IF n + 1 <= Len(q) THEN Len(q) - (n + 1) + 1 ELSE 0
  BY <1>1, SubSeqProperties
<1>4. SubSeq(q, 1, n) \o SubSeq(q, n + 1, Len(q)) = SubSeq(q, 1, Len(q))
  <2>1. 1 \in 1..(Len(q) + 1) /\ n \in (1 - 1)..Len(q) /\ Len(q) \in n..Len(q)
    BY <1>1
  <2> QED BY <2>1, ConcatAdjacentSubSeq
<1>5. SubSeq(q, 1, Len(q)) = q
  BY SubSeqFull
<1>6. Len(SubSeq(q, 1, n)) = n /\ Len(SubSeq(q, n + 1, Len(q))) = Len(q) - n
  BY <1>1, <1>2, <1>3
<1>7. SubSeq(q, 1, n) \o SubSeq(q, n + 1, Len(q)) = q
  BY <1>4, <1>5
<1> QED BY <1>2, <1>3, <1>6, <1>7

\* A beginning that reaches into the second of three sequences.
LEMMA Beginning ==
    \A q, f, g, t \in Seq(Byte) :
        /\ Len(q) + Len(f) \in Len(q)..Len((q \o (f \o g)) \o t)
        /\ q \o f = SubSeq((q \o (f \o g)) \o t, 1, Len(q) + Len(f))
<1> SUFFICES ASSUME NEW q \in Seq(Byte), NEW f \in Seq(Byte), NEW g \in Seq(Byte), NEW t \in Seq(Byte)
             PROVE  /\ Len(q) + Len(f) \in Len(q)..Len((q \o (f \o g)) \o t)
                    /\ q \o f = SubSeq((q \o (f \o g)) \o t, 1, Len(q) + Len(f))
  OBVIOUS
<1> DEFINE r == f \o g
           most == q \o r
           whole == most \o t
           start == q \o f
<1>1. Len(q) \in Nat /\ Len(f) \in Nat /\ Len(g) \in Nat /\ Len(t) \in Nat
  BY LenProperties
<1>2. /\ r \in Seq(Byte) /\ Len(r) = Len(f) + Len(g)
      /\ \A i \in 1..(Len(f) + Len(g)) : r[i] = IF i <= Len(f) THEN f[i] ELSE g[i - Len(f)]
  BY ConcatProperties
<1> HIDE DEF r
<1>3. /\ most \in Seq(Byte) /\ Len(most) = Len(q) + Len(r)
      /\ \A i \in 1..(Len(q) + Len(r)) : most[i] = IF i <= Len(q) THEN q[i] ELSE r[i - Len(q)]
  <2>1. r \in Seq(Byte)
    BY <1>2
  <2> QED BY <2>1, ConcatProperties
<1> HIDE DEF most
<1>4. /\ whole \in Seq(Byte) /\ Len(whole) = Len(most) + Len(t)
      /\ \A i \in 1..(Len(most) + Len(t)) : whole[i] = IF i <= Len(most) THEN most[i] ELSE t[i - Len(most)]
  <2>1. most \in Seq(Byte)
    BY <1>3
  <2> QED BY <2>1, ConcatProperties
<1> HIDE DEF whole
<1>5. /\ start \in Seq(Byte) /\ Len(start) = Len(q) + Len(f)
      /\ \A i \in 1..(Len(q) + Len(f)) : start[i] = IF i <= Len(q) THEN q[i] ELSE f[i - Len(q)]
  BY ConcatProperties
<1> HIDE DEF start
<1>6. Len(start) \in 0..Len(whole)
  BY <1>1, <1>2, <1>3, <1>4, <1>5
<1>7. ASSUME NEW i \in 1..Len(start) PROVE whole[i] = start[i]
  <2>1. whole[i] = most[i]
    BY <1>1, <1>2, <1>3, <1>4, <1>5
  <2>2. CASE i <= Len(q)
    <3>1. i \in 1..(Len(q) + Len(f)) /\ i \in 1..(Len(q) + Len(r))
      BY <1>1, <1>2, <1>5
    <3>2. most[i] = q[i] /\ start[i] = q[i]
      BY <1>3, <1>5, <2>2, <3>1
    <3> QED BY <2>1, <3>2
  <2>3. CASE ~(i <= Len(q))
    <3>1. i - Len(q) \in 1..Len(f) /\ i \in 1..(Len(q) + Len(f)) /\ i \in 1..(Len(q) + Len(r))
      BY <1>1, <1>2, <1>5, <2>3
    <3>2. r[i - Len(q)] = f[i - Len(q)]
      BY <1>1, <1>2, <3>1
    <3>3. most[i] = r[i - Len(q)] /\ start[i] = f[i - Len(q)]
      BY <1>3, <1>5, <2>3, <3>1
    <3> QED BY <2>1, <3>2, <3>3
  <2> QED BY <2>2, <2>3
<1>8. SubSeq(whole, 1, Len(start)) \in Seq(Byte) /\ Len(SubSeq(whole, 1, Len(start))) = Len(start)
  BY <1>4, <1>6, SplitAt
<1>9. \A i \in 1..Len(start) : SubSeq(whole, 1, Len(start))[i] = whole[i]
  <2>1. \A i \in 1..Len(start) : whole[i] \in Byte
    BY <1>4, <1>6, ElementOfSeq
  <2>2. \A i \in 1..(Len(start) - 1 + 1) : SubSeq(whole, 1, Len(start))[i] = whole[1 + i - 1]
    BY <1>1, <1>5, <2>1, SubSeqProperties
  <2> QED BY <1>1, <1>5, <2>2
<1>10. SubSeq(whole, 1, Len(start)) = start
  BY <1>5, <1>7, <1>8, <1>9, SeqEqual
<1>11. Len(q) + Len(f) \in Len(q)..Len(whole) /\ start = SubSeq(whole, 1, Len(q) + Len(f))
  BY <1>1, <1>5, <1>6, <1>10
<1> QED BY <1>11 DEF start, whole, most, r

\* What a thread reads moves from the pipe to its buffer.
LEMMA ReadMoves ==
    ASSUME NEW S, NEW q \in Seq(S), NEW p \in Seq(S), NEW n \in 0..Len(p)
    PROVE  (q \o <<>>) \o p = (q \o SubSeq(p, 1, n)) \o SubSeq(p, n + 1, Len(p))
<1> DEFINE f == SubSeq(p, 1, n)
           g == SubSeq(p, n + 1, Len(p))
<1>1. q \o <<>> = q
  BY ConcatEmptySeq
<1>2. f \in Seq(S) /\ g \in Seq(S) /\ f \o g = p
  BY SplitAt
<1> HIDE DEF f, g
<1>3. (q \o f) \o g = q \o (f \o g)
  <2>1. \A x, y \in Seq(S) : (q \o x) \o y = q \o (x \o y)
    BY ConcatAssociative, SMTT(30)
  <2>2. f \in Seq(S)
    BY <1>2
  <2>3. g \in Seq(S)
    BY <1>2
  <2> QED BY <2>1, <2>2, <2>3, Zenon
<1>4. (q \o f) \o g = (q \o <<>>) \o p
  BY <1>1, <1>2, <1>3, Zenon
<1> QED BY <1>4 DEF f, g

\* What is written comes behind everything that was written before.
LEMMA AppendBehind ==
    \A q, p \in Seq(Byte), b \in Byte : Append(q \o p, b) = q \o Append(p, b)
<1> SUFFICES ASSUME NEW q \in Seq(Byte), NEW p \in Seq(Byte), NEW b \in Byte
             PROVE  Append(q \o p, b) = q \o Append(p, b)
  OBVIOUS
<1>1. q \o p \in Seq(Byte) /\ <<b>> \in Seq(Byte)
  BY ConcatProperties
<1>2. \A s \in Seq(Byte) : Append(s, b) = s \o <<b>>
  BY AppendIsConcat
<1>3. \A t \in Seq(Byte) : (q \o p) \o t = q \o (p \o t)
  BY ConcatAssociative
<1> QED BY <1>1, <1>2, <1>3, Zenon

-----------------------------------------------------------------------------
(***************************************************************************)
(* Type correctness.                                                       *)
(***************************************************************************)
Streams == [Stream -> Seq(Byte)]

LEMMA EmptyType == Empty \in Streams /\ \A s \in Stream : Empty[s] = <<>>
BY EmptySeq DEF Empty, Streams

LEMMA CountType ==
    ASSUME RedirectorTypeOK, NEW s \in Stream
    PROVE  /\ pipe[s] \in Seq(Byte) /\ Len(pipe[s]) \in Nat
           /\ Count(s) \in 0..Len(pipe[s]) /\ Count(s) <= BufferSize
BY LenProperties, RedirectorAssumption DEF RedirectorTypeOK, Count

LEMMA RedirectorTypeInit == Fresh => RedirectorTypeOK
<1> SUFFICES ASSUME Fresh PROVE RedirectorTypeOK
  OBVIOUS
<1>1. \A s \in Stream : Len(pipe[s]) = 0 /\ Len(buffer[s]) = 0
  BY EmptyType, EmptySeq DEF Fresh
<1> QED BY <1>1, EmptyType, RedirectorAssumption DEF Fresh, RedirectorTypeOK, RelayState, Streams

LEMMA RedirectorTypeNext == RedirectorTypeOK /\ [RedirectorNext]_redirectorVars => RedirectorTypeOK'
<1> SUFFICES ASSUME RedirectorTypeOK, [RedirectorNext]_redirectorVars PROVE RedirectorTypeOK'
  OBVIOUS
<1> USE DEF RedirectorTypeOK, RelayState
<1>1. ASSUME NEW s \in Stream, NEW b \in Byte, WriteByte(s, b) PROVE RedirectorTypeOK'
  <2>1. /\ Append(written[s], b) \in Seq(Byte) /\ Append(pipe[s], b) \in Seq(Byte)
        /\ Len(Append(pipe[s], b)) = Len(pipe[s]) + 1 /\ Len(pipe[s]) \in Nat
    BY AppendProperties, LenProperties
  <2>2. Len(Append(pipe[s], b)) <= Capacity
    BY <1>1, <2>1, RedirectorAssumption DEF WriteByte
  <2> QED BY <1>1, <2>1, <2>2 DEF WriteByte
<1>2. CASE Close
  BY <1>2 DEF Close
<1>3. ASSUME NEW s \in Stream, Read(s) PROVE RedirectorTypeOK'
  <2> DEFINE first == SubSeq(pipe[s], 1, Count(s))
             rest == SubSeq(pipe[s], Count(s) + 1, Len(pipe[s]))
  <2>1. /\ first \in Seq(Byte) /\ Len(first) = Count(s)
        /\ rest \in Seq(Byte) /\ Len(rest) = Len(pipe[s]) - Count(s)
    BY CountType, SplitAt
  <2>2. /\ buffer' = [buffer EXCEPT ![s] = first] /\ pipe' = [pipe EXCEPT ![s] = rest]
        /\ relay' = [relay EXCEPT ![s] = "write"]
        /\ UNCHANGED <<open, written, out, captured>>
    BY <1>3 DEF Read
  <2> HIDE DEF first, rest
  <2>3. Len(rest) <= Capacity /\ Len(first) <= BufferSize
    BY <2>1, CountType, RedirectorAssumption
  <2> QED BY <2>1, <2>2, <2>3
<1>4. ASSUME NEW s \in Stream, ReadEnd(s) PROVE RedirectorTypeOK'
  BY <1>4 DEF ReadEnd
<1>5. ASSUME NEW s \in Stream, WriteAll(s) PROVE RedirectorTypeOK'
  <2>1. out[s] \o buffer[s] \in Seq(Byte)
    BY ConcatProperties
  <2>2. out' \in [Stream -> Seq(Byte)]
    BY <1>5, <2>1 DEF WriteAll
  <2>3. <<>> \in Seq(Byte) /\ Len(<<>>) <= BufferSize
    BY RedirectorAssumption
  <2>4. buffer' \in [Stream -> Seq(Byte)] /\ \A r \in Stream : Len(buffer'[r]) <= BufferSize
    BY <1>5, <2>3 DEF WriteAll, Relays
  <2>5. relay' \in [Stream -> RelayState]
    BY <1>5 DEF WriteAll, Relays
  <2> QED BY <1>5, <2>2, <2>4, <2>5 DEF WriteAll
<1>6. ASSUME NEW s \in Stream, WriteFails(s) PROVE RedirectorTypeOK'
  <2>1. PICK n \in 0..(Len(buffer[s]) - 1) : out' = [out EXCEPT ![s] = @ \o SubSeq(buffer[s], 1, n)]
    BY <1>6 DEF WriteFails
  <2>2. n \in 0..Len(buffer[s])
    BY <2>1, LenProperties
  <2>3. SubSeq(buffer[s], 1, n) \in Seq(Byte)
    BY <2>2, SplitAt
  <2>4. out[s] \o SubSeq(buffer[s], 1, n) \in Seq(Byte)
    BY <2>3, ConcatProperties
  <2>5. out' \in [Stream -> Seq(Byte)]
    BY <2>1, <2>4
  <2>6. <<>> \in Seq(Byte) /\ Len(<<>>) <= BufferSize
    BY RedirectorAssumption
  <2> QED BY <1>6, <2>5, <2>6 DEF WriteFails
<1>7. ASSUME NEW s \in Stream, CaptureAll(s) PROVE RedirectorTypeOK'
  <2>1. captured[s] \o buffer[s] \in Seq(Byte)
    BY ConcatProperties
  <2>2. captured' \in [Stream -> Seq(Byte)]
    BY <1>7, <2>1 DEF CaptureAll
  <2>3. <<>> \in Seq(Byte) /\ Len(<<>>) <= BufferSize
    BY RedirectorAssumption
  <2> QED BY <1>7, <2>2, <2>3 DEF CaptureAll
<1>8. CASE NextStreams
  <2>1. \A s \in Stream : Len(Empty[s]) = 0
    BY EmptyType, EmptySeq
  <2> QED BY <1>8, <2>1, EmptyType, RedirectorAssumption DEF NextStreams, Streams
<1>9. CASE UNCHANGED redirectorVars
  BY <1>9 DEF redirectorVars
<1> QED BY <1>1, <1>2, <1>3, <1>4, <1>5, <1>6, <1>7, <1>8, <1>9 DEF RedirectorNext, RelayStep

THEOREM StreamTypeCorrect == RedirectorSpec => []RedirectorTypeOK
<1> QED BY RedirectorTypeInit, RedirectorTypeNext, PTL DEF RedirectorSpec

-----------------------------------------------------------------------------
(***************************************************************************)
(* Nothing is lost: the invariant adds that a thread ends only at the end  *)
(* of what was written, and that a pipe stays closed until the next run.   *)
(***************************************************************************)
EndedAtTheEnd ==
    \A s \in Stream : relay[s] = "done" => ~open /\ pipe[s] = <<>>

Conserved == RedirectorTypeOK /\ NothingIsLost /\ EndedAtTheEnd

Uncaptured(s) == IF relay[s] = "capture" THEN buffer[s] ELSE <<>>

\* What NothingIsLost says of one stream.
Kept(s) ==
    relay[s] # "failed" =>
        /\ written[s] = (out[s] \o Unrelayed(s)) \o pipe[s]
        /\ s \in Capture => out[s] = captured[s] \o Uncaptured(s)

LEMMA KeptIsAll == NothingIsLost <=> \A s \in Stream : Kept(s)
BY DEF NothingIsLost, Kept, Uncaptured

\* A step that leaves all of a stream alone.
LEMMA KeptOther ==
    ASSUME NEW s \in Stream, Kept(s),
           relay'[s] = relay[s], written'[s] = written[s], pipe'[s] = pipe[s],
           buffer'[s] = buffer[s], out'[s] = out[s], captured'[s] = captured[s]
    PROVE  Kept(s)'
BY DEF Kept, Unrelayed, Uncaptured

LEMMA StreamTypes ==
    ASSUME RedirectorTypeOK, NEW s \in Stream
    PROVE  /\ written[s] \in Seq(Byte) /\ pipe[s] \in Seq(Byte) /\ buffer[s] \in Seq(Byte)
           /\ out[s] \in Seq(Byte) /\ captured[s] \in Seq(Byte)
           /\ Unrelayed(s) \in Seq(Byte) /\ Uncaptured(s) \in Seq(Byte)
<1>1. <<>> \in Seq(Byte)
  BY EmptySeq
<1> QED BY <1>1 DEF RedirectorTypeOK, Unrelayed, Uncaptured

LEMMA KeptWriteByte ==
    ASSUME RedirectorTypeOK, NEW s \in Stream, NEW b \in Byte, WriteByte(s, b), Kept(s)
    PROVE  Kept(s)'
<1>1. out[s] \o Unrelayed(s) \in Seq(Byte)
  BY StreamTypes, ConcatProperties
<1>2. Append((out[s] \o Unrelayed(s)) \o pipe[s], b) = (out[s] \o Unrelayed(s)) \o Append(pipe[s], b)
  <2> DEFINE x == out[s] \o Unrelayed(s)
             y == pipe[s]
  <2>1. x \in Seq(Byte)
    BY <1>1
  <2>2. y \in Seq(Byte)
    BY StreamTypes
  <2> HIDE DEF x, y
  <2>3. Append(x \o y, b) = x \o Append(y, b)
    BY <2>1, <2>2, AppendBehind, Zenon
  <2> QED BY <2>3 DEF x, y
<1>3. /\ written'[s] = Append(written[s], b) /\ pipe'[s] = Append(pipe[s], b)
      /\ UNCHANGED <<relay, buffer, out, captured>>
  BY DEF WriteByte, RedirectorTypeOK
<1> QED BY <1>2, <1>3 DEF Kept, Unrelayed, Uncaptured

LEMMA KeptRead ==
    ASSUME RedirectorTypeOK, NEW s \in Stream, Read(s), Kept(s)
    PROVE  Kept(s)'
<1> DEFINE first == SubSeq(pipe[s], 1, Count(s))
           rest == SubSeq(pipe[s], Count(s) + 1, Len(pipe[s]))
<1>1. /\ buffer'[s] = first /\ pipe'[s] = rest /\ relay[s] = "read" /\ relay'[s] = "write"
      /\ UNCHANGED <<written, out, captured>>
  BY DEF Read, RedirectorTypeOK
<1>2. (out[s] \o <<>>) \o pipe[s] = (out[s] \o first) \o rest
  BY StreamTypes, CountType, ReadMoves
<1> HIDE DEF first, rest
<1> QED BY <1>1, <1>2 DEF Kept, Unrelayed, Uncaptured

LEMMA KeptReadEnd ==
    ASSUME RedirectorTypeOK, NEW s \in Stream, ReadEnd(s), Kept(s)
    PROVE  Kept(s)'
<1>1. /\ relay[s] = "read" /\ relay'[s] = "done"
      /\ UNCHANGED <<written, pipe, buffer, out, captured>>
  BY DEF ReadEnd, RedirectorTypeOK
<1> QED BY <1>1 DEF Kept, Unrelayed, Uncaptured

LEMMA KeptWriteAll ==
    ASSUME RedirectorTypeOK, NEW s \in Stream, WriteAll(s), Kept(s)
    PROVE  Kept(s)'
<1>1. /\ relay[s] = "write" /\ out'[s] = out[s] \o buffer[s]
      /\ relay'[s] = (IF s \in Capture THEN "capture" ELSE "read")
      /\ s \in Capture => buffer'[s] = buffer[s]
      /\ UNCHANGED <<written, pipe, captured>>
  BY DEF WriteAll, Relays, RedirectorTypeOK
<1>2. out[s] \o buffer[s] \in Seq(Byte)
  BY StreamTypes, ConcatProperties
<1>3. (out[s] \o buffer[s]) \o <<>> = out[s] \o buffer[s]
  BY <1>2, ConcatEmptySeq
<1>4. captured[s] \o <<>> = captured[s]
  BY StreamTypes, ConcatEmptySeq
<1>5. written[s] = (out[s] \o buffer[s]) \o pipe[s] /\ (s \in Capture => out[s] = captured[s])
  BY <1>1, <1>4 DEF Kept, Unrelayed, Uncaptured
<1> QED BY <1>1, <1>3, <1>5 DEF Kept, Unrelayed, Uncaptured

LEMMA KeptCaptureAll ==
    ASSUME RedirectorTypeOK, NEW s \in Stream, CaptureAll(s), Kept(s)
    PROVE  Kept(s)'
<1>1. /\ relay[s] = "capture" /\ relay'[s] = "read" /\ captured'[s] = captured[s] \o buffer[s]
      /\ UNCHANGED <<written, pipe, out>>
  BY DEF CaptureAll, RedirectorTypeOK
<1>2. captured[s] \o buffer[s] \in Seq(Byte)
  BY StreamTypes, ConcatProperties
<1>3. (captured[s] \o buffer[s]) \o <<>> = captured[s] \o buffer[s]
  BY <1>2, ConcatEmptySeq
<1> QED BY <1>1, <1>3 DEF Kept, Unrelayed, Uncaptured

LEMMA KeptFresh ==
    ASSUME NEW s \in Stream,
           relay[s] = "read", written[s] = <<>>, pipe[s] = <<>>, out[s] = <<>>, captured[s] = <<>>
    PROVE  Kept(s)
<1>1. <<>> \o <<>> = <<>>
  BY EmptySeq, ConcatEmptySeq
<1> QED BY <1>1 DEF Kept, Unrelayed, Uncaptured

LEMMA KeptNext ==
    ASSUME RedirectorTypeOK, NothingIsLost, [RedirectorNext]_redirectorVars
    PROVE  NothingIsLost'
<1>1. \A r \in Stream : Kept(r)
  BY KeptIsAll
<1> SUFFICES ASSUME NEW r \in Stream PROVE Kept(r)'
  BY DEF NothingIsLost, Kept, Uncaptured
<1>2. Kept(r)
  BY <1>1
<1>3. ASSUME NEW s \in Stream, NEW b \in Byte, WriteByte(s, b) PROVE Kept(r)'
  <2>1. CASE r = s
    BY <1>2, <1>3, <2>1, KeptWriteByte
  <2>2. CASE r # s
    BY <1>2, <1>3, <2>2, KeptOther DEF WriteByte, RedirectorTypeOK
  <2> QED BY <2>1, <2>2
<1>4. CASE Close
  BY <1>2, <1>4, KeptOther DEF Close
<1>5. ASSUME NEW s \in Stream, Read(s) PROVE Kept(r)'
  <2>1. CASE r = s
    BY <1>2, <1>5, <2>1, KeptRead
  <2>2. CASE r # s
    BY <1>2, <1>5, <2>2, KeptOther DEF Read, RedirectorTypeOK
  <2> QED BY <2>1, <2>2
<1>6. ASSUME NEW s \in Stream, ReadEnd(s) PROVE Kept(r)'
  <2>1. CASE r = s
    BY <1>2, <1>6, <2>1, KeptReadEnd
  <2>2. CASE r # s
    BY <1>2, <1>6, <2>2, KeptOther DEF ReadEnd, RedirectorTypeOK
  <2> QED BY <2>1, <2>2
<1>7. ASSUME NEW s \in Stream, WriteAll(s) PROVE Kept(r)'
  <2>1. CASE r = s
    BY <1>2, <1>7, <2>1, KeptWriteAll
  <2>2. CASE r # s
    BY <1>2, <1>7, <2>2, KeptOther DEF WriteAll, Relays, RedirectorTypeOK
  <2> QED BY <2>1, <2>2
<1>8. ASSUME NEW s \in Stream, CaptureAll(s) PROVE Kept(r)'
  <2>1. CASE r = s
    BY <1>2, <1>8, <2>1, KeptCaptureAll
  <2>2. CASE r # s
    BY <1>2, <1>8, <2>2, KeptOther DEF CaptureAll, RedirectorTypeOK
  <2> QED BY <2>1, <2>2
<1>9. ASSUME NEW s \in Stream, WriteFails(s) PROVE Kept(r)'
  <2>1. CASE r = s
    BY <1>9, <2>1 DEF WriteFails, Kept, RedirectorTypeOK
  <2>2. CASE r # s
    BY <1>2, <1>9, <2>2, KeptOther DEF WriteFails, RedirectorTypeOK
  <2> QED BY <2>1, <2>2
<1>10. CASE NextStreams
  <2>1. <<>> \o <<>> = <<>>
    BY EmptySeq, ConcatEmptySeq
  <2>2. /\ relay'[r] = "read" /\ written'[r] = <<>> /\ pipe'[r] = <<>>
        /\ out'[r] = <<>> /\ captured'[r] = <<>>
    BY <1>10, EmptyType DEF NextStreams
  <2> QED BY <2>1, <2>2 DEF Kept, Unrelayed, Uncaptured
<1>11. CASE UNCHANGED redirectorVars
  BY <1>2, <1>11, KeptOther DEF redirectorVars
<1> QED BY <1>3, <1>4, <1>5, <1>6, <1>7, <1>8, <1>9, <1>10, <1>11 DEF RedirectorNext, RelayStep

LEMMA EndedNext ==
    ASSUME RedirectorTypeOK, EndedAtTheEnd, [RedirectorNext]_redirectorVars
    PROVE  EndedAtTheEnd'
<1> USE DEF EndedAtTheEnd, RedirectorTypeOK
<1>1. ASSUME NEW s \in Stream, NEW b \in Byte, WriteByte(s, b) PROVE EndedAtTheEnd'
  BY <1>1 DEF WriteByte
<1>2. CASE Close
  BY <1>2 DEF Close
<1>3. ASSUME NEW s \in Stream, Read(s) PROVE EndedAtTheEnd'
  BY <1>3 DEF Read
<1>4. ASSUME NEW s \in Stream, ReadEnd(s) PROVE EndedAtTheEnd'
  BY <1>4 DEF ReadEnd
<1>5. ASSUME NEW s \in Stream, WriteAll(s) PROVE EndedAtTheEnd'
  BY <1>5 DEF WriteAll, Relays
<1>6. ASSUME NEW s \in Stream, CaptureAll(s) PROVE EndedAtTheEnd'
  BY <1>6 DEF CaptureAll
<1>7. ASSUME NEW s \in Stream, WriteFails(s) PROVE EndedAtTheEnd'
  BY <1>7 DEF WriteFails
<1>8. CASE NextStreams
  BY <1>8 DEF NextStreams
<1>9. CASE UNCHANGED redirectorVars
  BY <1>9 DEF redirectorVars
<1> QED BY <1>1, <1>2, <1>3, <1>4, <1>5, <1>6, <1>7, <1>8, <1>9 DEF RedirectorNext, RelayStep

LEMMA ConservedInit == Fresh => Conserved
<1> SUFFICES ASSUME Fresh PROVE Conserved
  OBVIOUS
<1>1. RedirectorTypeOK
  BY RedirectorTypeInit
<1>2. ASSUME NEW s \in Stream PROVE Kept(s)
  <2>1. relay[s] = "read" /\ written[s] = <<>> /\ pipe[s] = <<>> /\ out[s] = <<>> /\ captured[s] = <<>>
    BY EmptyType DEF Fresh
  <2> QED BY <2>1, KeptFresh
<1>3. EndedAtTheEnd
  BY DEF Fresh, EndedAtTheEnd
<1> QED BY <1>1, <1>2, <1>3, KeptIsAll DEF Conserved

LEMMA ConservedNext == Conserved /\ [RedirectorNext]_redirectorVars => Conserved'
BY RedirectorTypeNext, KeptNext, EndedNext DEF Conserved

LEMMA ConservedAlways == RedirectorSpec => []Conserved
BY ConservedInit, ConservedNext, PTL DEF RedirectorSpec

(***************************************************************************)
(* A thread that did not fail relayed, captured or still has everything    *)
(* that was written to its pipe, in order.                                 *)
(***************************************************************************)
THEOREM OutputIsConserved == RedirectorSpec => []NothingIsLost
<1>1. Conserved => NothingIsLost
  BY DEF Conserved
<1> QED BY <1>1, ConservedAlways, PTL

-----------------------------------------------------------------------------
(***************************************************************************)
(* The refinement: each step of a thread is one of the stream, or none.    *)
(***************************************************************************)
Ended == {s \in Stream : relay[s] = "done"}
Failed == {s \in Stream : relay[s] = "failed"}

LEMMA StreamInit == Fresh => Relayed!Init
BY DEF Fresh, Empty, Relayed!Init

\* The buffer, or a beginning of it, is what has to be delivered next.
LEMMA BufferIsNext ==
    ASSUME Conserved, NEW s \in Stream, relay[s] = "write", NEW n \in 0..Len(buffer[s])
    PROVE  /\ Len(out[s]) + n \in Len(out[s])..Len(written[s])
           /\ out[s] \o SubSeq(buffer[s], 1, n) = SubSeq(written[s], 1, Len(out[s]) + n)
<1> DEFINE f == SubSeq(buffer[s], 1, n)
           g == SubSeq(buffer[s], n + 1, Len(buffer[s]))
           q == out[s]
           t == pipe[s]
<1>1. buffer[s] \in Seq(Byte)
  BY StreamTypes DEF Conserved
<1>q. q \in Seq(Byte)
  BY StreamTypes DEF Conserved
<1>t. t \in Seq(Byte)
  BY StreamTypes DEF Conserved
<1>2. f \in Seq(Byte) /\ g \in Seq(Byte) /\ Len(f) = n /\ f \o g = buffer[s]
  BY <1>1, SplitAt
<1>3. written[s] = (q \o buffer[s]) \o t
  BY KeptIsAll DEF Conserved, Kept, Unrelayed
<1> HIDE DEF f, g, q, t
<1>4. /\ Len(q) + Len(f) \in Len(q)..Len((q \o (f \o g)) \o t)
      /\ q \o f = SubSeq((q \o (f \o g)) \o t, 1, Len(q) + Len(f))
  <2>1. f \in Seq(Byte)
    BY <1>2
  <2>2. g \in Seq(Byte)
    BY <1>2
  <2> QED BY <1>q, <1>t, <2>1, <2>2, Beginning, Zenon
<1>5. Len(q) + n \in Len(q)..Len(written[s]) /\ q \o f = SubSeq(written[s], 1, Len(q) + n)
  BY <1>2, <1>3, <1>4
<1> QED BY <1>5 DEF f, q

LEMMA StreamNext == Conserved /\ Conserved' /\ [RedirectorNext]_redirectorVars => [Relayed!Next]_Relayed!streamVars
<1> SUFFICES ASSUME Conserved, [RedirectorNext]_redirectorVars
             PROVE  Relayed!Next \/ UNCHANGED <<written, out, Ended, Failed>>
  BY DEF Relayed!streamVars, Ended, Failed
<1>1. ASSUME NEW s \in Stream, NEW b \in Byte, WriteByte(s, b) PROVE Relayed!Send(s)
  BY <1>1 DEF WriteByte, Relayed!Send, Conserved, EndedAtTheEnd
<1>2. CASE Close
  BY <1>2 DEF Close, Ended, Failed
<1>3. ASSUME NEW s \in Stream, Read(s) PROVE UNCHANGED <<written, out, Ended, Failed>>
  BY <1>3 DEF Read, Ended, Failed, Conserved, RedirectorTypeOK
<1>4. ASSUME NEW s \in Stream, ReadEnd(s) PROVE Relayed!End(s)
  <2>1. relay[s] = "read" /\ pipe[s] = <<>> /\ relay' = [relay EXCEPT ![s] = "done"]
    BY <1>4 DEF ReadEnd
  <2>2. out[s] \in Seq(Byte) /\ written[s] = (out[s] \o <<>>) \o <<>>
    BY <2>1, KeptIsAll, StreamTypes DEF Conserved, Kept, Unrelayed
  <2>3. out[s] \o <<>> = out[s]
    BY <2>2, ConcatEmptySeq
  <2>4. {r \in Stream : relay'[r] = "done"} = Ended \cup {s} /\ Failed' = Failed
    BY <2>1 DEF Ended, Failed, Conserved, RedirectorTypeOK
  <2> QED BY <1>4, <2>1, <2>2, <2>3, <2>4 DEF ReadEnd, Relayed!End, Ended, Failed
<1>5. ASSUME NEW s \in Stream, WriteAll(s) PROVE Relayed!Deliver(s)
  <2> DEFINE n == Len(buffer[s])
  <2>1. buffer[s] \in Seq(Byte) /\ n \in 0..Len(buffer[s])
    BY StreamTypes, LenProperties DEF Conserved
  <2>2. SubSeq(buffer[s], 1, n) = buffer[s]
    BY <2>1, SubSeqFull
  <2>3. /\ relay[s] = "write" /\ out' = [out EXCEPT ![s] = out[s] \o buffer[s]]
        /\ UNCHANGED written
    BY <1>5 DEF WriteAll
  <2>4. /\ Len(out[s]) + n \in Len(out[s])..Len(written[s])
        /\ out[s] \o buffer[s] = SubSeq(written[s], 1, Len(out[s]) + n)
    BY <2>1, <2>2, <2>3, BufferIsNext
  <2>5. Relayed!Progress(s)
    BY <2>3, <2>4 DEF Relayed!Progress
  <2>6. UNCHANGED <<Ended, Failed>>
    BY <1>5 DEF WriteAll, Relays, Ended, Failed, Conserved, RedirectorTypeOK
  <2> QED BY <2>3, <2>5, <2>6 DEF Relayed!Deliver, Ended, Failed
<1>6. ASSUME NEW s \in Stream, CaptureAll(s) PROVE UNCHANGED <<written, out, Ended, Failed>>
  BY <1>6 DEF CaptureAll, Ended, Failed, Conserved, RedirectorTypeOK
<1>7. ASSUME NEW s \in Stream, WriteFails(s) PROVE Relayed!Break(s)
  <2>1. PICK n \in 0..(Len(buffer[s]) - 1) : out' = [out EXCEPT ![s] = out[s] \o SubSeq(buffer[s], 1, n)]
    BY <1>7 DEF WriteFails
  <2>2. /\ relay[s] = "write" /\ relay' = [relay EXCEPT ![s] = "failed"]
        /\ UNCHANGED written
    BY <1>7 DEF WriteFails
  <2>3. n \in 0..Len(buffer[s])
    BY <2>1, StreamTypes, LenProperties DEF Conserved
  <2>4. /\ Len(out[s]) + n \in Len(out[s])..Len(written[s])
        /\ out[s] \o SubSeq(buffer[s], 1, n) = SubSeq(written[s], 1, Len(out[s]) + n)
    BY <2>2, <2>3, BufferIsNext
  <2>5. Relayed!Progress(s)
    BY <2>1, <2>4 DEF Relayed!Progress
  <2>6. Failed' = Failed \cup {s} /\ Ended' = Ended
    BY <2>2 DEF Ended, Failed, Conserved, RedirectorTypeOK
  <2> QED BY <2>2, <2>5, <2>6 DEF Relayed!Break, Ended, Failed
<1>8. CASE NextStreams
  <2>1. Relayed!Restart
    BY <1>8 DEF NextStreams, Joined, Empty, Relayed!Restart, Relayed!Init
  <2> QED BY <2>1 DEF Relayed!Next
<1>9. CASE UNCHANGED redirectorVars
  BY <1>9 DEF redirectorVars, Ended, Failed
<1>10. ASSUME NEW s \in Stream, Relayed!Send(s) \/ Relayed!Deliver(s) \/ Relayed!End(s) \/ Relayed!Break(s)
       PROVE  Relayed!Next
  BY <1>10 DEF Relayed!Next
<1> QED BY <1>1, <1>2, <1>3, <1>4, <1>5, <1>6, <1>7, <1>8, <1>9, <1>10 DEF RedirectorNext, RelayStep

(***************************************************************************)
(* The relayed output is a reliable stream of what the processes write:    *)
(* every byte once and in order, and all of them before a thread ends.     *)
(***************************************************************************)
THEOREM RelayIsReliable == RedirectorSpec => ImplementsStream
<1>1. Fresh => Relayed!Init
  BY StreamInit
<1>2. Conserved /\ Conserved' /\ [RedirectorNext]_redirectorVars => [Relayed!Next]_Relayed!streamVars
  BY StreamNext
<1> QED BY <1>1, <1>2, ConservedAlways, PTL DEF RedirectorSpec, ImplementsStream, Relayed!Spec

-----------------------------------------------------------------------------
WritingOK == writing \in [Pid -> [to : Stream, left : Nat]]

\* Redirector's open is whether a process has the write ends.
Linked == WritingOK /\ open = (writers # {})

\* The steps of the tracer that start no run.
NoStart ==
    \/ WaitForChild \/ ChildNeverStopped \/ JoinStreams \/ JoinFails \/ ReturnFromRun \/ Finished
    \/ \E p \in Pid : Wait(p) \/ HandleStatus(p)

ProcessMoves(p) == ProcessStep(p) \/ Signalled(p) \/ Killed(p)

(***************************************************************************)
(* A step of the composition is one of a process, of the tracer or of a    *)
(* relay thread.                                                           *)
(***************************************************************************)
LEMMA OutputCases ==
    ASSUME [OutputNext]_outputVars
    PROVE  \/ \E p \in Pid : Write(p)
           \/ (\E p \in Pid : ProcessMoves(p)) /\ NothingRelayed
           \/ NoStart /\ NothingRelayed
           \/ \E c \in Pid : NextRun(c)
           \/ \E s \in Stream : Relay(s) \/ RelayBreaks(s)
           \/ UNCHANGED outputVars
<1> DEFINE Goal ==
        \/ \E p \in Pid : Write(p)
        \/ (\E p \in Pid : ProcessMoves(p)) /\ NothingRelayed
        \/ NoStart /\ NothingRelayed
        \/ \E c \in Pid : NextRun(c)
        \/ \E s \in Stream : Relay(s) \/ RelayBreaks(s)
        \/ UNCHANGED outputVars
<1>1. ASSUME NEW p \in Pid, Process(p) PROVE Goal
  <2>1. Write(p) \/ (ProcessStep(p) /\ NothingRelayed)
    BY <1>1 DEF Process, MakeSyscall, CompleteCall, ProcessStep
  <2> QED BY <2>1 DEF ProcessMoves
<1>2. ASSUME NEW p \in Pid, KillWriting(p) \/ (Signalled(p) /\ NothingRelayed /\ UNCHANGED writing) PROVE Goal
  BY <1>2 DEF KillWriting, ProcessMoves
<1>3. CASE Tracing
  BY <1>3 DEF Tracing, JoinBoth, JoinOneFails, NoStart
<1>4. CASE Finished /\ NothingRelayed /\ UNCHANGED writing
  BY <1>4 DEF NoStart
<1>5. ASSUME NEW s \in Stream, Relay(s) \/ RelayBreaks(s) PROVE Goal
  BY <1>5
<1>6. CASE UNCHANGED outputVars
  BY <1>6
<1> QED BY <1>1, <1>2, <1>3, <1>4, <1>5, <1>6 DEF OutputNext

LEMMA TracerMoves == ASSUME [OutputNext]_outputVars PROVE [Next]_vars
<1>1. ASSUME NEW p \in Pid, Write(p) PROVE UNCHANGED vars
  BY <1>1 DEF Write
<1>2. ASSUME NEW p \in Pid, ProcessMoves(p) PROVE Next
  BY <1>2 DEF ProcessMoves, Next
<1>3. CASE NoStart
  BY <1>3 DEF NoStart, Next, TracerStep
<1>4. ASSUME NEW c \in Pid, NextRun(c) PROVE Next
  BY <1>4 DEF NextRun, Next, TracerStep
<1>5. ASSUME NEW s \in Stream, Relay(s) \/ RelayBreaks(s) PROVE UNCHANGED vars
  BY <1>5 DEF Relay, RelayBreaks
<1>6. CASE UNCHANGED outputVars
  BY <1>6 DEF outputVars
<1> QED BY <1>1, <1>2, <1>3, <1>4, <1>5, <1>6, OutputCases

(***************************************************************************)
(* The composition with the output hidden is Tracer.                       *)
(***************************************************************************)
THEOREM ComposedTracer == OutputSpec => Spec
<1>1. OutputInit => Init
  BY DEF OutputInit
<1>2. [OutputNext]_outputVars => [Next]_vars
  BY TracerMoves
<1> QED BY <1>1, <1>2, PTL DEF OutputSpec, Spec

-----------------------------------------------------------------------------
\* Nobody but a new run opens the write ends again.
LEMMA NoNewWriters ==
    ASSUME NoStart \/ (\E p \in Pid : ProcessMoves(p)), writers = {}
    PROVE  writers' = {}
<1>1. ASSUME NEW p \in Pid, ProcessMoves(p) PROVE writers' = {}
  BY <1>1
  DEF ProcessMoves, ProcessStep, Signalled, Killed, ChildStops, ChildFailsEarly, ChildExecve, Enter,
      Fork, Complete, Exit, Faulted, FirstStop, Ends, CompleteSyscall, EnterSyscall, ForkChild,
      ExitProcess, Signal, Fault, Kill
<1>2. ASSUME NEW p \in Pid, Wait(p) \/ HandleStatus(p) PROVE writers' = {}
  BY <1>2
  DEF Wait, HandleStatus, HandleExecveEnter, HandleGetcwdExit, HandleStatExit, MockCallback,
      HandleOtherSyscall, HandleOtherStop, HandleExited, RootExited, WrongSyscall, TraceeVanished,
      TraceError, Continue, Resume, Reap, traceeVars
<1>3. CASE WaitForChild \/ ChildNeverStopped
  BY <1>3 DEF WaitForChild, ChildNeverStopped, Resume, Reap
<1>4. CASE JoinStreams \/ JoinFails \/ ReturnFromRun \/ Finished
  BY <1>4 DEF JoinStreams, JoinFails, TraceError, ReturnFromRun, Finished, traceeVars, vars
<1> QED BY <1>1, <1>2, <1>3, <1>4 DEF NoStart

LEMMA LinkedInit == OutputInit => Linked
<1> SUFFICES ASSUME OutputInit PROVE Linked
  OBVIOUS
<1>1. NoWrite \in [to : Stream, left : Nat]
  BY OutputRunAssumption DEF NoWrite
<1>2. WritingOK
  BY <1>1 DEF OutputInit, WritingOK
<1>3. \E c \in Pid : writers = {c}
  BY DEF OutputInit, Init
<1>4. writers # {} /\ open = TRUE
  BY <1>3 DEF OutputInit, Fresh
<1>5. open = (writers # {})
  BY <1>4
<1> QED BY <1>2, <1>5 DEF Linked

LEMMA WritingStep ==
    ASSUME WritingOK, [OutputNext]_outputVars
    PROVE  WritingOK'
<1> USE OutputRunAssumption DEF WritingOK, NoWrite
<1>1. ASSUME NEW p \in Pid, Process(p) PROVE WritingOK'
  <2>1. CASE Write(p)
    <3>1. writing[p].left \in Nat /\ writing[p].left > 0 /\ writing[p].to \in Stream
      BY <2>1 DEF Write
    <3>2. writing[p].left - 1 \in Nat
      BY <3>1
    <3>3. writing' = [writing EXCEPT ![p].left = writing[p].left - 1]
      BY <2>1 DEF Write
    <3> QED BY <3>2, <3>3
  <2>2. ASSUME NEW s \in Syscall, MakeSyscall(p, s) PROVE WritingOK'
    <3>1. PICK w \in Writes(p, s) : writing' = [writing EXCEPT ![p] = w]
      BY <2>2 DEF MakeSyscall
    <3>2. w \in [to : Stream, left : Nat]
      <4>1. w = NoWrite \/ \E r \in Stream, n \in Length : w = [to |-> r, left |-> n]
        BY <3>1 DEF Writes
      <4>2. NoWrite \in [to : Stream, left : Nat]
        OBVIOUS
      <4> QED BY <4>1, <4>2
    <3> QED BY <3>1, <3>2
  <2>3. CASE UNCHANGED writing
    BY <2>3
  <2> QED BY <1>1, <2>1, <2>2, <2>3 DEF Process, CompleteCall
<1>2. ASSUME NEW p \in Pid, KillWriting(p) PROVE WritingOK'
  BY <1>2 DEF KillWriting
<1>3. CASE UNCHANGED writing
  BY <1>3
<1> QED BY <1>1, <1>2, <1>3
        DEF OutputNext, Tracing, JoinBoth, JoinOneFails, NextRun, Relay, RelayBreaks, outputVars

LEMMA RedirectorMoves ==
    ASSUME Linked, [OutputNext]_outputVars
    PROVE  [RedirectorNext]_redirectorVars /\ Linked'
<1> DEFINE Goal == [RedirectorNext]_redirectorVars /\ open' = (writers' # {})
<1> SUFFICES Goal
  BY WritingStep DEF Linked
<1>1. ASSUME NEW p \in Pid, Write(p) PROVE Goal
  <2>1. writing[p].to \in Stream
    BY DEF Linked, WritingOK
  <2>2. PICK b \in Byte : WriteByte(writing[p].to, b)
    BY <1>1 DEF Write
  <2>3. RedirectorNext
    BY <2>1, <2>2 DEF RedirectorNext
  <2>4. UNCHANGED <<open, writers>>
    BY <1>1, <2>2 DEF Write, WriteByte, vars
  <2> QED BY <2>3, <2>4 DEF Linked
<1>2. CASE NothingRelayed /\ (NoStart \/ \E p \in Pid : ProcessMoves(p))
  <2>1. open' = (writers' # {}) /\ UNCHANGED <<written, pipe, relay, buffer, out, captured>>
    BY <1>2 DEF NothingRelayed
  <2>2. CASE writers = {}
    <3>1. writers' = {}
      BY <1>2, <2>2, NoNewWriters
    <3>2. open = FALSE /\ open' = FALSE
      BY <2>1, <2>2, <3>1 DEF Linked
    <3>3. UNCHANGED redirectorVars
      BY <2>1, <3>2 DEF redirectorVars
    <3> QED BY <2>1, <3>3
  <2>3. CASE writers # {} /\ writers' # {}
    <3>1. open = TRUE /\ open' = TRUE
      BY <2>1, <2>3 DEF Linked
    <3>2. UNCHANGED redirectorVars
      BY <2>1, <3>1 DEF redirectorVars
    <3> QED BY <2>1, <3>2
  <2>4. CASE writers # {} /\ writers' = {}
    <3>1. open = TRUE /\ open' = FALSE
      BY <2>1, <2>4 DEF Linked
    <3>2. Close
      BY <2>1, <3>1 DEF Close
    <3> QED BY <2>1, <3>2 DEF RedirectorNext
  <2> QED BY <2>2, <2>3, <2>4
<1>3. ASSUME NEW c \in Pid, NextRun(c) PROVE Goal
  <2>1. NextStreams /\ writers' = {c}
    BY <1>3 DEF NextRun, StartRun, Spawn
  <2>2. open' = TRUE /\ writers' # {}
    BY <2>1 DEF NextStreams
  <2>3. open' = (writers' # {})
    BY <2>2
  <2> QED BY <2>1, <2>3 DEF RedirectorNext
<1>4. ASSUME NEW s \in Stream, Relay(s) \/ RelayBreaks(s) PROVE Goal
  <2>1. RedirectorNext
    BY <1>4 DEF Relay, RelayBreaks, RedirectorNext
  <2>2. UNCHANGED <<open, writers>>
    BY <1>4 DEF Relay, RelayBreaks, RelayStep, Read, ReadEnd, WriteAll, CaptureAll, WriteFails, vars
  <2> QED BY <2>1, <2>2 DEF Linked
<1>5. CASE UNCHANGED outputVars
  BY <1>5 DEF outputVars, redirectorVars, vars, Linked
<1> QED BY <1>1, <1>2, <1>3, <1>4, <1>5, OutputCases

LEMMA LinkedAlways == OutputSpec => []Linked
<1>1. Linked /\ [OutputNext]_outputVars => Linked'
  BY RedirectorMoves
<1> QED BY <1>1, LinkedInit, PTL DEF OutputSpec

(***************************************************************************)
(* The composition with the processes hidden is Redirector.                *)
(***************************************************************************)
THEOREM ComposedRedirector == OutputSpec => RedirectorSpec
<1>1. OutputInit => Fresh
  BY DEF OutputInit
<1>2. Linked /\ [OutputNext]_outputVars => [RedirectorNext]_redirectorVars
  BY RedirectorMoves
<1> QED BY <1>1, <1>2, LinkedAlways, PTL DEF OutputSpec, RedirectorSpec

(***************************************************************************)
(* What the processes of a script write arrives as a reliable stream.      *)
(***************************************************************************)
THEOREM OutputIsReliable == OutputSpec => ImplementsStream
<1> QED BY ComposedRedirector, RelayIsReliable, PTL

-----------------------------------------------------------------------------
(***************************************************************************)
(* Both threads ended when a run without an error is about to return, and  *)
(* until the next one starts.                                              *)
(***************************************************************************)
ThreadsJoined == tpc \in {"result", "returned"} /\ reason = "none" => Joined

LEMMA ThreadsJoinedStep ==
    ASSUME ThreadsJoined, IInv, [OutputNext]_outputVars
    PROVE  ThreadsJoined'
<1> USE DEF ThreadsJoined
<1>1. CASE UNCHANGED <<tpc, reason, relay>>
  BY <1>1 DEF Joined
<1>2. ASSUME NEW p \in Pid, Process(p) \/ KillWriting(p) \/ (Signalled(p) /\ NothingRelayed)
      PROVE  ThreadsJoined'
  <2>1. UNCHANGED <<tpc, reason>>
    BY <1>2
    DEF Process, Write, MakeSyscall, CompleteCall, KillWriting, Signalled, Killed, ChildStops,
        ChildFailsEarly, ChildExecve, Enter, Fork, Complete, Exit, vars, tracerVars
  <2>2. UNCHANGED relay
    BY <1>2 DEF Process, Write, WriteByte, MakeSyscall, CompleteCall, KillWriting, NothingRelayed
  <2> QED BY <1>1, <2>1, <2>2
<1>3. CASE JoinBoth
  BY <1>3 DEF JoinBoth, Joined, NothingRelayed
<1>4. CASE JoinOneFails
  BY <1>4 DEF JoinOneFails, JoinFails, TraceError
<1>5. CASE NothingRelayed /\ (WaitForChild \/ ChildNeverStopped \/ ReturnFromRun)
  BY <1>5 DEF WaitForChild, ChildNeverStopped, ReturnFromRun, Joined, NothingRelayed
<1>6. ASSUME NEW p \in Pid, NothingRelayed, Wait(p) \/ HandleStatus(p) PROVE ThreadsJoined'
  BY <1>6
  DEF Wait, HandleStatus, HandleExecveEnter, HandleGetcwdExit, HandleStatExit, MockCallback,
      HandleOtherSyscall, HandleOtherStop, HandleExited, RootExited, WrongSyscall, TraceeVanished,
      TraceError, Continue
<1>7. ASSUME NEW c \in Pid, NextRun(c) PROVE ThreadsJoined'
  BY <1>7 DEF NextRun, StartRun
<1>8. ASSUME NEW s \in Stream, Relay(s) \/ RelayBreaks(s) PROVE ThreadsJoined'
  <2>1. ~Joined
    BY <1>8 DEF Relay, RelayBreaks, RelayStep, Read, ReadEnd, WriteAll, CaptureAll, WriteFails, Joined
  <2>2. UNCHANGED <<tpc, reason>>
    BY <1>8 DEF Relay, RelayBreaks, vars
  <2> QED BY <2>1, <2>2
<1>9. CASE Finished /\ NothingRelayed
  BY <1>1, <1>9 DEF Finished, vars, NothingRelayed
<1>10. CASE UNCHANGED outputVars
  BY <1>1, <1>10 DEF outputVars, vars, redirectorVars
<1> QED BY <1>2, <1>3, <1>4, <1>5, <1>6, <1>7, <1>8, <1>9, <1>10 DEF OutputNext, Tracing

LEMMA AllOutput ==
    ASSUME IInv, ThreadsJoined, Conserved
    PROVE  VerdictHasAllOutput
<1> SUFFICES ASSUME outcome = "verdict", NEW s \in Stream
             PROVE  out[s] = written[s] /\ (s \in Capture => captured[s] = written[s])
  BY DEF VerdictHasAllOutput
<1>1. relay[s] = "done"
  BY DEF IInv, StartingRoot, ErrorEndsTrace, ThreadsJoined, Joined
<1>2. Kept(s) /\ pipe[s] = <<>>
  BY <1>1, KeptIsAll DEF Conserved, EndedAtTheEnd
<1>3. out[s] \in Seq(Byte) /\ captured[s] \in Seq(Byte)
  BY StreamTypes DEF Conserved
<1>4. out[s] \o <<>> = out[s]
  BY <1>3, ConcatEmptySeq
<1>5. captured[s] \o <<>> = captured[s]
  BY <1>3, ConcatEmptySeq
<1> QED BY <1>1, <1>2, <1>4, <1>5 DEF Kept, Unrelayed, Uncaptured

(***************************************************************************)
(* When the verdict is made everything the script wrote was relayed and    *)
(* captured, for any sizes of writes, pipes and buffers.                   *)
(***************************************************************************)
THEOREM VerdictIsInformed == OutputSpec => []VerdictHasAllOutput
<1>1. OutputInit => ThreadsJoined
  BY DEF OutputInit, Init, ThreadsJoined
<1>2. IInv /\ ThreadsJoined /\ [OutputNext]_outputVars => ThreadsJoined'
  BY ThreadsJoinedStep
<1>3. IInv /\ ThreadsJoined /\ Conserved => VerdictHasAllOutput
  BY AllOutput
<1>4. OutputSpec => []IInv
  BY ComposedTracer, Invariant, PTL
<1>5. OutputSpec => []Conserved
  BY ComposedRedirector, ConservedAlways, PTL
<1> QED BY <1>1, <1>2, <1>3, <1>4, <1>5, PTL DEF OutputSpec
=============================================================================
