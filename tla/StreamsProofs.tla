---------------------------- MODULE StreamsProofs ----------------------------
(***************************************************************************)
(* Proofs about Streams: for any packets that fit the framing, any data    *)
(* between them, any cut into segments and any sizes of buffers.           *)
(***************************************************************************)
EXTENDS Streams, SequenceFacts

-----------------------------------------------------------------------------
(* The lines of a download                                                 *)

Chars == {"c", "\n"}

LEMMA UzConstants == N \in Nat /\ N > 0 /\ MaxPiece \in Nat /\ \A b \in Bodies : b \in Seq(Chars)
  BY StreamsAssumption DEF Chars

\* Once the decoder is gone nothing is to come, and read gives back all that it has.
UzInv ==
  /\ body \in Seq(Chars) /\ rest \in Seq(Chars) /\ outdata \in Seq(Chars)
  /\ line \in Seq(Chars) /\ yielded \in Seq(Chars)
  /\ decoder \in BOOLEAN /\ pc \in {"next", "read", "stop"}
  /\ yielded \o line \o outdata \o rest = body
  /\ ~decoder => rest = <<>> /\ Len(outdata) < N /\ (pc = "next" => outdata = <<>>)
  /\ pc = "read" => UZ!LineEnds(line) = {}
  /\ pc = "stop" => rest = <<>> /\ outdata = <<>> /\ UZ!LineEnds(line) = {}

LEMMA UzInit == UZ!Init => UzInv
<1> SUFFICES ASSUME UZ!Init PROVE UzInv
  OBVIOUS
<1>1. body \in Seq(Chars) /\ <<>> \in Seq(Chars)
  BY UzConstants DEF UZ!Init
<1>2. <<>> \o <<>> \o <<>> \o body = body
  BY <1>1
<1> QED
  BY <1>1, <1>2 DEF UZ!Init, UzInv

\* A line moves from line to yielded.
LEMMA UzNextLine == UzInv /\ UZ!NextLine => UzInv'
<1> SUFFICES ASSUME UzInv, UZ!NextLine PROVE UzInv'
  OBVIOUS
<1> DEFINE E == UZ!LineEnds(line)
           i == CHOOSE k \in E : \A j \in E : k <= j
<1>1. line \in Seq(Chars) /\ yielded \in Seq(Chars) /\ Len(line) \in Nat
  BY DEF UzInv
<1>2. E \subseteq 1..Len(line) /\ E # {}
  BY <1>1 DEF UZ!NextLine, UZ!LineEnds
<1>3. i \in E
  <2> HIDE DEF E
  <2>1. E \in SUBSET Nat
    BY <1>1, <1>2
  <2>2. \E k \in E : \A j \in E : k <= j
    BY <1>2, <2>1, LeastElement
  <2> QED
    BY <2>2
<1>4. yielded' = yielded \o SubSeq(line, 1, i) /\ line' = SubSeq(line, i + 1, Len(line))
  BY DEF UZ!NextLine, UZ!Take, UZ!Past
<1> HIDE DEF i
<1>5. i \in 0..Len(line)
  BY <1>1, <1>2, <1>3
<1>6. yielded' \in Seq(Chars) /\ line' \in Seq(Chars) /\ yielded' \o line' = yielded \o line
  <2>1. /\ yielded \o SubSeq(line, 1, i) \in Seq(Chars) /\ SubSeq(line, i + 1, Len(line)) \in Seq(Chars)
        /\ (yielded \o SubSeq(line, 1, i)) \o SubSeq(line, i + 1, Len(line)) = yielded \o line
    BY <1>1, <1>5, MoveLeft, ZenonT(30)
  <2> QED
    BY <1>4, <2>1
<1> QED
  BY <1>6 DEF UZ!NextLine, UzInv

LEMMA UzCallRead == UzInv /\ UZ!CallRead => UzInv'
  BY DEF UzInv, UZ!CallRead, UZ!LineEnds

\* Bytes move from rest to outdata.
LEMMA UzPiece == UzInv /\ UZ!Piece => UzInv'
<1> SUFFICES ASSUME UzInv, UZ!Piece PROVE UzInv'
  OBVIOUS
<1>1. ASSUME NEW k \in 1..MaxPiece, k <= Len(rest),
             outdata' = outdata \o UZ!Take(rest, k), rest' = UZ!Past(rest, k), UNCHANGED decoder
      PROVE  UzInv'
  <2>1. outdata \in Seq(Chars) /\ rest \in Seq(Chars) /\ k \in 0..Len(rest)
    BY <1>1 DEF UzInv
  <2>2. outdata' = outdata \o SubSeq(rest, 1, k) /\ rest' = SubSeq(rest, k + 1, Len(rest))
    BY <1>1 DEF UZ!Take, UZ!Past
  <2>3. outdata' \in Seq(Chars) /\ rest' \in Seq(Chars) /\ outdata' \o rest' = outdata \o rest
    <3>1. /\ outdata \o SubSeq(rest, 1, k) \in Seq(Chars) /\ SubSeq(rest, k + 1, Len(rest)) \in Seq(Chars)
          /\ (outdata \o SubSeq(rest, 1, k)) \o SubSeq(rest, k + 1, Len(rest)) = outdata \o rest
      BY <2>1, MoveLeft, ZenonT(30)
    <3> QED
      BY <2>2, <3>1
  <2>4. yielded \o line \o outdata' \o rest' = body
    <3> DEFINE y == yielded \o line
    <3>1. y \in Seq(Chars) /\ outdata \in Seq(Chars) /\ rest \in Seq(Chars)
      BY DEF UzInv
    <3>2. y \in Seq(Chars) /\ outdata' \in Seq(Chars) /\ rest' \in Seq(Chars)
      BY <2>3, <3>1
    <3>3. y \o outdata \o rest = body
      BY DEF UzInv
    <3> HIDE DEF y
    <3>4. (y \o outdata) \o rest = y \o (outdata \o rest)
      BY <3>1, ConcatAssociative
    <3>5. (y \o outdata') \o rest' = y \o (outdata' \o rest')
      BY <3>2, ConcatAssociative
    <3> QED
      BY <2>3, <3>3, <3>4, <3>5 DEF y
  <2> QED
    BY <1>1, <2>3, <2>4 DEF UzInv, UZ!Piece
<1>2. ASSUME rest = <<>>, decoder' = FALSE, UNCHANGED <<outdata, rest>>
      PROVE  UzInv'
  BY <1>2 DEF UzInv, UZ!Piece
<1> QED
  BY <1>1, <1>2 DEF UZ!Piece

\* Bytes move from outdata to line; if there are none, nothing is left.
LEMMA UzReadReturns == UzInv /\ UZ!ReadReturns => UzInv'
<1> SUFFICES ASSUME UzInv, UZ!ReadReturns PROVE UzInv'
  OBVIOUS
<1> DEFINE k == IF Len(outdata) <= N THEN Len(outdata) ELSE N
           a == SubSeq(outdata, 1, k)
           b == SubSeq(outdata, k + 1, Len(outdata))
<1>1. line \in Seq(Chars) /\ outdata \in Seq(Chars) /\ k \in 0..Len(outdata)
  BY UzConstants DEF UzInv
<1>2. line' = line \o a /\ outdata' = b
  <2>1. CASE Len(outdata) <= N
    <3>1. k = Len(outdata)
      BY <2>1
    <3>2. a = outdata
      BY <1>1, <3>1, SubSeqFull
    <3>3. b = <<>>
      <4>1. Len(outdata) \in Nat /\ Len(outdata) \in 0..Len(outdata)
        BY <1>1
      <4>2. b = SubSeq(outdata, Len(outdata) + 1, Len(outdata))
        BY <3>1
      <4>3. b \in Seq(Chars) /\ Len(b) = Len(outdata) - Len(outdata)
        <5> HIDE DEF b
        <5> QED
          BY <1>1, <4>1, <4>2, CutAt
      <4> HIDE DEF b
      <4> QED
        BY <4>1, <4>3
    <3> QED
      BY <2>1, <3>2, <3>3 DEF UZ!ReadReturns, UZ!Keep
  <2>2. CASE ~ (Len(outdata) <= N)
    BY <2>2 DEF UZ!ReadReturns, UZ!Keep, UZ!Take, UZ!Past
  <2> QED
    BY <2>1, <2>2
<1>3. ~decoder => outdata' = <<>>
  <2> SUFFICES ASSUME ~decoder PROVE outdata' = <<>>
    OBVIOUS
  <2>1. Len(outdata) <= N
    BY <1>1 DEF UzInv
  <2> QED
    BY <2>1 DEF UZ!ReadReturns, UZ!Keep
<1>4. outdata = <<>> => ~decoder /\ line' = line
  <2> SUFFICES ASSUME outdata = <<>> PROVE ~decoder /\ line' = line
    OBVIOUS
  <2>1. Len(outdata) = 0 /\ ~ (Len(outdata) >= N)
    BY UzConstants
  <2>2. ~decoder
    BY <2>1 DEF UZ!ReadReturns
  <2>3. a = <<>>
    BY <2>1
  <2>4. line \o <<>> = line
    BY <1>1
  <2> QED
    BY <1>2, <2>2, <2>3, <2>4
<1> HIDE DEF k
<1>5. line' \in Seq(Chars) /\ outdata' \in Seq(Chars) /\ line' \o outdata' = line \o outdata
  <2>1. line \o a \in Seq(Chars) /\ b \in Seq(Chars) /\ (line \o a) \o b = line \o outdata
    BY <1>1, MoveLeft, ZenonT(30)
  <2> QED
    BY <1>2, <2>1
<1> HIDE DEF a, b
<1>6. yielded \o line' \o outdata' \o rest = body
  <2>1. yielded \in Seq(Chars) /\ line \in Seq(Chars) /\ outdata \in Seq(Chars)
    BY DEF UzInv
  <2>5. yielded \in Seq(Chars) /\ line' \in Seq(Chars) /\ outdata' \in Seq(Chars)
    BY <1>5, <2>1
  <2>2. (yielded \o line) \o outdata = yielded \o (line \o outdata)
    BY <2>1, ConcatAssociative
  <2>3. (yielded \o line') \o outdata' = yielded \o (line' \o outdata')
    BY <2>5, ConcatAssociative
  <2>4. yielded \o line \o outdata \o rest = body
    BY DEF UzInv
  <2> QED
    BY <1>5, <2>2, <2>3, <2>4
<1>7. /\ body' = body /\ rest' = rest /\ yielded' = yielded /\ decoder' = decoder
      /\ pc = "read" /\ pc' = IF outdata = <<>> THEN "stop" ELSE "next"
  BY DEF UZ!ReadReturns
<1>8. ~decoder' => rest' = <<>> /\ Len(outdata') < N /\ outdata' = <<>>
  <2>1. Len(<<>>) < N
    BY UzConstants
  <2> QED
    BY <1>3, <1>7, <2>1 DEF UzInv
<1>9. pc' = "stop" => rest' = <<>> /\ outdata' = <<>> /\ UZ!LineEnds(line)' = {}
  BY <1>4, <1>7, <1>8 DEF UzInv, UZ!LineEnds
<1> QED
  BY <1>5, <1>6, <1>7, <1>8, <1>9 DEF UzInv

\* EveryByteInOrder of Streams: on their way through read (ocid_dload.py:51) and __next__
\* (ocid_dload.py:65) the bytes of a body are neither lost nor moved, and the iterator
\* stops only when none is left but those behind the last line end.
THEOREM BytesStayInOrder == Spec => []EveryByteInOrder
<1> DEFINE Inv == part = "unzipped" => UzInv
<1>1. Init => Inv
  BY UzInit DEF Init
<1>2. Inv /\ [Next]_vars => Inv'
  <2> SUFFICES ASSUME Inv, [Next]_vars, part' = "unzipped" PROVE UzInv'
    OBVIOUS
  <2>1. CASE UnzippedStep
    <3>1. UzInv /\ UZ!Next
      BY <2>1 DEF UnzippedStep
    <3>2. UZ!Stopped => UzInv'
      BY <3>1 DEF UZ!Stopped, UZ!vars, UzInv, UZ!LineEnds
    <3> QED
      BY <3>1, <3>2, UzNextLine, UzCallRead, UzPiece, UzReadReturns DEF UZ!Next
  <2>2. CASE UNCHANGED vars
    BY <2>2 DEF vars, deframer, unzipped, UzInv, UZ!LineEnds
  <2>3. CASE Zx303Step \/ BeesureStep
    BY <2>3 DEF Zx303Step, BeesureStep
  <2> QED
    BY <2>1, <2>2, <2>3 DEF Next
<1>3. Inv => EveryByteInOrder
  BY DEF EveryByteInOrder, UZ!EveryByteInOrder, UzInv
<1> QED
  BY <1>1, <1>2, <1>3, PTL DEF Spec

-----------------------------------------------------------------------------
(* What is left of a stream, for both deframers                            *)

\* The buffer and the segments to come are what follows the first n pieces of a stream.
Follows(seqs, b, w, n) ==
  /\ Len(b) + Len(w) = Len(FlattenSeq(seqs)) - EndOf(seqs, n)
  /\ \A i \in 1..Len(b) : b[i] = FlattenSeq(seqs)[EndOf(seqs, n) + i]
  /\ \A i \in 1..Len(w) : w[i] = FlattenSeq(seqs)[EndOf(seqs, n) + Len(b) + i]

\* In the beginning all is to come.
LEMMA FollowsInit ==
  ASSUME NEW S, NEW seqs \in Seq(Seq(S))
  PROVE  Follows(seqs, <<>>, FlattenSeq(seqs), 0)
<1>1. EndOf(seqs, 0) = 0
  BY EndsType
<1>2. FlattenSeq(seqs) \in Seq(S)
  BY FlattenType
<1> QED
  BY <1>1, <1>2 DEF Follows

\* A segment moves to the buffer.
LEMMA FollowsSegment ==
  ASSUME NEW S, NEW seqs \in Seq(Seq(S)), NEW b \in Seq(S), NEW w \in Seq(S),
         NEW n \in 0..Len(seqs), Follows(seqs, b, w, n), NEW k \in 0..Len(w)
  PROVE  /\ b \o SubSeq(w, 1, k) \in Seq(S) /\ SubSeq(w, k + 1, Len(w)) \in Seq(S)
         /\ Len(b \o SubSeq(w, 1, k)) = Len(b) + k
         /\ Follows(seqs, b \o SubSeq(w, 1, k), SubSeq(w, k + 1, Len(w)), n)
<1> DEFINE a == SubSeq(w, 1, k)
           c == SubSeq(w, k + 1, Len(w))
           d == b \o a
           all == FlattenSeq(seqs)
           e == EndOf(seqs, n)
<1>1. /\ a \in Seq(S) /\ Len(a) = k /\ \A i \in 1..k : a[i] = w[i]
      /\ c \in Seq(S) /\ Len(c) = Len(w) - k /\ \A i \in 1..(Len(w) - k) : c[i] = w[k + i]
  BY CutAt
<1> HIDE DEF a, c
<1>2. /\ d \in Seq(S) /\ Len(d) = Len(b) + k
      /\ \A i \in 1..Len(b) : d[i] = b[i]
      /\ \A i \in 1..k : d[Len(b) + i] = a[i]
  <2>1. a \in Seq(S)
    BY <1>1
  <2>3. Len(a) = k
    BY <1>1
  <2>2. /\ d \in Seq(S) /\ Len(d) = Len(b) + Len(a)
        /\ \A i \in 1..Len(b) : d[i] = b[i]
        /\ \A i \in 1..Len(a) : d[Len(b) + i] = a[i]
    BY <2>1, ConcatAt
  <2> HIDE DEF d
  <2> QED
    BY <2>2, <2>3
<1>3. e \in Nat /\ Len(b) \in Nat /\ Len(w) \in Nat
  BY EndsType
<1>4. /\ Len(b) + Len(w) = Len(all) - e
      /\ \A i \in 1..Len(b) : b[i] = all[e + i]
      /\ \A i \in 1..Len(w) : w[i] = all[e + Len(b) + i]
  BY DEF Follows
<1> HIDE DEF d, all, e
<1>5. Len(d) + Len(c) = Len(all) - e
  <2>1. Len(d) = Len(b) + k /\ Len(c) = Len(w) - k
    BY <1>1, <1>2
  <2>2. Len(d) + Len(c) = Len(b) + Len(w)
    BY <1>3, <2>1
  <2> QED
    BY <1>4, <2>2
<1>6. ASSUME NEW i \in 1..Len(d) PROVE d[i] = all[e + i]
  <2>1. CASE i <= Len(b)
    BY <1>2, <1>3, <1>4, <2>1
  <2>2. CASE ~ (i <= Len(b))
    <3>1. i - Len(b) \in 1..k /\ i = Len(b) + (i - Len(b)) /\ i - Len(b) \in 1..Len(w)
      BY <1>2, <1>3, <2>2
    <3>2. d[i] = w[i - Len(b)]
      BY <1>1, <1>2, <3>1
    <3>3. e + Len(b) + (i - Len(b)) = e + i
      BY <1>3
    <3> QED
      BY <1>4, <3>1, <3>2, <3>3
  <2> QED
    BY <2>1, <2>2
<1>7. ASSUME NEW i \in 1..Len(c) PROVE c[i] = all[e + Len(d) + i]
  <2>1. i \in 1..(Len(w) - k) /\ k + i \in 1..Len(w) /\ e + Len(b) + (k + i) = e + Len(d) + i
    BY <1>1, <1>2, <1>3
  <2> QED
    BY <1>1, <1>4, <2>1
<1> QED
  BY <1>1, <1>2, <1>5, <1>6, <1>7 DEF Follows, a, c, d, all, e

\* Whole pieces leave the buffer.
LEMMA FollowsCut ==
  ASSUME NEW S, NEW seqs \in Seq(Seq(S)), NEW b \in Seq(S), NEW w \in Seq(S),
         NEW n \in 0..Len(seqs), Follows(seqs, b, w, n), NEW m \in n..Len(seqs),
         NEW k \in 0..Len(b), EndOf(seqs, m) = EndOf(seqs, n) + k
  PROVE  /\ SubSeq(b, k + 1, Len(b)) \in Seq(S)
         /\ Follows(seqs, SubSeq(b, k + 1, Len(b)), w, m)
<1> DEFINE c == SubSeq(b, k + 1, Len(b))
           all == FlattenSeq(seqs)
           e == EndOf(seqs, n)
           f == EndOf(seqs, m)
<1>1. c \in Seq(S) /\ Len(c) = Len(b) - k /\ \A i \in 1..(Len(b) - k) : c[i] = b[k + i]
  BY CutAt
<1>2. e \in Nat /\ f \in Nat /\ Len(b) \in Nat /\ Len(w) \in Nat /\ f = e + k
  BY EndsType
<1>3. /\ Len(b) + Len(w) = Len(all) - e
      /\ \A i \in 1..Len(b) : b[i] = all[e + i]
      /\ \A i \in 1..Len(w) : w[i] = all[e + Len(b) + i]
  BY DEF Follows
<1>4. Len(all) \in Nat
  BY FlattenType
<1> HIDE DEF c, all, e, f
<1>5. Len(c) + Len(w) = Len(all) - f
  <2>1. Len(c) = Len(b) - k /\ Len(b) + Len(w) = Len(all) - e
    BY <1>1, <1>3
  <2> QED
    BY <1>2, <1>4, <2>1
<1>6. ASSUME NEW i \in 1..Len(c) PROVE c[i] = all[f + i]
  <2>1. i \in 1..(Len(b) - k) /\ k + i \in 1..Len(b) /\ e + (k + i) = f + i
    BY <1>1, <1>2
  <2> QED
    BY <1>1, <1>3, <2>1
<1>7. ASSUME NEW i \in 1..Len(w) PROVE w[i] = all[f + Len(c) + i]
  <2>1. f + Len(c) + i = e + Len(b) + i
    BY <1>1, <1>2
  <2> QED
    BY <1>3, <2>1
<1> QED
  BY <1>1, <1>5, <1>6, <1>7 DEF Follows, c, all, e, f

\* What is in the buffer of a later piece.
LEMMA FollowsAt ==
  ASSUME NEW S, NEW seqs \in Seq(Seq(S)), NEW b \in Seq(S), NEW w \in Seq(S),
         NEW n \in 0..Len(seqs), Follows(seqs, b, w, n), NEW m \in n..(Len(seqs) - 1),
         NEW k \in Nat, EndOf(seqs, m) = EndOf(seqs, n) + k
  PROVE  \A i \in 1..Len(seqs[m + 1]) : k + i <= Len(b) => b[k + i] = seqs[m + 1][i]
<1> SUFFICES ASSUME NEW i \in 1..Len(seqs[m + 1]), k + i <= Len(b)
             PROVE  b[k + i] = seqs[m + 1][i]
  OBVIOUS
<1>1. m + 1 \in 1..Len(seqs) /\ (m + 1) - 1 = m
  OBVIOUS
<1>2. FlattenSeq(seqs)[EndOf(seqs, m) + i] = seqs[m + 1][i]
  BY <1>1, FlattenAt
<1>3. k + i \in 1..Len(b) /\ EndOf(seqs, n) \in Nat
  BY EndsType
<1>4. b[k + i] = FlattenSeq(seqs)[EndOf(seqs, n) + (k + i)]
  BY <1>3 DEF Follows
<1>5. EndOf(seqs, n) + (k + i) = EndOf(seqs, m) + i
  BY <1>3
<1> QED
  BY <1>2, <1>4, <1>5

-----------------------------------------------------------------------------
(* The frames of zx303                                                     *)

xx == <<ZX!x, ZX!x>>
crlf == <<ZX!CR, ZX!LF>>

\* find returns the least offset, or None.
LEMMA FindFirst ==
  ASSUME NEW s \in Seq(Nat), NEW bb, NEW n \in Nat
  PROVE  /\ ZX!Offsets(s, bb, n) = {} => ZX!find(s, bb, n) = -1
         /\ ZX!Offsets(s, bb, n) # {} => /\ ZX!find(s, bb, n) \in ZX!Offsets(s, bb, n)
                                         /\ ZX!find(s, bb, n) \in Nat
                                         /\ \A j \in ZX!Offsets(s, bb, n) : ZX!find(s, bb, n) <= j
<1> DEFINE O == ZX!Offsets(s, bb, n)
<1>1. O \in SUBSET Nat
  BY DEF ZX!Offsets
<1>2. ZX!find(s, bb, n) = IF O = {} THEN -1 ELSE CHOOSE i \in O : \A j \in O : i <= j
  BY DEF ZX!find, ZX!None
<1> HIDE DEF O
<1>3. ASSUME O # {} PROVE ZX!find(s, bb, n) \in O /\ \A j \in O : ZX!find(s, bb, n) <= j
  <2>1. \E i \in O : \A j \in O : i <= j
    BY <1>1, <1>3, LeastElement
  <2> DEFINE c == CHOOSE i \in O : \A j \in O : i <= j
  <2>2. c \in O /\ \A j \in O : c <= j
    BY <2>1
  <2>3. ZX!find(s, bb, n) = c
    BY <1>2, <1>3
  <2> HIDE DEF c
  <2> QED
    BY <2>2, <2>3
<1> QED
  BY <1>1, <1>2, <1>3 DEF O

\* The bytes at an offset.
LEMMA OffsetsOf ==
  ASSUME NEW s \in Seq(Nat), NEW a, NEW c, NEW n \in Nat, NEW i
  PROVE  i \in ZX!Offsets(s, <<a, c>>, n) <=>
           i \in Nat /\ n <= i /\ i + 2 <= Len(s) /\ s[i + 1] = a /\ s[i + 2] = c
  BY DEF ZX!Offsets

LEMMA IsOffset ==
  ASSUME NEW s \in Seq(Nat), NEW a, NEW c, NEW n \in Nat, NEW i \in Nat,
         n <= i, i + 2 <= Len(s), s[i + 1] = a, s[i + 2] = c
  PROVE  i \in ZX!Offsets(s, <<a, c>>, n)
  BY DEF ZX!Offsets

\* A piece of the stream that holds no start of a frame, whatever follows it.
Plain(i) == i.junk /\ ZX!Offsets(i.data \o <<ZX!x>>, xx, 0) = {}

\* What the deframer needs of a frame: the content of one that is returned, or of one
\* that is too short.
Content(p) ==
  /\ p \in Seq(Nat) /\ Len(p) >= 1 /\ p[1] <= Len(p) + 2
  /\ \A i \in ZX!Offsets(p \o crlf, crlf, 0) : i + 2 >= p[1] => i = Len(p)

LEMMA Enframed ==
  ASSUME NEW p \in Seq(Nat)
  PROVE  /\ ZX!enframe(p) \in Seq(Nat) /\ Len(ZX!enframe(p)) = Len(p) + 4
         /\ ZX!enframe(p)[1] = ZX!x /\ ZX!enframe(p)[2] = ZX!x
         /\ \A i \in 1..Len(p) : ZX!enframe(p)[i + 2] = p[i]
         /\ ZX!enframe(p)[Len(p) + 3] = ZX!CR /\ ZX!enframe(p)[Len(p) + 4] = ZX!LF
  BY DEF ZX!enframe, ZX!x, ZX!CR, ZX!LF

LEMMA ItemsType ==
  ASSUME NEW i \in ZX!Items
  PROVE  /\ ZX!Bytes(i) \in Seq(Nat)
         /\ ZX!Packet(i) \in Seq(Packets)
         /\ i.data \in Seq(Nat)
<1>1. i.data \in Packets \cup Junk /\ i.junk \in BOOLEAN /\ (~i.junk => i.data \in Packets)
  BY DEF ZX!Items
<1>2. i.data \in Seq(Nat)
  BY <1>1, StreamsAssumption
<1>3. ZX!enframe(i.data) \in Seq(Nat)
  BY <1>2, Enframed
<1> QED
  BY <1>1, <1>2, <1>3 DEF ZX!Bytes, ZX!Packet

LEMMA PlainItem ==
  ASSUME NEW i \in ZX!Items, Plain(i)
  PROVE  ZX!Bytes(i) = i.data /\ ZX!Packet(i) = <<>>
  BY DEF Plain, ZX!Bytes, ZX!Packet

\* Every other item is a frame.
LEMMA FramedItem ==
  ASSUME NEW i \in ZX!Items, ~Plain(i)
  PROVE  \E p : /\ Content(p) /\ ZX!Bytes(i) = ZX!enframe(p)
                /\ ZX!Packet(i) = IF Len(p) >= 2 THEN <<p>> ELSE <<>>
<1>1. CASE ~i.junk
  <2>1. i.data \in Packets
    BY <1>1 DEF ZX!Items
  <2>2. i.data \in Seq(Nat) /\ ZX!Framable(i.data)
    BY <2>1, StreamsAssumption
  <2>3. Content(i.data) /\ Len(i.data) >= 2
    <3> DEFINE p == i.data
    <3>1. p \in Seq(Nat) /\ Len(p) >= 2 /\ p[1] <= Len(p) + 2
      BY <2>2 DEF ZX!Framable
    <3>2. \A k \in ZX!Offsets(p \o crlf, crlf, 0) : k + 2 >= p[1] => k = Len(p)
      BY <2>2 DEF ZX!Framable, crlf
    <3> HIDE DEF p
    <3>3. Len(p) >= 1
      BY <3>1
    <3>4. Content(p)
      BY <3>1, <3>2, <3>3 DEF Content
    <3> QED
      BY <3>1, <3>4 DEF p
  <2> QED
    BY <1>1, <2>3 DEF ZX!Bytes, ZX!Packet
<1>2. CASE i.junk
  <2>1. i.data \in Junk
    BY <1>2 DEF ZX!Items
  <2>2. ZX!Skippable(i.data)
    BY <2>1, StreamsAssumption
  <2>3. PICK n \in 0..3 : i.data = ZX!enframe(<<n>>)
    BY <1>2, <2>2 DEF ZX!Skippable, Plain, xx
  <2> DEFINE p == <<n>>
  <2>4. p \in Seq(Nat) /\ Len(p) = 1 /\ p[1] = n
    OBVIOUS
  <2>5. ASSUME NEW k \in ZX!Offsets(p \o crlf, crlf, 0) PROVE k = 1
    <3>1. /\ p \o crlf \in Seq(Nat) /\ Len(p \o crlf) = 3
          /\ (p \o crlf)[1] = n /\ (p \o crlf)[2] = 13 /\ (p \o crlf)[3] = 10
      BY DEF crlf, ZX!CR, ZX!LF
    <3>2. k \in Nat /\ k + 2 <= 3 /\ (p \o crlf)[k + 1] = 13
      BY <3>1 DEF crlf, ZX!Offsets, ZX!CR, ZX!LF
    <3>3. k = 0 \/ k = 1
      BY <3>2
    <3> HIDE DEF p
    <3> QED
      BY <3>1, <3>2, <3>3
  <2>6. Content(p)
    BY <2>4, <2>5 DEF Content
  <2>7. ZX!Bytes(i) = ZX!enframe(p) /\ ZX!Packet(i) = <<>>
    BY <1>2, <2>3 DEF ZX!Bytes, ZX!Packet
  <2>8. ZX!Packet(i) = IF Len(p) >= 2 THEN <<p>> ELSE <<>>
    BY <2>4, <2>7
  <2> HIDE DEF p
  <2> QED
    BY <2>6, <2>7, <2>8
<1>3. i.junk \in BOOLEAN
  BY DEF ZX!Items
<1> QED
  BY <1>1, <1>2

\* Where the deframer finds the end of the frame that its buffer starts with: where it is,
\* or nowhere if the frame is not complete.
LEMMA FrameEnd ==
  ASSUME NEW p, Content(p), NEW b \in Seq(Nat), Len(b) >= 6,
         \A i \in 1..Len(b) : i <= Len(p) + 4 => b[i] = ZX!enframe(p)[i]
  PROVE  /\ Len(p) + 4 <= Len(b) => /\ ZX!frameend(b) = Len(p) + 2
                                    /\ SubSeq(b, 3, Len(p) + 2) = p
         /\ ~ (Len(p) + 4 <= Len(b)) => ZX!frameend(b) = -1
<1> DEFINE f == ZX!enframe(p)
           pe == p \o crlf
           from == IF b[3] > 1 THEN b[3] ELSE 1
           O == ZX!Offsets(b, crlf, from)
<1>1. /\ p \in Seq(Nat) /\ Len(p) \in Nat /\ Len(p) >= 1 /\ p[1] <= Len(p) + 2 /\ p[1] \in Nat
      /\ Len(b) \in Nat
  BY DEF Content
<1>2. /\ f \in Seq(Nat) /\ Len(f) = Len(p) + 4
      /\ f[1] = ZX!x /\ f[2] = ZX!x
      /\ \A i \in 1..Len(p) : f[i + 2] = p[i]
      /\ f[Len(p) + 3] = ZX!CR /\ f[Len(p) + 4] = ZX!LF
  BY <1>1, Enframed
<1>3. \A i \in 1..Len(b) : i <= Len(p) + 4 => b[i] = f[i]
  OBVIOUS
<1>4. /\ pe \in Seq(Nat) /\ Len(pe) = Len(p) + 2
      /\ \A i \in 1..Len(p) : pe[i] = p[i]
      /\ pe[Len(p) + 1] = ZX!CR /\ pe[Len(p) + 2] = ZX!LF
  BY <1>1 DEF crlf, ZX!CR, ZX!LF
<1> HIDE DEF f, pe
<1>5. \A i \in 1..(Len(p) + 2) : f[i + 2] = pe[i]
  <2> SUFFICES ASSUME NEW i \in 1..(Len(p) + 2) PROVE f[i + 2] = pe[i]
    OBVIOUS
  <2>1. i \in 1..Len(p) \/ i = Len(p) + 1 \/ i = Len(p) + 2
    <3>1. \A n \in Nat : \A k \in 1..(n + 2) : k \in 1..n \/ k = n + 1 \/ k = n + 2
      OBVIOUS
    <3> QED
      BY <1>1, <3>1
  <2>2. (Len(p) + 1) + 2 = Len(p) + 3 /\ (Len(p) + 2) + 2 = Len(p) + 4
    BY <1>1
  <2> QED
    BY <1>2, <1>4, <2>1, <2>2
<1>6. b[3] = p[1]
  <2>1. 3 \in 1..Len(b) /\ 3 <= Len(p) + 4 /\ 1 \in 1..Len(p) /\ 1 + 2 = 3
    BY <1>1
  <2>2. b[3] = f[3]
    BY <1>3, <2>1
  <2>3. f[1 + 2] = p[1]
    BY <1>2, <2>1
  <2> QED
    BY <2>1, <2>2, <2>3
<1>7. from \in Nat /\ from >= p[1] /\ from >= 1 /\ from <= Len(p) + 2
  BY <1>1, <1>6
<1> HIDE DEF from
<1>8. ZX!frameend(b) = ZX!find(b, crlf, from)
  BY DEF ZX!frameend, from, crlf
<1>9. ASSUME NEW i \in O PROVE i >= Len(p) + 2
  <2> SUFFICES ASSUME ~ (i >= Len(p) + 2) PROVE FALSE
    OBVIOUS
  <2>1. i \in Nat /\ from <= i /\ i + 2 <= Len(b) /\ b[i + 1] = ZX!CR /\ b[i + 2] = ZX!LF
    BY <1>7, OffsetsOf DEF crlf
  <2>2. i + 1 \in 1..Len(b) /\ i + 2 \in 1..Len(b) /\ i + 1 <= Len(p) + 4 /\ i + 2 <= Len(p) + 4
    BY <1>1, <2>1, SMTT(30)
  <2>3. f[i + 1] = ZX!CR /\ f[i + 2] = ZX!LF
    BY <1>3, <2>1, <2>2
  <2>4. i # 1
    <3>1. f[2] # ZX!CR
      BY <1>2 DEF ZX!x, ZX!CR
    <3> QED
      BY <2>3, <3>1
  <2>5. /\ i - 2 \in Nat /\ i - 1 \in 1..(Len(p) + 2) /\ i \in 1..(Len(p) + 2)
        /\ (i - 1) + 2 = i + 1 /\ (i - 2) + 2 <= Len(p) + 2 /\ (i - 2) + 1 = i - 1 /\ (i - 2) + 2 = i
    BY <1>1, <1>7, <2>1, <2>4, SMTT(30)
  <2>6. pe[i - 1] = ZX!CR /\ pe[i] = ZX!LF
    BY <1>5, <2>3, <2>5
  <2> DEFINE r == i - 2
  <2>7. r \in Nat /\ r + 2 <= Len(pe) /\ pe[r + 1] = ZX!CR /\ pe[r + 2] = ZX!LF /\ r + 2 = i
    BY <1>4, <2>5, <2>6
  <2> HIDE DEF r
  <2>8. r \in ZX!Offsets(pe, crlf, 0)
    <3>1. pe \in Seq(Nat) /\ 0 \in Nat /\ 0 <= r
      BY <1>4, <2>7
    <3> QED
      BY <2>7, <3>1, IsOffset DEF crlf
  <2>9. r + 2 >= p[1]
    <3>1. i >= p[1]
      BY <1>1, <1>7, <2>1, SMTT(30)
    <3> QED
      BY <2>7, <3>1
  <2>10. r = Len(p)
    BY <2>8, <2>9 DEF Content, pe
  <2> QED
    BY <1>1, <2>1, <2>7, <2>10
<1>10. CASE Len(p) + 4 <= Len(b)
  <2> DEFINE e == Len(p) + 2
  <2>1. /\ e \in Nat /\ e + 1 \in 1..Len(b) /\ e + 2 \in 1..Len(b)
        /\ e + 1 = Len(p) + 3 /\ e + 2 = Len(p) + 4 /\ e + 2 <= Len(b)
    BY <1>1, <1>10
  <2>2. b[e + 1] = ZX!CR /\ b[e + 2] = ZX!LF
    <3>1. b[e + 1] = f[e + 1] /\ b[e + 2] = f[e + 2]
      BY <1>1, <1>3, <2>1
    <3> QED
      BY <1>2, <2>1, <3>1
  <2>3. e \in O
    <3>1. e \in Nat /\ from <= e /\ e + 2 <= Len(b) /\ b[e + 1] = ZX!CR /\ b[e + 2] = ZX!LF
      BY <1>7, <2>1, <2>2
    <3> HIDE DEF e
    <3> QED
      BY <1>7, <3>1, IsOffset DEF crlf
  <2>4. ZX!find(b, crlf, from) \in O /\ ZX!find(b, crlf, from) \in Nat /\ ZX!find(b, crlf, from) <= e
    BY <1>7, <2>3, FindFirst
  <2>5. ZX!find(b, crlf, from) = e
    BY <1>1, <1>9, <2>4
  <2>6. SubSeq(b, 3, e) = p
    <3> DEFINE c == SubSeq(b, 3, e)
    <3>1. 3 \in Int /\ e \in Int /\ e <= Len(b) /\ 3 <= e
      BY <1>1, <1>10
    <3>2. \A i \in 3..e : b[i] \in Nat
      BY <3>1
    <3>3. c \in Seq(Nat) /\ Len(c) = e - 3 + 1 /\ \A i \in 1..(e - 3 + 1) : c[i] = b[3 + i - 1]
      BY <3>1, <3>2, SubSeqProperties
    <3>4. Len(c) = Len(p)
      BY <1>1, <3>3
    <3>5. ASSUME NEW i \in 1..Len(p) PROVE c[i] = p[i]
      <4>1. i \in 1..(e - 3 + 1) /\ 3 + i - 1 = i + 2 /\ i + 2 \in 1..Len(b) /\ i + 2 <= Len(p) + 4
        <5>1. \A k, l, j \in Nat : 1 <= j /\ j <= k /\ k + 4 <= l =>
                 /\ j \in 1..(k + 2 - 3 + 1) /\ 3 + j - 1 = j + 2
                 /\ j + 2 \in 1..l /\ j + 2 <= k + 4
          OBVIOUS
        <5>2. Len(p) \in Nat /\ Len(b) \in Nat /\ i \in Nat /\ 1 <= i /\ i <= Len(p)
          BY <1>1
        <5> QED
          BY <1>10, <5>1, <5>2
      <4>2. c[i] = b[i + 2]
        BY <3>3, <4>1
      <4>3. b[i + 2] = f[i + 2]
        BY <1>3, <4>1
      <4> QED
        BY <1>2, <4>2, <4>3
    <3> HIDE DEF c
    <3>6. c = p
      BY <1>1, <3>3, <3>4, <3>5, SeqEqual
    <3> QED
      BY <3>6 DEF c
  <2> QED
    BY <1>8, <1>10, <2>5, <2>6
<1>11. CASE ~ (Len(p) + 4 <= Len(b))
  <2>1. O = {}
    <3> SUFFICES ASSUME NEW i \in O PROVE FALSE
      OBVIOUS
    <3>1. i \in Nat /\ i + 2 <= Len(b)
      BY <1>7, OffsetsOf DEF crlf
    <3> QED
      BY <1>1, <1>9, <1>11, <3>1
  <2>2. ZX!find(b, crlf, from) = -1
    BY <1>7, <2>1, FindFirst
  <2> QED
    BY <1>8, <1>11, <2>2
<1> QED
  BY <1>10, <1>11

-----------------------------------------------------------------------------
(* Frames in a stream of zx303                                             *)

Pieces(its) == [k \in DOMAIN its |-> ZX!Bytes(its[k])]
Contents(its) == [k \in DOMAIN its |-> ZX!Packet(its[k])]

\* The packets among the first n items.
Returned(its, n) == Heads(Contents(its))[n]

LEMMA PiecesType ==
  ASSUME NEW its \in Seq(ZX!Items)
  PROVE  /\ Pieces(its) \in Seq(Seq(Nat)) /\ Len(Pieces(its)) = Len(its)
         /\ \A k \in 1..Len(its) : Pieces(its)[k] = ZX!Bytes(its[k])
         /\ Contents(its) \in Seq(Seq(Packets)) /\ Len(Contents(its)) = Len(its)
         /\ \A k \in 1..Len(its) : Contents(its)[k] = ZX!Packet(its[k])
<1>1. \A k \in 1..Len(its) : ZX!Bytes(its[k]) \in Seq(Nat) /\ ZX!Packet(its[k]) \in Seq(Packets)
  BY ItemsType
<1>2. DOMAIN its = 1..Len(its) /\ Len(its) \in Nat
  OBVIOUS
<1> QED
  BY <1>1, <1>2 DEF Pieces, Contents

\* No frame starts in plain items, not even with the byte behind them.
LEMMA NoStartInPlain ==
  ASSUME NEW its \in Seq(ZX!Items), NEW n \in 0..Len(its), NEW m \in n..Len(its),
         \A k \in (n + 1)..m : Plain(its[k]),
         NEW q \in Nat, EndOf(Pieces(its), n) < q, q <= EndOf(Pieces(its), m),
         q + 1 <= Len(FlattenSeq(Pieces(its))),
         FlattenSeq(Pieces(its))[q] = ZX!x, FlattenSeq(Pieces(its))[q + 1] = ZX!x
  PROVE  FALSE
<1> DEFINE seqs == Pieces(its)
           all == FlattenSeq(seqs)
<1>1. /\ seqs \in Seq(Seq(Nat)) /\ Len(seqs) = Len(its)
      /\ \A k \in 1..Len(its) : seqs[k] = ZX!Bytes(its[k])
  BY PiecesType
<1> HIDE DEF seqs
<1>2. /\ \A k \in 0..Len(seqs) : EndOf(seqs, k) \in Nat
      /\ \A k \in 0..Len(seqs) : \A l \in k..Len(seqs) : EndOf(seqs, k) <= EndOf(seqs, l)
      /\ Len(all) \in Nat
  BY <1>1, EndsType, HeadsGrow, FlattenType
<1>3. EndOf(seqs, n) < q /\ q <= EndOf(seqs, m) /\ q + 1 <= Len(all) /\ all[q] = ZX!x /\ all[q + 1] = ZX!x
  BY DEF seqs
<1>4. q \in 1..Len(all) /\ q + 1 \in 1..Len(all)
  BY <1>1, <1>2, <1>3
<1> HIDE DEF all
<1>5. PICK k \in 1..Len(seqs) : /\ EndOf(seqs, k - 1) < q /\ q <= EndOf(seqs, k)
                                /\ q - EndOf(seqs, k - 1) \in 1..Len(seqs[k])
  BY <1>1, <1>4, FlattenLocate DEF all
<1>6. k \in (n + 1)..m
  <2>1. ~ (k <= n)
    <3> SUFFICES ASSUME k <= n PROVE FALSE
      OBVIOUS
    <3>1. k \in 0..Len(seqs) /\ n \in k..Len(seqs) /\ n \in 0..Len(seqs)
      BY <1>1
    <3>2. EndOf(seqs, k) <= EndOf(seqs, n) /\ EndOf(seqs, k) \in Nat /\ EndOf(seqs, n) \in Nat
      BY <1>2, <3>1
    <3> QED
      BY <1>3, <1>5, <3>2
  <2>2. ~ (k > m)
    <3> SUFFICES ASSUME k > m PROVE FALSE
      OBVIOUS
    <3>1. m \in 0..Len(seqs) /\ k - 1 \in m..Len(seqs) /\ k - 1 \in 0..Len(seqs)
      BY <1>1
    <3>2. EndOf(seqs, m) <= EndOf(seqs, k - 1) /\ EndOf(seqs, m) \in Nat /\ EndOf(seqs, k - 1) \in Nat
      BY <1>2, <3>1
    <3> QED
      BY <1>3, <1>5, <3>2
  <2> QED
    BY <2>1, <2>2
<1> DEFINE j == its[k].data
           r == q - EndOf(seqs, k - 1)
<1>7. Plain(its[k]) /\ its[k] \in ZX!Items /\ k \in 1..Len(its)
  BY <1>1, <1>6
<1>8. seqs[k] = j /\ j \in Seq(Nat)
  BY <1>1, <1>7, PlainItem, ItemsType
<1>9. EndOf(seqs, k - 1) \in Nat /\ r \in 1..Len(j) /\ EndOf(seqs, k - 1) + r = q
  <2>1. k - 1 \in 0..Len(seqs)
    BY <1>1
  <2>2. EndOf(seqs, k - 1) \in Nat
    BY <1>2, <2>1
  <2>3. r \in 1..Len(j)
    BY <1>5, <1>8
  <2> QED
    BY <2>2, <2>3
<1> HIDE DEF j, r
<1>10. j[r] = ZX!x
  BY <1>1, <1>3, <1>5, <1>8, <1>9, FlattenAt DEF all
<1> DEFINE jx == j \o <<ZX!x>>
<1>11. /\ jx \in Seq(Nat) /\ Len(jx) = Len(j) + 1 /\ jx[Len(j) + 1] = ZX!x
       /\ \A i \in 1..Len(j) : jx[i] = j[i]
  BY <1>8 DEF ZX!x
<1> HIDE DEF jx
<1>12. jx[r + 1] = ZX!x
  <2>1. CASE r = Len(j)
    BY <1>11, <2>1
  <2>2. CASE r # Len(j)
    <3>1. r + 1 \in 1..Len(j) /\ EndOf(seqs, k - 1) + (r + 1) = q + 1
      BY <1>8, <1>9, <2>2, SMTT(30)
    <3>2. j[r + 1] = ZX!x
      <4> DEFINE l == r + 1
      <4>1. l \in 1..Len(seqs[k])
        BY <1>8, <3>1
      <4> HIDE DEF l
      <4>2. all[EndOf(seqs, k - 1) + l] = seqs[k][l]
        BY <1>1, <4>1, FlattenAt DEF all
      <4>3. EndOf(seqs, k - 1) + l = q + 1
        BY <3>1 DEF l
      <4> QED
        BY <1>3, <1>8, <4>2, <4>3 DEF l
    <3> QED
      BY <1>11, <3>1, <3>2
  <2> QED
    BY <2>1, <2>2
<1> DEFINE o == r - 1
<1>13. o \in Nat /\ 0 <= o /\ o + 2 <= Len(jx) /\ jx[o + 1] = ZX!x /\ jx[o + 2] = ZX!x
  <2>1. r \in 1..Len(j) /\ Len(j) \in Nat
    BY <1>8, <1>9
  <2>2. o \in Nat /\ 0 <= o /\ o + 2 <= Len(j) + 1 /\ o + 1 = r /\ o + 2 = r + 1
    BY <2>1
  <2>3. jx[r] = ZX!x
    BY <1>10, <1>11, <2>1
  <2> HIDE DEF o
  <2> QED
    BY <1>11, <1>12, <2>2, <2>3
<1> HIDE DEF o
<1>14. o \in ZX!Offsets(jx, xx, 0)
  <2>1. jx \in Seq(Nat) /\ 0 \in Nat
    BY <1>11
  <2> QED
    BY <1>13, <2>1, IsOffset DEF xx
<1> QED
  BY <1>7, <1>14 DEF Plain, j, jx

\* From any place the items up to the next frame are plain.
LEMMA NextFrame ==
  ASSUME NEW its \in Seq(ZX!Items), NEW n \in 0..Len(its)
  PROVE  \E m \in n..Len(its) : /\ \A k \in (n + 1)..m : Plain(its[k])
                                /\ m < Len(its) => ~Plain(its[m + 1])
<1> DEFINE T == {k \in n..Len(its) : k < Len(its) => ~Plain(its[k + 1])}
<1>1. T \in SUBSET Nat /\ Len(its) \in T
  OBVIOUS
<1>2. PICK m \in T : \A k \in T : m <= k
  <2> HIDE DEF T
  <2> QED
    BY <1>1, LeastElement
<1>3. ASSUME NEW k \in (n + 1)..m PROVE Plain(its[k])
  <2>1. k - 1 \in n..Len(its) /\ k - 1 < Len(its) /\ ~ (m <= k - 1) /\ (k - 1) + 1 = k
    OBVIOUS
  <2>2. k - 1 \notin T
    BY <1>2, <2>1
  <2> QED
    BY <2>1, <2>2
<1> QED
  BY <1>3

\* Plain items have no packets.
LEMMA PlainReturnNothing ==
  ASSUME NEW its \in Seq(ZX!Items), NEW n \in 0..Len(its), NEW m \in n..Len(its),
         \A k \in (n + 1)..m : ZX!Packet(its[k]) = <<>>
  PROVE  Returned(its, m) = Returned(its, n)
<1>1. /\ Contents(its) \in Seq(Seq(Packets)) /\ Len(Contents(its)) = Len(its)
      /\ \A k \in 1..Len(its) : Contents(its)[k] = ZX!Packet(its[k])
  BY PiecesType
<1>2. n \in 0..Len(Contents(its)) /\ m \in n..Len(Contents(its))
  BY <1>1
<1>3. \A k \in (n + 1)..m : Contents(its)[k] = <<>>
  <2> SUFFICES ASSUME NEW k \in (n + 1)..m PROVE Contents(its)[k] = <<>>
    OBVIOUS
  <2>1. k \in 1..Len(its)
    OBVIOUS
  <2> QED
    BY <1>1, <2>1
<1> QED
  BY <1>1, <1>2, <1>3, HeadsSame DEF Returned

\* The first start of a frame that the deframer finds is that of the next frame, behind
\* plain items only.
LEMMA StartIsOfFrame ==
  ASSUME NEW its \in Seq(ZX!Items), NEW n \in 0..Len(its),
         NEW b \in Seq(Nat), NEW w \in Seq(Nat), Follows(Pieces(its), b, w, n),
         ZX!find(b, xx, 0) # -1
  PROVE  /\ ZX!find(b, xx, 0) \in 0..Len(b)
         /\ \E m \in n..(Len(its) - 1) :
              /\ EndOf(Pieces(its), m) = EndOf(Pieces(its), n) + ZX!find(b, xx, 0)
              /\ \A k \in (n + 1)..m : Plain(its[k])
              /\ ~Plain(its[m + 1])
<1> DEFINE seqs == Pieces(its)
           all == FlattenSeq(seqs)
           s == ZX!find(b, xx, 0)
           e == EndOf(seqs, n)
<1>1. /\ seqs \in Seq(Seq(Nat)) /\ Len(seqs) = Len(its)
      /\ \A k \in 1..Len(its) : seqs[k] = ZX!Bytes(its[k])
  BY PiecesType
<1>2. /\ s \in ZX!Offsets(b, xx, 0) /\ s \in Nat
      /\ \A j \in ZX!Offsets(b, xx, 0) : s <= j
  <2>1. 0 \in Nat
    OBVIOUS
  <2> QED
    BY <2>1, FindFirst
<1> HIDE DEF seqs, s
<1>3. s + 2 <= Len(b) /\ b[s + 1] = ZX!x /\ b[s + 2] = ZX!x /\ Len(b) \in Nat
  BY <1>2 DEF ZX!Offsets, xx
<1>4. /\ Len(b) + Len(w) = Len(all) - e
      /\ \A i \in 1..Len(b) : b[i] = all[e + i]
  BY DEF Follows, seqs
<1>5. e \in Nat /\ Len(all) \in Nat /\ Len(w) \in Nat /\ EndOf(seqs, Len(seqs)) = Len(all)
  BY <1>1, EndsType, FlattenType
<1>6. PICK m \in n..Len(its) : /\ \A k \in (n + 1)..m : Plain(its[k])
                               /\ m < Len(its) => ~Plain(its[m + 1])
  BY NextFrame
<1> DEFINE f == EndOf(seqs, m)
           q == e + (s + 1)
<1>7. e <= f /\ f \in Nat
  BY <1>1, EndsType, HeadsGrow
<1> HIDE DEF all, e, f
<1>8. /\ q \in Nat /\ e < q /\ q + 1 = e + (s + 2) /\ q + 1 <= Len(all)
      /\ s + 1 \in 1..Len(b) /\ s + 2 \in 1..Len(b)
  <2>1. Len(b) <= Len(all) - e
    BY <1>3, <1>4, <1>5
  <2> QED
    BY <1>2, <1>3, <1>5, <2>1, SMTT(30)
<1>9. all[q] = ZX!x /\ all[q + 1] = ZX!x
  BY <1>3, <1>4, <1>8
<1>10. ~ (q <= f)
  <2> SUFFICES ASSUME q <= f PROVE FALSE
    OBVIOUS
  <2>1. /\ EndOf(Pieces(its), n) < q /\ q <= EndOf(Pieces(its), m)
        /\ q + 1 <= Len(FlattenSeq(Pieces(its)))
        /\ FlattenSeq(Pieces(its))[q] = ZX!x /\ FlattenSeq(Pieces(its))[q + 1] = ZX!x
    BY <1>8, <1>9 DEF all, e, f, seqs
  <2> HIDE DEF q
  <2> QED
    BY <1>6, <1>8, <2>1, NoStartInPlain
<1>11. m < Len(its)
  <2> SUFFICES ASSUME m = Len(its) PROVE FALSE
    OBVIOUS
  <2>1. f = Len(all)
    BY <1>1, <1>5 DEF f
  <2> QED
    BY <1>5, <1>8, <1>10, <2>1
<1>12. ~Plain(its[m + 1]) /\ its[m + 1] \in ZX!Items /\ m + 1 \in 1..Len(its)
  BY <1>6, <1>11
<1>13. PICK p : Content(p) /\ ZX!Bytes(its[m + 1]) = ZX!enframe(p)
  BY <1>12, FramedItem
<1>14. seqs[m + 1] = ZX!enframe(p)
  BY <1>1, <1>12, <1>13
<1>15. seqs[m + 1][1] = ZX!x /\ seqs[m + 1][2] = ZX!x /\ 1 \in 1..Len(seqs[m + 1]) /\ 2 \in 1..Len(seqs[m + 1])
  <2> DEFINE F == ZX!enframe(p)
  <2>1. p \in Seq(Nat) /\ Len(p) \in Nat
    BY <1>13 DEF Content
  <2>2. F[1] = ZX!x /\ F[2] = ZX!x /\ Len(F) = Len(p) + 4
    BY <2>1, Enframed
  <2>3. seqs[m + 1] = F
    BY <1>14
  <2> HIDE DEF F
  <2>4. 1 \in 1..Len(F) /\ 2 \in 1..Len(F)
    BY <2>1, <2>2
  <2> QED
    BY <2>2, <2>3, <2>4
<1> DEFINE t == f - e
<1>16. t \in Nat /\ t <= s /\ f = e + t
  BY <1>2, <1>5, <1>7, <1>8, <1>10
<1>17. t + 1 <= Len(b) /\ t + 2 <= Len(b)
  BY <1>2, <1>3, <1>16, SMTT(30)
<1> HIDE DEF t
<1>18. b[t + 1] = ZX!x /\ b[t + 2] = ZX!x
  <2>1. /\ seqs \in Seq(Seq(Nat)) /\ n \in 0..Len(seqs) /\ m \in n..(Len(seqs) - 1)
        /\ Follows(seqs, b, w, n) /\ EndOf(seqs, m) = EndOf(seqs, n) + t /\ t \in Nat
    BY <1>1, <1>11, <1>16 DEF seqs, e, f
  <2>2. \A i \in 1..Len(seqs[m + 1]) : t + i <= Len(b) => b[t + i] = seqs[m + 1][i]
    BY <2>1, FollowsAt
  <2>3. b[t + 1] = seqs[m + 1][1] /\ b[t + 2] = seqs[m + 1][2]
    BY <1>15, <1>17, <2>2
  <2> QED
    BY <1>15, <2>3
<1>19. t \in ZX!Offsets(b, xx, 0)
  <2>1. 0 \in Nat /\ 0 <= t /\ t \in Nat
    BY <1>16
  <2> QED
    BY <1>17, <1>18, <2>1, IsOffset DEF xx
<1>20. s = t
  BY <1>2, <1>16, <1>19
<1>21. m \in n..(Len(its) - 1)
  BY <1>11
<1>22. s \in 0..Len(b)
  BY <1>2, <1>3
<1>23. EndOf(Pieces(its), m) = EndOf(Pieces(its), n) + s
  BY <1>16, <1>20 DEF e, f, seqs
<1> QED
  BY <1>6, <1>12, <1>21, <1>22, <1>23 DEF s

\* The buffer, which follows n items, has the item behind the m-th at offset t: a frame
\* around p.
FrameAt(its, b, w, n, m, t, p) ==
  /\ its \in Seq(ZX!Items) /\ n \in 0..Len(its) /\ b \in Seq(Nat) /\ w \in Seq(Nat)
  /\ Follows(Pieces(its), b, w, n)
  /\ m \in n..(Len(its) - 1) /\ t \in Nat
  /\ EndOf(Pieces(its), m) = EndOf(Pieces(its), n) + t
  /\ Content(p) /\ ZX!Bytes(its[m + 1]) = ZX!enframe(p)

\* As much of the frame as is there has its bytes, and all of it is when none is to come.
LEMMA FrameInBuffer ==
  ASSUME NEW its, NEW b, NEW w, NEW n, NEW m, NEW t, NEW p, FrameAt(its, b, w, n, m, t, p)
  PROVE  /\ \A i \in 1..(Len(p) + 4) : t + i <= Len(b) => b[t + i] = ZX!enframe(p)[i]
         /\ EndOf(Pieces(its), m + 1) = EndOf(Pieces(its), n) + (t + (Len(p) + 4))
         /\ Len(w) = 0 => t + (Len(p) + 4) <= Len(b)
<1> USE DEF FrameAt
<1> DEFINE seqs == Pieces(its)
           F == ZX!enframe(p)
<1>1. /\ seqs \in Seq(Seq(Nat)) /\ Len(seqs) = Len(its)
      /\ \A k \in 1..Len(its) : seqs[k] = ZX!Bytes(its[k])
  BY PiecesType
<1>2. /\ n \in 0..Len(seqs) /\ m \in n..(Len(seqs) - 1) /\ m \in 0..Len(seqs)
      /\ m + 1 \in 1..Len(seqs) /\ (m + 1) - 1 = m /\ m + 1 \in 0..Len(seqs)
      /\ Len(seqs) \in (m + 1)..Len(seqs) /\ Len(seqs) \in 0..Len(seqs)
  BY <1>1
<1>3. seqs[m + 1] = F
  BY <1>1, <1>2
<1>4. Len(p) \in Nat /\ Len(F) = Len(p) + 4
  <2>1. p \in Seq(Nat)
    BY DEF Content
  <2> QED
    BY <2>1, Enframed
<1>5. Follows(seqs, b, w, n) /\ EndOf(seqs, m) = EndOf(seqs, n) + t
  OBVIOUS
<1> HIDE DEF seqs, F
<1>6. \A i \in 1..Len(seqs[m + 1]) : t + i <= Len(b) => b[t + i] = seqs[m + 1][i]
  BY <1>1, <1>2, <1>5, FollowsAt
<1>7. /\ EndOf(seqs, n) \in Nat /\ EndOf(seqs, m + 1) \in Nat
      /\ EndOf(seqs, m + 1) = EndOf(seqs, m) + Len(seqs[m + 1])
      /\ EndOf(seqs, Len(seqs)) = Len(FlattenSeq(seqs))
      /\ EndOf(seqs, Len(seqs)) \in Nat
  BY <1>1, <1>2, EndsType
<1>8. EndOf(seqs, m + 1) <= EndOf(seqs, Len(seqs))
  BY <1>1, <1>2, HeadsGrow
<1>9. EndOf(seqs, m + 1) = EndOf(seqs, n) + (t + (Len(p) + 4))
  <2>1. EndOf(seqs, m + 1) = (EndOf(seqs, n) + t) + (Len(p) + 4)
    BY <1>3, <1>4, <1>5, <1>7
  <2> QED
    BY <1>4, <1>7, <2>1
<1>10. Len(w) = 0 => t + (Len(p) + 4) <= Len(b)
  <2> SUFFICES ASSUME Len(w) = 0 PROVE t + (Len(p) + 4) <= Len(b)
    OBVIOUS
  <2>1. Len(b) + 0 = Len(FlattenSeq(seqs)) - EndOf(seqs, n) /\ Len(b) \in Nat
    BY <1>5 DEF Follows
  <2>2. Len(b) = EndOf(seqs, Len(seqs)) - EndOf(seqs, n)
    BY <1>7, <2>1
  <2> QED
    BY <1>4, <1>7, <1>8, <1>9, <2>1, <2>2, SMTT(30)
<1>11. \A i \in 1..(Len(p) + 4) : t + i <= Len(b) => b[t + i] = F[i]
  BY <1>3, <1>4, <1>6
<1> QED
  BY <1>9, <1>10, <1>11 DEF seqs, F

\* When Stream.recv returns, no frame is complete in its buffer.
Settled(b) ==
  \/ ZX!find(b, xx, 0) = -1
  \/ ZX!find(b, xx, 0) = 0 /\ (Len(b) < 6 \/ ZX!frameend(b) = -1)

\* When nothing more is to come either, no packet is left in what it holds.
LEMMA NoneLeftBehind ==
  ASSUME NEW its \in Seq(ZX!Items), NEW n \in 0..Len(its),
         NEW b \in Seq(Nat), NEW w \in Seq(Nat), Len(w) = 0,
         Follows(Pieces(its), b, w, n), Settled(b)
  PROVE  Returned(its, n) = Returned(its, Len(its))
<1> DEFINE seqs == Pieces(its)
           e == EndOf(seqs, n)
<1>1. /\ seqs \in Seq(Seq(Nat)) /\ Len(seqs) = Len(its)
      /\ \A k \in 1..Len(its) : seqs[k] = ZX!Bytes(its[k])
  BY PiecesType
<1>2. Len(its) \in n..Len(its) /\ Len(b) \in Nat /\ 0 \in Nat
  OBVIOUS
<1>3. CASE ZX!find(b, xx, 0) = -1
  <2>1. PICK m \in n..Len(its) : /\ \A k \in (n + 1)..m : Plain(its[k])
                                 /\ m < Len(its) => ~Plain(its[m + 1])
    BY NextFrame
  <2>2. m = Len(its)
    <3> SUFFICES ASSUME m # Len(its) PROVE FALSE
      OBVIOUS
    <3>1. m \in n..(Len(its) - 1) /\ ~Plain(its[m + 1]) /\ its[m + 1] \in ZX!Items
      BY <2>1
    <3>2. PICK p : Content(p) /\ ZX!Bytes(its[m + 1]) = ZX!enframe(p)
      BY <3>1, FramedItem
    <3> DEFINE t == EndOf(seqs, m) - e
    <3>3. t \in Nat /\ EndOf(seqs, m) = e + t
      <4>1. n \in 0..Len(seqs) /\ m \in 0..Len(seqs) /\ m \in n..Len(seqs)
        BY <1>1, <3>1
      <4>2. e \in Nat /\ EndOf(seqs, m) \in Nat /\ e <= EndOf(seqs, m)
        BY <1>1, <4>1, EndsType, HeadsGrow
      <4> HIDE DEF seqs, e
      <4> QED
        BY <4>2
    <3> HIDE DEF t
    <3>4. /\ \A i \in 1..(Len(p) + 4) : t + i <= Len(b) => b[t + i] = ZX!enframe(p)[i]
          /\ t + (Len(p) + 4) <= Len(b)
      <4>1. FrameAt(its, b, w, n, m, t, p)
        BY <3>1, <3>2, <3>3 DEF FrameAt
      <4> QED
        BY <4>1, FrameInBuffer
    <3>5. Len(p) \in Nat /\ ZX!enframe(p)[1] = ZX!x /\ ZX!enframe(p)[2] = ZX!x
      <4>1. p \in Seq(Nat)
        BY <3>2 DEF Content
      <4> QED
        BY <4>1, Enframed
    <3>6. t + 1 <= Len(b) /\ t + 2 <= Len(b) /\ 1 \in 1..(Len(p) + 4) /\ 2 \in 1..(Len(p) + 4)
      BY <1>2, <3>3, <3>4, <3>5
    <3>7. b[t + 1] = ZX!x /\ b[t + 2] = ZX!x
      BY <3>4, <3>5, <3>6
    <3>8. t \in ZX!Offsets(b, xx, 0)
      <4>1. 0 \in Nat /\ 0 <= t /\ t \in Nat
        BY <3>3
      <4> QED
        BY <3>6, <3>7, <4>1, IsOffset DEF xx
    <3>9. ZX!find(b, xx, 0) \in Nat
      BY <1>2, <3>8, FindFirst
    <3> QED
      BY <1>3, <3>9
  <2>3. \A k \in (n + 1)..m : ZX!Packet(its[k]) = <<>>
    <3> SUFFICES ASSUME NEW k \in (n + 1)..m PROVE ZX!Packet(its[k]) = <<>>
      OBVIOUS
    <3>1. its[k] \in ZX!Items /\ Plain(its[k])
      BY <2>1
    <3> QED
      BY <3>1, PlainItem
  <2> QED
    BY <2>2, <2>3, PlainReturnNothing
<1>4. CASE ZX!find(b, xx, 0) = 0 /\ (Len(b) < 6 \/ ZX!frameend(b) = -1)
  <2>1. PICK m \in n..(Len(its) - 1) :
          /\ EndOf(seqs, m) = e + 0
          /\ \A k \in (n + 1)..m : Plain(its[k])
          /\ ~Plain(its[m + 1])
    <3>1. ZX!find(b, xx, 0) # -1
      BY <1>4
    <3>2. \E m \in n..(Len(its) - 1) :
            /\ EndOf(seqs, m) = e + ZX!find(b, xx, 0)
            /\ \A k \in (n + 1)..m : Plain(its[k])
            /\ ~Plain(its[m + 1])
      BY <1>2, <3>1, StartIsOfFrame, ZenonT(30)
    <3> QED
      BY <1>4, <3>2
  <2>2. its[m + 1] \in ZX!Items /\ m + 1 \in 1..Len(its)
    OBVIOUS
  <2>3. PICK p : /\ Content(p) /\ ZX!Bytes(its[m + 1]) = ZX!enframe(p)
                 /\ ZX!Packet(its[m + 1]) = IF Len(p) >= 2 THEN <<p>> ELSE <<>>
    BY <2>1, <2>2, FramedItem
  <2>4. /\ \A i \in 1..(Len(p) + 4) : 0 + i <= Len(b) => b[0 + i] = ZX!enframe(p)[i]
        /\ EndOf(seqs, m + 1) = e + (0 + (Len(p) + 4))
        /\ 0 + (Len(p) + 4) <= Len(b)
    <3> DEFINE t == 0
    <3>1. t \in Nat /\ EndOf(seqs, m) = e + t
      BY <2>1
    <3> HIDE DEF t
    <3>2. /\ \A i \in 1..(Len(p) + 4) : t + i <= Len(b) => b[t + i] = ZX!enframe(p)[i]
          /\ EndOf(seqs, m + 1) = e + (t + (Len(p) + 4))
          /\ t + (Len(p) + 4) <= Len(b)
      <4>1. FrameAt(its, b, w, n, m, t, p)
        BY <2>3, <3>1 DEF FrameAt
      <4>2. /\ \A i \in 1..(Len(p) + 4) : t + i <= Len(b) => b[t + i] = ZX!enframe(p)[i]
            /\ EndOf(Pieces(its), m + 1) = EndOf(Pieces(its), n) + (t + (Len(p) + 4))
            /\ Len(w) = 0 => t + (Len(p) + 4) <= Len(b)
        <5> HIDE DEF e, seqs
        <5> QED
          BY ONLY <4>1, FrameInBuffer
      <4> QED
        BY <4>2
    <3> QED
      BY <3>2 DEF t
  <2>5. Len(p) \in Nat /\ Len(p) >= 1
    BY <2>3 DEF Content
  <2>6. Len(b) < 6
    <3> SUFFICES ASSUME Len(b) >= 6 PROVE FALSE
      BY <1>2
    <3>1. \A i \in 1..Len(b) : i <= Len(p) + 4 => b[i] = ZX!enframe(p)[i]
      <4> SUFFICES ASSUME NEW i \in 1..Len(b), i <= Len(p) + 4 PROVE b[i] = ZX!enframe(p)[i]
        OBVIOUS
      <4>1. i \in 1..(Len(p) + 4) /\ 0 + i <= Len(b) /\ 0 + i = i
        BY <2>5
      <4> QED
        BY <2>4, <4>1
    <3>2. Len(p) + 4 <= Len(b)
      BY <1>2, <2>4, <2>5
    <3>3. ZX!frameend(b) = Len(p) + 2
      BY <2>3, <3>1, <3>2, FrameEnd
    <3>4. Len(p) + 2 # -1
      BY <2>5
    <3> QED
      BY <1>2, <1>4, <3>3, <3>4
  <2>7. Len(p) = 1 /\ Len(b) = 5
    <3>1. 0 + (Len(p) + 4) <= Len(b)
      BY <2>4
    <3>2. \A i, j \in Nat : i >= 1 /\ 0 + (i + 4) <= j /\ j < 6 => i = 1 /\ j = 5
      OBVIOUS
    <3> QED
      BY <1>2, <2>5, <2>6, <3>1, <3>2
  <2>8. /\ EndOf(seqs, m + 1) = e + 5 /\ e \in Nat
        /\ EndOf(seqs, Len(seqs)) = e + 5
    <3>1. n \in 0..Len(seqs)
      BY <1>1
    <3>2. e \in Nat /\ EndOf(seqs, Len(seqs)) = Len(FlattenSeq(seqs))
      BY <1>1, <3>1, EndsType
    <3>3. Len(b) + 0 = Len(FlattenSeq(seqs)) - e
      BY DEF Follows
    <3>4. Len(FlattenSeq(seqs)) \in Nat
      BY <1>1, FlattenType
    <3>5. EndOf(seqs, m + 1) = e + (0 + (1 + 4))
      BY <2>4, <2>7
    <3> HIDE DEF e, seqs
    <3> QED
      BY <2>7, <3>2, <3>3, <3>4, <3>5
  <2>9. ASSUME NEW k \in (n + 1)..Len(its) PROVE ZX!Packet(its[k]) = <<>>
    <3>1. its[k] \in ZX!Items /\ k \in 1..Len(its)
      OBVIOUS
    <3>2. CASE k <= m
      BY <2>1, <3>1, <3>2, PlainItem
    <3>3. CASE k = m + 1
      <4>1. ~ (Len(p) >= 2)
        BY <2>7
      <4> QED
        BY <2>3, <3>3, <4>1
    <3>4. CASE k > m + 1
      <4>1. /\ k - 1 \in (m + 1)..Len(seqs) /\ k - 1 \in 0..Len(seqs) /\ m + 1 \in 0..Len(seqs)
            /\ k \in 1..Len(seqs) /\ Len(seqs) \in k..Len(seqs) /\ k \in 0..Len(seqs)
        BY <1>1, <2>2, <3>1, <3>4
      <4>2. /\ EndOf(seqs, m + 1) <= EndOf(seqs, k - 1)
            /\ EndOf(seqs, k) <= EndOf(seqs, Len(seqs))
        BY <1>1, <4>1, HeadsGrow
      <4>3. /\ EndOf(seqs, k - 1) \in Nat /\ EndOf(seqs, k) \in Nat
            /\ EndOf(seqs, k) = EndOf(seqs, k - 1) + Len(seqs[k])
        BY <1>1, <4>1, EndsType
      <4>4. seqs[k] \in Seq(Nat) /\ Len(seqs[k]) \in Nat
        BY <1>1, <4>1
      <4>5. Len(seqs[k]) = 0
        <5> HIDE DEF e, seqs
        <5> QED
          BY <2>8, <4>2, <4>3, <4>4
      <4>6. Plain(its[k])
        <5> SUFFICES ASSUME ~Plain(its[k]) PROVE FALSE
          OBVIOUS
        <5>1. PICK c : Content(c) /\ ZX!Bytes(its[k]) = ZX!enframe(c)
          BY <3>1, FramedItem
        <5>2. c \in Seq(Nat) /\ Len(c) \in Nat
          BY <5>1 DEF Content
        <5>3. Len(ZX!enframe(c)) = Len(c) + 4
          BY <5>2, Enframed
        <5>4. seqs[k] = ZX!enframe(c)
          BY <1>1, <3>1, <5>1
        <5> HIDE DEF seqs
        <5>5. Len(seqs[k]) = Len(c) + 4
          BY <5>3, <5>4
        <5> QED
          BY <4>5, <5>2, <5>5
      <4> QED
        BY <3>1, <4>6, PlainItem
    <3> QED
      BY <3>2, <3>3, <3>4
  <2> QED
    BY <1>2, <2>9, PlainReturnNothing
<1> QED
  BY <1>3, <1>4 DEF Settled

\* Of the items n are done: their packets have been returned, and what follows them is in
\* the buffer or to come.
Taken(n) ==
  /\ msgs = Returned(items, n)
  /\ IF pc = "closed" THEN n = Len(items) ELSE Follows(Pieces(items), buffer, wire, n)

ZxInv ==
  /\ items \in Seq(ZX!Items) /\ wire \in Seq(Nat) /\ buffer \in Seq(Nat)
  /\ pc \in {"idle", "deframe", "closed"}
  /\ pc = "closed" => wire = <<>>
  /\ pc = "idle" => Settled(buffer)
  /\ lost = {} => \E n \in 0..Len(items) : Taken(n)

\* A buffer that is empty.
LEMMA EmptySettled == Settled(<<>>)
<1>1. <<>> \in Seq(Nat) /\ 0 \in Nat
  OBVIOUS
<1>2. ZX!Offsets(<<>>, xx, 0) = {}
  BY DEF ZX!Offsets
<1>3. ZX!find(<<>>, xx, 0) = -1
  <2> DEFINE s == <<>>
  <2>1. s \in Seq(Nat) /\ ZX!Offsets(s, xx, 0) = {}
    BY <1>1, <1>2
  <2> HIDE DEF s
  <2>2. ZX!find(s, xx, 0) = -1
    BY <1>1, <2>1, FindFirst
  <2> QED
    BY <2>2 DEF s
<1> QED
  BY <1>3 DEF Settled

\* What the instances of SequencesExt define is the same.
LEMMA SameFlatten ==
  ASSUME NEW seqs
  PROVE  ZX!FlattenSeq(seqs) = FlattenSeq(seqs) /\ BS!FlattenSeq(seqs) = FlattenSeq(seqs)
<1>1. ZX!FlattenSeq(seqs) = FlattenSeq(seqs)
  BY DEF ZX!FlattenSeq, FlattenSeq
<1>2. BS!FlattenSeq(seqs) = FlattenSeq(seqs)
  BY DEF BS!FlattenSeq, FlattenSeq
<1> QED
  BY <1>1, <1>2

LEMMA ZxInit ==
  ASSUME ZX!Init
  PROVE  ZxInv
<1>1. items \in Seq(ZX!Items)
  <2>1. PICK n \in 1..ZxItems : items \in [1..n -> ZX!Items]
    BY DEF ZX!Init
  <2> QED
    BY <2>1, StreamsAssumption
<1>2. Pieces(items) \in Seq(Seq(Nat)) /\ Contents(items) \in Seq(Seq(Packets))
  BY <1>1, PiecesType
<1>3. wire = FlattenSeq(Pieces(items))
  BY SameFlatten DEF ZX!Init, Pieces
<1>4. wire \in Seq(Nat)
  BY <1>2, <1>3, FlattenType
<1>5. Returned(items, 0) = <<>>
  BY <1>2, HeadsType DEF Returned
<1>6. Follows(Pieces(items), <<>>, FlattenSeq(Pieces(items)), 0)
  BY <1>2, FollowsInit
<1>7. buffer = <<>> /\ pc = "idle" /\ msgs = <<>>
  BY DEF ZX!Init
<1>8. Taken(0)
  <2>1. pc # "closed"
    BY <1>7
  <2> QED
    BY <1>3, <1>5, <1>6, <1>7, <2>1 DEF Taken
<1>9. 0 \in 0..Len(items)
  BY <1>1
<1>10. buffer \in Seq(Nat)
  BY <1>7
<1> QED
  BY <1>1, <1>4, <1>7, <1>8, <1>9, <1>10, EmptySettled DEF ZxInv

LEMMA ZxProbe ==
  ASSUME ZxInv, NEW n \in 0..Len(wire), ZX!Probe(n)
  PROVE  ZxInv'
<1>1. wire \in Seq(Nat)
  BY DEF ZxInv
<1>2. wire' \in Seq(Nat)
  BY <1>1, CutAt DEF ZX!Probe, ZX!Past
<1>3. lost' # {}
  BY DEF ZX!Probe
<1>4. /\ items' = items /\ buffer' = buffer /\ pc' = pc /\ pc = "idle"
  BY DEF ZX!Probe
<1> QED
  BY <1>2, <1>3, <1>4 DEF ZxInv

LEMMA ZxRecv ==
  ASSUME ZxInv, NEW k \in 0..Len(wire), ZX!Recv(k)
  PROVE  ZxInv'
<1>1. wire \in Seq(Nat) /\ items \in Seq(ZX!Items) /\ buffer \in Seq(Nat)
  BY DEF ZxInv
<1>2. wire' = SubSeq(wire, k + 1, Len(wire)) /\ wire' \in Seq(Nat)
  BY <1>1, CutAt DEF ZX!Recv, ZX!Past
<1>3. items' = items /\ msgs' = msgs /\ pc = "idle"
  BY DEF ZX!Recv
<1>4. CASE Len(buffer) + k > ZxBuffer
  <2>1. buffer' = <<>> /\ lost' # {} /\ pc' = "idle"
    BY <1>3, <1>4 DEF ZX!Recv
  <2>2. Settled(buffer')
    BY <2>1, EmptySettled
  <2>3. buffer' \in Seq(Nat)
    BY <2>1
  <2> QED
    BY <1>1, <1>2, <1>3, <2>1, <2>2, <2>3 DEF ZxInv
<1>5. CASE ~ (Len(buffer) + k > ZxBuffer)
  <2>1. buffer' = buffer \o SubSeq(wire, 1, k) /\ lost' = lost /\ pc' = "deframe"
    BY <1>5 DEF ZX!Recv, ZX!Segment
  <2>2. buffer' \in Seq(Nat)
    BY <1>1, <2>1, CutAt, ConcatAt
  <2>3. ASSUME lost' = {} PROVE \E n \in 0..Len(items') : Taken(n)'
    <3>1. PICK n \in 0..Len(items) : Taken(n)
      BY <2>1, <2>3 DEF ZxInv
    <3>2. msgs = Returned(items, n) /\ Follows(Pieces(items), buffer, wire, n)
      BY <1>3, <3>1 DEF Taken
    <3>3. Pieces(items) \in Seq(Seq(Nat)) /\ n \in 0..Len(Pieces(items))
      BY <1>1, PiecesType
    <3>4. Follows(Pieces(items), buffer \o SubSeq(wire, 1, k), SubSeq(wire, k + 1, Len(wire)), n)
      BY <1>1, <3>2, <3>3, FollowsSegment
    <3>5. Follows(Pieces(items), buffer', wire', n)
      BY <1>2, <2>1, <3>4
    <3>6. Taken(n)'
      BY <1>3, <2>1, <3>2, <3>5 DEF Taken
    <3> QED
      BY <1>3, <3>6
  <2> QED
    BY <1>1, <1>2, <1>3, <2>1, <2>2, <2>3 DEF ZxInv
<1> QED
  BY <1>4, <1>5

LEMMA ZxClose ==
  ASSUME ZxInv, ZX!Close
  PROVE  ZxInv'
<1>1. wire \in Seq(Nat) /\ items \in Seq(ZX!Items) /\ buffer \in Seq(Nat)
  BY DEF ZxInv
<1>2. /\ items' = items /\ msgs' = msgs /\ pc = "idle" /\ wire' = wire /\ wire = <<>>
      /\ pc' = "closed" /\ buffer' = <<>> /\ lost' = lost
  BY DEF ZX!Close
<1>3. ASSUME lost' = {} PROVE \E n \in 0..Len(items') : Taken(n)'
  <2>1. PICK n \in 0..Len(items) : Taken(n)
    BY <1>2, <1>3 DEF ZxInv
  <2>2. msgs = Returned(items, n) /\ Follows(Pieces(items), buffer, wire, n)
    BY <1>2, <2>1 DEF Taken
  <2>3. Settled(buffer) /\ Len(wire) = 0
    BY <1>2 DEF ZxInv
  <2>4. Returned(items, n) = Returned(items, Len(items))
    BY <1>1, <2>2, <2>3, NoneLeftBehind
  <2>5. Taken(Len(items))'
    BY <1>2, <2>2, <2>4 DEF Taken
  <2>6. Len(items) \in 0..Len(items)
    BY <1>1
  <2> QED
    BY <1>2, <2>5, <2>6
<1>4. buffer' \in Seq(Nat)
  BY <1>2
<1> QED
  BY <1>1, <1>2, <1>3, <1>4 DEF ZxInv

\* One turn of the loop of Stream.recv: what is before the first frame is dropped, and the
\* frame too, if it is complete.
LEMMA ZxDeframeType ==
  ASSUME ZxInv, ZX!Deframe
  PROVE  buffer' \in Seq(Nat) /\ (pc' = "idle" => Settled(buffer'))
<1> DEFINE s == ZX!find(buffer, xx, 0)
           b == IF s = -1 THEN buffer ELSE ZX!Past(buffer, s)
           end == IF s = -1 \/ Len(b) < 6 THEN -1 ELSE ZX!frameend(b)
<1>1. /\ pc = "deframe"
      /\ IF end = -1
           THEN buffer' = b /\ pc' = "idle"
           ELSE buffer' = ZX!Rest(b, end) /\ pc' = pc
  BY DEF ZX!Deframe, ZX!None, xx
<1>2. buffer \in Seq(Nat) /\ 0 \in Nat
  BY DEF ZxInv
<1>3. s = -1 \/ (s \in ZX!Offsets(buffer, xx, 0) /\ s \in Nat)
  BY <1>2, FindFirst
<1> HIDE DEF s
<1>4. s # -1 => /\ s \in 0..Len(buffer) /\ s + 2 <= Len(buffer)
                /\ buffer[s + 1] = ZX!x /\ buffer[s + 2] = ZX!x
  <2> SUFFICES ASSUME s # -1
               PROVE  /\ s \in 0..Len(buffer) /\ s + 2 <= Len(buffer)
                      /\ buffer[s + 1] = ZX!x /\ buffer[s + 2] = ZX!x
    OBVIOUS
  <2>1. /\ s \in Nat /\ s + 2 <= Len(buffer) /\ buffer[s + 1] = ZX!x /\ buffer[s + 2] = ZX!x
    BY <1>2, <1>3, OffsetsOf DEF xx
  <2> QED
    BY <1>2, <2>1
<1>5. b \in Seq(Nat) /\ (s # -1 => ZX!find(b, xx, 0) = 0)
  <2>1. CASE s = -1
    BY <1>2, <2>1
  <2>2. CASE s # -1
    <3>1. b = SubSeq(buffer, s + 1, Len(buffer))
      BY <2>2 DEF ZX!Past
    <3>2. /\ b \in Seq(Nat) /\ Len(b) = Len(buffer) - s
          /\ \A i \in 1..(Len(buffer) - s) : b[i] = buffer[s + i]
      <4> HIDE DEF b
      <4> QED
        BY <1>2, <1>4, <2>2, <3>1, CutAt
    <3> HIDE DEF b
    <3>3. 0 + 2 <= Len(b) /\ 1 \in 1..(Len(buffer) - s) /\ 2 \in 1..(Len(buffer) - s)
      BY <1>2, <1>4, <2>2, <3>2
    <3>4. b[0 + 1] = ZX!x /\ b[0 + 2] = ZX!x
      BY <1>4, <2>2, <3>2, <3>3
    <3>5. 0 \in ZX!Offsets(b, xx, 0)
      <4> DEFINE o == 0
      <4>1. o \in Nat /\ o <= o /\ o + 2 <= Len(b) /\ b[o + 1] = ZX!x /\ b[o + 2] = ZX!x
        BY <3>3, <3>4
      <4> HIDE DEF o
      <4>2. o \in ZX!Offsets(b, xx, o)
        BY <3>2, <4>1, IsOffset DEF xx
      <4> QED
        BY <4>2 DEF o
    <3>6. ZX!find(b, xx, 0) \in Nat /\ ZX!find(b, xx, 0) <= 0
      BY <1>2, <3>2, <3>5, FindFirst
    <3> QED
      BY <3>2, <3>6
  <2> QED
    BY <2>1, <2>2
<1>6. s = -1 => b = buffer
  OBVIOUS
<1> HIDE DEF b
<1>7. CASE end = -1
  <2>1. buffer' = b
    BY <1>1, <1>7
  <2>2. Settled(b)
    <3>1. CASE s = -1
      BY <1>6, <3>1 DEF Settled, s
    <3>2. CASE s # -1
      BY <1>5, <1>7, <3>2 DEF Settled
    <3> QED
      BY <3>1, <3>2
  <2> QED
    BY <1>5, <2>1, <2>2
<1>8. CASE end # -1
  <2>1. buffer' = SubSeq(b, (end + 2) + 1, Len(b)) /\ pc' = "deframe"
    BY <1>1, <1>8 DEF ZX!Rest, ZX!Past
  <2> DEFINE from == IF b[3] > 1 THEN b[3] ELSE 1
  <2>2. end = ZX!find(b, crlf, from) /\ Len(b) >= 6
    <3>1. end = ZX!frameend(b) /\ ~ (Len(b) < 6)
      BY <1>8
    <3> QED
      BY <1>5, <3>1 DEF ZX!frameend, crlf
  <2>3. from \in Nat
    <3>1. 3 \in 1..Len(b)
      BY <1>5, <2>2
    <3>2. b[3] \in Nat
      BY <1>5, <3>1
    <3> QED
      BY <3>2
  <2> HIDE DEF end, from
  <2>4. end \in ZX!Offsets(b, crlf, from) /\ end \in Nat
    BY <1>5, <1>8, <2>2, <2>3, FindFirst
  <2>5. end + 2 <= Len(b)
    BY <2>3, <2>4, <1>5, OffsetsOf DEF crlf
  <2>6. end + 2 \in 0..Len(b)
    BY <1>5, <2>4, <2>5
  <2>7. SubSeq(b, (end + 2) + 1, Len(b)) \in Seq(Nat)
    <3> DEFINE k == end + 2
    <3>1. k \in 0..Len(b)
      BY <2>6
    <3> HIDE DEF k
    <3>2. SubSeq(b, k + 1, Len(b)) \in Seq(Nat)
      BY <1>5, <3>1, CutAt
    <3> QED
      BY <3>2 DEF k
  <2> QED
    BY <2>1, <2>7
<1> QED
  BY <1>7, <1>8

LEMMA ZxDeframeTaken ==
  ASSUME ZxInv, ZX!Deframe, lost = {}
  PROVE  \E n \in 0..Len(items) : Taken(n)'
<1> DEFINE s == ZX!find(buffer, xx, 0)
           b == IF s = -1 THEN buffer ELSE ZX!Past(buffer, s)
           end == IF s = -1 \/ Len(b) < 6 THEN -1 ELSE ZX!frameend(b)
           seqs == Pieces(items)
<1>1. /\ pc = "deframe" /\ items' = items /\ wire' = wire
      /\ IF end = -1
           THEN buffer' = b /\ pc' = "idle" /\ msgs' = msgs
           ELSE /\ buffer' = ZX!Rest(b, end) /\ pc' = pc
                /\ msgs' = IF end < 4 THEN msgs ELSE Append(msgs, SubSeq(b, 3, end))
  BY DEF ZX!Deframe, ZX!None, xx
<1>2. buffer \in Seq(Nat) /\ wire \in Seq(Nat) /\ items \in Seq(ZX!Items)
  BY DEF ZxInv
<1>3. PICK n \in 0..Len(items) : Taken(n)
  BY DEF ZxInv
<1>4. msgs = Returned(items, n) /\ Follows(seqs, buffer, wire, n)
  BY <1>1, <1>3 DEF Taken
<1>5. /\ seqs \in Seq(Seq(Nat)) /\ Len(seqs) = Len(items)
      /\ Contents(items) \in Seq(Seq(Packets)) /\ Len(Contents(items)) = Len(items)
      /\ \A k \in 1..Len(items) : Contents(items)[k] = ZX!Packet(items[k])
  BY <1>2, PiecesType
\* The items that a turn leaves done.
<1>6. ASSUME NEW k \in 0..Len(items), msgs' = Returned(items, k), pc' # "closed",
             Follows(seqs, buffer', wire, k)
      PROVE  Taken(k)'
  BY <1>1, <1>6 DEF Taken
<1>7. CASE s = -1
  <2>1. buffer' = buffer /\ pc' = "idle" /\ msgs' = msgs
    BY <1>1, <1>7
  <2>2. Taken(n)'
    BY <1>1, <1>4, <2>1 DEF Taken
  <2> QED
    BY <2>2
<1>8. CASE s # -1
  <2>1. s \in 0..Len(buffer) /\ \E m \in n..(Len(items) - 1) :
              /\ EndOf(seqs, m) = EndOf(seqs, n) + s
              /\ \A k \in (n + 1)..m : Plain(items[k])
              /\ ~Plain(items[m + 1])
    BY <1>2, <1>4, <1>8, StartIsOfFrame
  <2>2. PICK m \in n..(Len(items) - 1) :
              /\ EndOf(seqs, m) = EndOf(seqs, n) + s
              /\ \A k \in (n + 1)..m : Plain(items[k])
              /\ ~Plain(items[m + 1])
    BY <2>1
  <2>3. /\ m \in 0..Len(items) /\ m + 1 \in 1..Len(items) /\ m + 1 \in 0..Len(items)
        /\ (m + 1) - 1 = m /\ m \in n..Len(items) /\ items[m + 1] \in ZX!Items
        /\ m + 1 \in m..Len(items)
    BY <1>2
  <2>4. PICK p : /\ Content(p) /\ ZX!Bytes(items[m + 1]) = ZX!enframe(p)
                 /\ ZX!Packet(items[m + 1]) = IF Len(p) >= 2 THEN <<p>> ELSE <<>>
    BY <2>2, <2>3, FramedItem
  <2>5. p \in Seq(Nat) /\ Len(p) \in Nat /\ Len(p) >= 1
    BY <2>4 DEF Content
  <2>6. b \in Seq(Nat) /\ Follows(seqs, b, wire, m)
    <3>1. b = SubSeq(buffer, s + 1, Len(buffer))
      BY <1>8 DEF ZX!Past
    <3> HIDE DEF b, s, seqs
    <3>2. n \in 0..Len(seqs) /\ m \in n..Len(seqs) /\ EndOf(seqs, m) = EndOf(seqs, n) + s
      BY <1>5, <2>2, <2>3
    <3>3. /\ SubSeq(buffer, s + 1, Len(buffer)) \in Seq(Nat)
          /\ Follows(seqs, SubSeq(buffer, s + 1, Len(buffer)), wire, m)
      BY <1>2, <1>4, <1>5, <2>1, <3>2, FollowsCut
    <3> QED
      BY <3>1, <3>3
  <2>7. Returned(items, m) = msgs
    <3>1. \A k \in (n + 1)..m : ZX!Packet(items[k]) = <<>>
      <4> SUFFICES ASSUME NEW k \in (n + 1)..m PROVE ZX!Packet(items[k]) = <<>>
        OBVIOUS
      <4>1. items[k] \in ZX!Items /\ Plain(items[k])
        BY <1>2, <2>2, <2>3
      <4> QED
        BY <4>1, PlainItem
    <3> QED
      BY <1>2, <1>4, <2>3, <3>1, PlainReturnNothing
  <2>8. FrameAt(items, b, wire, m, m, 0, p)
    <3>1. EndOf(seqs, m) \in Nat
      BY <1>5, <2>3, EndsType
    <3>2. EndOf(seqs, m) = EndOf(seqs, m) + 0 /\ m \in m..(Len(items) - 1) /\ 0 \in Nat
      BY <2>3, <3>1
    <3> HIDE DEF b
    <3> QED
      BY <1>2, <2>3, <2>4, <2>6, <3>2 DEF FrameAt
  <2>9. /\ \A i \in 1..Len(b) : i <= Len(p) + 4 => b[i] = ZX!enframe(p)[i]
        /\ EndOf(seqs, m + 1) = EndOf(seqs, m) + (Len(p) + 4)
    <3> HIDE DEF b
    <3>1. /\ \A i \in 1..(Len(p) + 4) : 0 + i <= Len(b) => b[0 + i] = ZX!enframe(p)[i]
          /\ EndOf(seqs, m + 1) = EndOf(seqs, m) + (0 + (Len(p) + 4))
      BY <2>8, FrameInBuffer
    <3>2. ASSUME NEW i \in 1..Len(b), i <= Len(p) + 4 PROVE b[i] = ZX!enframe(p)[i]
      <4>1. i \in 1..(Len(p) + 4) /\ 0 + i <= Len(b) /\ 0 + i = i
        BY <2>5, <2>6, <3>2
      <4> QED
        BY <3>1, <4>1
    <3>3. 0 + (Len(p) + 4) = Len(p) + 4
      BY <2>5
    <3> QED
      BY <3>1, <3>2, <3>3
  <2> HIDE DEF b, seqs
  <2>10. CASE end = -1
    <3>1. buffer' = b /\ pc' = "idle" /\ msgs' = msgs
      BY <1>1, <2>10
    <3>2. Taken(m)'
      <4> HIDE DEF end
      <4> QED
        BY <1>6, <2>3, <2>6, <2>7, <3>1
    <3> QED
      BY <2>3, <3>2
  <2>11. CASE end # -1
    <3>1. end = ZX!frameend(b) /\ Len(b) >= 6 /\ Len(b) \in Nat
      BY <2>6, <2>11
    <3>2. Len(p) + 4 <= Len(b) /\ end = Len(p) + 2 /\ SubSeq(b, 3, end) = p
      <4> HIDE DEF end
      <4>1. /\ Len(p) + 4 <= Len(b) => /\ ZX!frameend(b) = Len(p) + 2
                                       /\ SubSeq(b, 3, Len(p) + 2) = p
            /\ ~ (Len(p) + 4 <= Len(b)) => ZX!frameend(b) = -1
        BY <2>4, <2>6, <2>9, <3>1, FrameEnd
      <4> QED
        BY <2>11, <3>1, <4>1
    <3>3. /\ buffer' = SubSeq(b, (end + 2) + 1, Len(b)) /\ pc' = "deframe"
          /\ msgs' = IF end < 4 THEN msgs ELSE Append(msgs, SubSeq(b, 3, end))
      BY <1>1, <2>11 DEF ZX!Rest, ZX!Past
    <3> HIDE DEF end
    <3> DEFINE k == Len(p) + 4
    <3>4. k \in 0..Len(b) /\ end + 2 = k
      BY <2>5, <3>1, <3>2
    <3>5. EndOf(seqs, m + 1) = EndOf(seqs, m) + k
      BY <2>9
    <3> HIDE DEF k
    <3>6. Follows(seqs, SubSeq(b, k + 1, Len(b)), wire, m + 1)
      <4> DEFINE l == m + 1
      <4>1. m \in 0..Len(seqs) /\ l \in m..Len(seqs) /\ EndOf(seqs, l) = EndOf(seqs, m) + k
        BY <1>5, <2>3, <3>5
      <4> HIDE DEF l
      <4>2. Follows(seqs, SubSeq(b, k + 1, Len(b)), wire, l)
        BY <1>2, <1>5, <2>6, <3>4, <4>1, FollowsCut
      <4> QED
        BY <4>2 DEF l
    <3>7. Follows(seqs, buffer', wire, m + 1)
      BY <3>3, <3>4, <3>6
    <3>8. /\ Returned(items, m + 1) = msgs \o ZX!Packet(items[m + 1])
          /\ msgs \in Seq(Packets)
      <4>1. /\ Heads(Contents(items))[m + 1] = Heads(Contents(items))[m] \o Contents(items)[m + 1]
            /\ Heads(Contents(items))[m] \in Seq(Packets)
        BY <1>5, <2>3, HeadsType
      <4>2. Contents(items)[m + 1] = ZX!Packet(items[m + 1])
        BY <1>5, <2>3
      <4> QED
        BY <2>7, <4>1, <4>2 DEF Returned
    <3>9. msgs' = msgs \o ZX!Packet(items[m + 1])
      <4>1. CASE Len(p) >= 2
        <5>1. msgs' = Append(msgs, p)
          BY <2>5, <3>2, <3>3, <4>1
        <5>2. ZX!Packet(items[m + 1]) = <<p>>
          BY <2>4, <4>1
        <5>3. Append(msgs, p) = msgs \o <<p>>
          BY <3>8
        <5> QED
          BY <5>1, <5>2, <5>3
      <4>2. CASE ~ (Len(p) >= 2)
        <5>1. msgs' = msgs
          BY <2>5, <3>2, <3>3, <4>2
        <5>2. ZX!Packet(items[m + 1]) = <<>>
          BY <2>4, <4>2
        <5>3. msgs \o <<>> = msgs
          BY <3>8
        <5> QED
          BY <5>1, <5>2, <5>3
      <4> QED
        BY <4>1, <4>2
    <3>10. Taken(m + 1)'
      BY <1>6, <2>3, <3>3, <3>7, <3>8, <3>9
    <3> QED
      BY <2>3, <3>10
  <2> QED
    BY <2>10, <2>11
<1> QED
  BY <1>7, <1>8

\* The invariant implies the property.
LEMMA ZxSurvive ==
  ASSUME ZxInv
  PROVE  ZX!FramesSurviveSplits
<1> SUFFICES ASSUME lost = {}
             PROVE  /\ ZX!IsPrefix(msgs, ZX!PacketsSent)
                    /\ wire = <<>> /\ pc # "deframe" => msgs = ZX!PacketsSent
  BY DEF ZX!FramesSurviveSplits
<1>1. items \in Seq(ZX!Items) /\ wire \in Seq(Nat) /\ buffer \in Seq(Nat)
  BY DEF ZxInv
<1>2. Contents(items) \in Seq(Seq(Packets)) /\ Len(Contents(items)) = Len(items)
  BY <1>1, PiecesType
<1>3. ZX!PacketsSent = FlattenSeq(Contents(items))
  BY SameFlatten DEF ZX!PacketsSent, Contents
<1>4. FlattenSeq(Contents(items)) = Returned(items, Len(items))
  BY <1>2, HeadsType DEF Returned
<1>5. PICK n \in 0..Len(items) : Taken(n)
  BY DEF ZxInv
<1>6. msgs = Returned(items, n)
  BY <1>5 DEF Taken
<1>7. ZX!IsPrefix(msgs, ZX!PacketsSent)
  <2>1. n \in 0..Len(Contents(items))
    BY <1>2
  <2>2. /\ Len(Returned(items, n)) <= Len(FlattenSeq(Contents(items)))
        /\ Returned(items, n)
             = SubSeq(FlattenSeq(Contents(items)), 1, Len(Returned(items, n)))
    BY <1>2, <2>1, HeadIsPrefix DEF Returned
  <2> QED
    BY <1>3, <1>6, <2>2 DEF ZX!IsPrefix
<1>8. ASSUME wire = <<>>, pc # "deframe" PROVE msgs = ZX!PacketsSent
  <2>1. CASE pc = "closed"
    BY <1>3, <1>4, <1>5, <2>1 DEF Taken
  <2>2. CASE pc = "idle"
    <3>1. Follows(Pieces(items), buffer, wire, n) /\ Settled(buffer) /\ Len(wire) = 0
      BY <1>5, <1>8, <2>2 DEF Taken, ZxInv
    <3>2. Returned(items, n) = Returned(items, Len(items))
      BY <1>1, <3>1, NoneLeftBehind
    <3> QED
      BY <1>3, <1>4, <1>6, <3>2
  <2> QED
    BY <1>8, <2>1, <2>2 DEF ZxInv
<1> QED
  BY <1>7, <1>8

LEMMA ZxStep ==
  ASSUME ZxInv, ZX!Next
  PROVE  ZxInv'
<1>1. ASSUME NEW n \in 1..(IF Len(wire) < ZxBuffer THEN Len(wire) ELSE ZxBuffer),
             ZX!Probe(n) \/ ZX!Recv(n)
      PROVE  ZxInv'
  <2>1. n \in 0..Len(wire)
    <3>1. Len(wire) \in Nat /\ ZxBuffer \in Nat
      BY StreamsAssumption DEF ZxInv
    <3> QED
      BY <3>1
  <2> QED
    BY <1>1, <2>1, ZxProbe, ZxRecv
<1>2. ASSUME ZX!Deframe PROVE ZxInv'
  <2>1. buffer' \in Seq(Nat) /\ (pc' = "idle" => Settled(buffer'))
    BY <1>2, ZxDeframeType
  <2>2. /\ items' = items /\ wire' = wire /\ lost' = lost
        /\ pc' \in {"idle", "deframe"}
    BY <1>2 DEF ZX!Deframe
  <2>3. lost' = {} => \E n \in 0..Len(items') : Taken(n)'
    BY <1>2, <2>2, ZxDeframeTaken
  <2> QED
    BY <2>1, <2>2, <2>3 DEF ZxInv
<1>3. ASSUME ZX!Closed PROVE ZxInv'
  BY <1>3 DEF ZX!Closed, ZX!vars, ZxInv, Taken
<1> QED
  BY <1>1, <1>2, <1>3, ZxClose DEF ZX!Next

-----------------------------------------------------------------------------
(* The frames of beesure                                                   *)

Symbols == {BS!Open, BS!End, BS!Datum} \cup {BS!Header(i, n) : i \in Imeis, n \in Nat}
BsItem == BS!Frames \cup BS!Broken

\* Data between frames holds no header.
BsPlain(i) == i \in {<<BS!Datum>>, <<BS!Open>>, <<BS!End, BS!Open>>}

\* i is a frame of data d that ends in e; only one that ends in "]" is to be returned.
BsFrame(i, d, e) ==
  /\ d \in Seq({BS!Datum, BS!End}) /\ e \in {BS!Datum, BS!End}
  /\ \E im \in Imeis : i = BS!Frame(im, d, e)
  /\ BS!Sound(i) = IF e = BS!End THEN <<i>> ELSE <<>>

\* Only a header starts with "*".
LEMMA SymbolFacts ==
  /\ BS!Open \in Symbols /\ BS!End \in Symbols /\ BS!Datum \in Symbols
  /\ BS!Open[1] # "*" /\ BS!End[1] # "*" /\ BS!Datum[1] # "*"
  /\ BS!End # BS!Datum
  /\ \A i \in Imeis, n \in Nat : /\ BS!Header(i, n) \in Symbols
                                 /\ BS!Header(i, n)[1] = "*" /\ BS!Header(i, n)[3] = n
<1>1. BS!Open[1] # "*" /\ BS!End[1] # "*" /\ BS!Datum[1] # "*"
  BY DEF BS!Open, BS!End, BS!Datum
<1>2. BS!End # BS!Datum
  <2>1. BS!End[1] # BS!Datum[1]
    BY DEF BS!End, BS!Datum
  <2> QED
    BY <2>1
<1>3. \A i \in Imeis, n \in Nat : BS!Header(i, n)[1] = "*" /\ BS!Header(i, n)[3] = n
  BY DEF BS!Header
<1> QED
  BY <1>1, <1>2, <1>3 DEF Symbols

LEMMA HeaderLength ==
  ASSUME NEW y \in Symbols, y[1] = "*"
  PROVE  y[3] \in Nat
<1>1. PICK i \in Imeis, n \in Nat : y = BS!Header(i, n)
  BY SymbolFacts DEF Symbols
<1> QED
  BY <1>1, SymbolFacts

\* The symbols of a frame.
LEMMA BsFramed ==
  ASSUME NEW i, NEW d, NEW e, BsFrame(i, d, e)
  PROVE  /\ i \in Seq(Symbols) /\ Len(d) \in Nat /\ Len(i) = Len(d) + 3
         /\ i[1] = BS!Open /\ i[2][1] = "*" /\ i[2][3] = Len(d)
         /\ \A k \in 3..Len(i) : i[k][1] # "*"
         /\ i[Len(d) + 3] = e
<1>1. d \in Seq({BS!Datum, BS!End}) /\ Len(d) \in Nat /\ e \in {BS!Datum, BS!End}
  BY DEF BsFrame
<1>2. PICK im \in Imeis : i = <<BS!Open, BS!Header(im, Len(d))>> \o d \o <<e>>
  BY DEF BsFrame, BS!Frame
<1> DEFINE o == BS!Open
           h == BS!Header(im, Len(d))
<1>3. o \in Symbols /\ h \in Symbols /\ h[1] = "*" /\ h[3] = Len(d) /\ e \in Symbols
  BY <1>1, SymbolFacts
<1>4. d \in Seq(Symbols) /\ \A k \in 1..Len(d) : d[k][1] # "*"
  <2>1. \A k \in 1..Len(d) : d[k] \in {BS!Datum, BS!End}
    BY <1>1
  <2>2. \A k \in 1..Len(d) : d[k] \in Symbols /\ d[k][1] # "*"
    BY <2>1, SymbolFacts
  <2> QED
    BY <1>1, <2>2
<1>5. e[1] # "*"
  BY <1>1, SymbolFacts
<1> HIDE DEF o, h
<1> DEFINE a == <<o, h>> \o d
<1>6. /\ a \in Seq(Symbols) /\ Len(a) = Len(d) + 2 /\ a[1] = o /\ a[2] = h
      /\ \A k \in 1..Len(d) : a[2 + k] = d[k]
  <2>1. <<o, h>> \in Seq(Symbols) /\ Len(<<o, h>>) = 2 /\ <<o, h>>[1] = o /\ <<o, h>>[2] = h
    BY <1>3
  <2> DEFINE c == <<o, h>>
  <2>2. c \in Seq(Symbols) /\ Len(c) = 2 /\ c[1] = o /\ c[2] = h
    BY <2>1
  <2> HIDE DEF c
  <2>3. /\ c \o d \in Seq(Symbols) /\ Len(c \o d) = Len(c) + Len(d)
        /\ \A k \in 1..Len(c) : (c \o d)[k] = c[k]
        /\ \A k \in 1..Len(d) : (c \o d)[Len(c) + k] = d[k]
    <3>1. c \in Seq(Symbols) /\ d \in Seq(Symbols)
      BY <1>4, <2>2
    <3> QED
      BY <3>1, ConcatAt
  <2>4. /\ c \o d \in Seq(Symbols) /\ Len(c \o d) = Len(d) + 2
        /\ (c \o d)[1] = o /\ (c \o d)[2] = h
        /\ \A k \in 1..Len(d) : (c \o d)[2 + k] = d[k]
    BY <1>1, <2>2, <2>3
  <2> QED
    BY <2>4 DEF c
<1>7. i = a \o <<e>>
  BY <1>2 DEF o, h
<1> HIDE DEF a
<1>8. /\ i \in Seq(Symbols) /\ Len(i) = Len(a) + 1
      /\ \A k \in 1..Len(a) : i[k] = a[k]
      /\ i[Len(a) + 1] = e
  <2> DEFINE c == <<e>>
  <2>1. c \in Seq(Symbols) /\ Len(c) = 1 /\ c[1] = e
    BY <1>3
  <2> HIDE DEF c
  <2>2. /\ a \o c \in Seq(Symbols) /\ Len(a \o c) = Len(a) + Len(c)
        /\ \A k \in 1..Len(a) : (a \o c)[k] = a[k]
        /\ \A k \in 1..Len(c) : (a \o c)[Len(a) + k] = c[k]
    <3>1. a \in Seq(Symbols) /\ c \in Seq(Symbols)
      BY <1>6, <2>1
    <3> QED
      BY <3>1, ConcatAt
  <2>3. i = a \o c
    BY <1>7 DEF c
  <2> QED
    BY <2>1, <2>2, <2>3
<1>9. Len(i) = Len(d) + 3 /\ i[1] = o /\ i[2] = h /\ i[Len(d) + 3] = e
  BY <1>1, <1>6, <1>8
<1>10. ASSUME NEW k \in 3..Len(i) PROVE i[k][1] # "*"
  <2>1. CASE k = Len(d) + 3
    BY <1>5, <1>9, <2>1
  <2>2. CASE k # Len(d) + 3
    <3>1. k - 2 \in 1..Len(d) /\ 2 + (k - 2) = k /\ k \in 1..Len(a)
      BY <1>1, <1>6, <1>9, <2>2
    <3>2. i[k] = d[k - 2]
      BY <1>6, <1>8, <3>1
    <3> QED
      BY <1>4, <3>1, <3>2
  <2> QED
    BY <2>1, <2>2
<1> QED
  BY <1>1, <1>3, <1>8, <1>9, <1>10 DEF o

\* What the terminal sends is either.
LEMMA BsItemsType ==
  ASSUME NEW i \in BsItem
  PROVE  /\ i \in Seq(Symbols) /\ BS!Sound(i) \in Seq(BsItem)
         /\ BsPlain(i) => BS!Sound(i) = <<>> /\ \A k \in 1..Len(i) : i[k][1] # "*"
         /\ ~BsPlain(i) => \E d, e : BsFrame(i, d, e)
<1>1. BS!Sound(i) \in Seq(BsItem)
  BY DEF BS!Sound
<1>2. ASSUME BsPlain(i)
      PROVE  i \in Seq(Symbols) /\ BS!Sound(i) = <<>> /\ \A k \in 1..Len(i) : i[k][1] # "*"
  <2>1. BS!Sound(i) = <<>>
    BY <1>2 DEF BsPlain, BS!Sound, BS!Broken
  <2>2. ASSUME NEW y \in Symbols, y[1] # "*", i = <<y>>
        PROVE  i \in Seq(Symbols) /\ \A k \in 1..Len(i) : i[k][1] # "*"
    <3>1. i \in Seq(Symbols) /\ Len(i) = 1 /\ i[1] = y
      BY <2>2
    <3> QED
      BY <2>2, <3>1
  <2>3. ASSUME NEW y \in Symbols, y[1] # "*", NEW z \in Symbols, z[1] # "*", i = <<y, z>>
        PROVE  i \in Seq(Symbols) /\ \A k \in 1..Len(i) : i[k][1] # "*"
    <3>1. i \in Seq(Symbols) /\ Len(i) = 2 /\ i[1] = y /\ i[2] = z
      BY <2>3
    <3> QED
      BY <2>3, <3>1
  <2>4. i \in Seq(Symbols) /\ \A k \in 1..Len(i) : i[k][1] # "*"
    BY <1>2, <2>2, <2>3, SymbolFacts DEF BsPlain
  <2> QED
    BY <2>1, <2>4
<1>3. ASSUME ~BsPlain(i) PROVE \E d, e : BsFrame(i, d, e)
  <2>1. CASE i \in BS!Broken
    <3>1. PICK im \in Imeis : i = BS!Frame(im, <<BS!Datum>>, BS!Datum)
      BY <1>3, <2>1 DEF BS!Broken, BsPlain
    <3>2. BS!Sound(i) = <<>>
      BY <2>1 DEF BS!Sound
    <3>3. BsFrame(i, <<BS!Datum>>, BS!Datum)
      BY <3>1, <3>2, SymbolFacts DEF BsFrame
    <3> QED
      BY <3>3
  <2>2. CASE i \notin BS!Broken
    <3>1. PICK im \in Imeis, d \in BS!Data : i = BS!Frame(im, d, BS!End)
      BY <2>2 DEF BsItem, BS!Frames
    <3>2. d \in Seq({BS!Datum, BS!End})
      <4>1. PICK n \in 0..MaxData : d \in [1..n -> {BS!Datum, BS!End}]
        BY DEF BS!Data
      <4> QED
        BY <4>1, StreamsAssumption
    <3>3. BS!Sound(i) = <<i>>
      BY <2>2 DEF BS!Sound
    <3>4. BsFrame(i, d, BS!End)
      BY <3>1, <3>2, <3>3 DEF BsFrame
    <3> QED
      BY <3>4
  <2> QED
    BY <2>1, <2>2
<1>4. i \in Seq(Symbols)
  BY <1>2, <1>3, BsFramed
<1> QED
  BY <1>1, <1>2, <1>3, <1>4

Sounds(its) == [k \in DOMAIN its |-> BS!Sound(its[k])]

\* The frames to be returned among the first n items.
SoundAmong(its, n) == Heads(Sounds(its))[n]

LEMMA SoundsType ==
  ASSUME NEW its \in Seq(BsItem)
  PROVE  /\ its \in Seq(Seq(Symbols))
         /\ Sounds(its) \in Seq(Seq(BsItem)) /\ Len(Sounds(its)) = Len(its)
         /\ \A k \in 1..Len(its) : Sounds(its)[k] = BS!Sound(its[k])
<1>1. \A k \in 1..Len(its) : its[k] \in Seq(Symbols) /\ BS!Sound(its[k]) \in Seq(BsItem)
  BY BsItemsType
<1>2. DOMAIN its = 1..Len(its) /\ Len(its) \in Nat
  OBVIOUS
<1> QED
  BY <1>1, <1>2 DEF Sounds

LEMMA IsStart ==
  ASSUME NEW b \in Seq(Symbols), NEW i \in Nat, i >= 1, i + 1 <= Len(b),
         b[i] = BS!Open, b[i + 1][1] = "*"
  PROVE  i \in BS!Starts(b)
  BY DEF BS!Starts

\* First of BeesureStream is the first start of a frame.
LEMMA FirstStart ==
  ASSUME NEW b \in Seq(Symbols), BS!Starts(b) # {}
  PROVE  /\ BS!First(b) \in BS!Starts(b) /\ \A j \in BS!Starts(b) : BS!First(b) <= j
         /\ BS!First(b) \in Nat /\ BS!First(b) >= 1 /\ BS!First(b) + 1 <= Len(b)
         /\ b[BS!First(b)] = BS!Open /\ b[BS!First(b) + 1][1] = "*"
         /\ BS!LenAt(b, BS!First(b)) \in Nat
<1> DEFINE T == BS!Starts(b)
<1>1. T \in SUBSET Nat
  BY DEF BS!Starts
<1>2. BS!First(b) = CHOOSE i \in T : \A j \in T : i <= j
  BY DEF BS!First
<1> HIDE DEF T
<1>3. \E i \in T : \A j \in T : i <= j
  BY <1>1, LeastElement DEF T
<1>4. BS!First(b) \in T /\ \A j \in T : BS!First(b) <= j
  <2> DEFINE c == CHOOSE i \in T : \A j \in T : i <= j
  <2>1. c \in T /\ \A j \in T : c <= j
    BY <1>3
  <2> HIDE DEF c
  <2>2. BS!First(b) = c
    BY <1>2 DEF c
  <2> QED
    BY <2>1, <2>2
<1> DEFINE f == BS!First(b)
<1>5. f \in Nat /\ f >= 1 /\ f + 1 <= Len(b) /\ b[f] = BS!Open /\ b[f + 1][1] = "*"
  <2>1. f \in BS!Starts(b)
    BY <1>4 DEF T
  <2> HIDE DEF f
  <2> QED
    BY <2>1 DEF BS!Starts
<1>6. BS!LenAt(b, f) \in Nat
  <2>1. f + 1 \in 1..Len(b)
    BY <1>5
  <2>2. b[f + 1] \in Symbols
    BY <2>1
  <2>3. b[f + 1][3] \in Nat
    BY <1>5, <2>2, HeaderLength
  <2> QED
    BY <2>3 DEF BS!LenAt
<1> QED
  BY <1>4, <1>5, <1>6 DEF T

\* From any place the items up to the next frame are plain.
LEMMA BsNextFrame ==
  ASSUME NEW its \in Seq(BsItem), NEW n \in 0..Len(its)
  PROVE  \E m \in n..Len(its) : /\ \A k \in (n + 1)..m : BsPlain(its[k])
                                /\ m < Len(its) => ~BsPlain(its[m + 1])
<1> DEFINE T == {k \in n..Len(its) : k < Len(its) => ~BsPlain(its[k + 1])}
<1>1. T \in SUBSET Nat /\ Len(its) \in T
  OBVIOUS
<1>2. PICK m \in T : \A k \in T : m <= k
  <2> HIDE DEF T
  <2> QED
    BY <1>1, LeastElement
<1>3. ASSUME NEW k \in (n + 1)..m PROVE BsPlain(its[k])
  <2>1. k - 1 \in n..Len(its) /\ k - 1 < Len(its) /\ ~ (m <= k - 1) /\ (k - 1) + 1 = k
    OBVIOUS
  <2>2. k - 1 \notin T
    BY <1>2, <2>1
  <2> QED
    BY <2>1, <2>2
<1> QED
  BY <1>3

\* The buffer, which follows n items, has the item behind the m-th at offset t: a frame
\* of data d that ends in e.
BsFrameAt(its, b, w, n, m, t, d, e) ==
  /\ its \in Seq(BsItem) /\ n \in 0..Len(its) /\ b \in Seq(Symbols) /\ w \in Seq(Symbols)
  /\ Follows(its, b, w, n)
  /\ m \in n..(Len(its) - 1) /\ t \in Nat
  /\ EndOf(its, m) = EndOf(its, n) + t
  /\ BsFrame(its[m + 1], d, e)

\* As much of the frame as is there has its symbols, its header is found once it is there,
\* and all of it is there when none is to come.
LEMMA BsFrameInBuffer ==
  ASSUME NEW its, NEW b, NEW w, NEW n, NEW m, NEW t, NEW d, NEW e,
         BsFrameAt(its, b, w, n, m, t, d, e)
  PROVE  /\ Len(d) \in Nat /\ Len(its[m + 1]) = Len(d) + 3
         /\ \A i \in 1..(Len(d) + 3) : t + i <= Len(b) => b[t + i] = its[m + 1][i]
         /\ EndOf(its, m + 1) = EndOf(its, n) + (t + (Len(d) + 3))
         /\ t + 2 <= Len(b) => t + 1 \in BS!Starts(b) /\ BS!LenAt(b, t + 1) = Len(d)
         /\ Len(w) = 0 => t + (Len(d) + 3) <= Len(b)
<1> USE DEF BsFrameAt
<1> DEFINE F == its[m + 1]
<1>1. its \in Seq(Seq(Symbols))
  BY SoundsType
<1>2. /\ m \in 0..Len(its)
      /\ m + 1 \in 1..Len(its) /\ (m + 1) - 1 = m /\ m + 1 \in 0..Len(its)
      /\ Len(its) \in (m + 1)..Len(its) /\ Len(its) \in 0..Len(its)
  OBVIOUS
<1>3. /\ F \in Seq(Symbols) /\ Len(d) \in Nat /\ Len(F) = Len(d) + 3
      /\ F[1] = BS!Open /\ F[2][1] = "*" /\ F[2][3] = Len(d)
  BY BsFramed
<1>4. \A i \in 1..Len(F) : t + i <= Len(b) => b[t + i] = F[i]
  <2>1. \A i \in 1..Len(its[m + 1]) : t + i <= Len(b) => b[t + i] = its[m + 1][i]
    <3> HIDE DEF BsFrameAt
    <3>1. /\ n \in 0..Len(its) /\ b \in Seq(Symbols) /\ w \in Seq(Symbols)
          /\ Follows(its, b, w, n) /\ m \in n..(Len(its) - 1) /\ t \in Nat
          /\ EndOf(its, m) = EndOf(its, n) + t
      BY DEF BsFrameAt
    <3> QED
      BY <1>1, <3>1, FollowsAt
  <2> QED
    BY <2>1
<1>5. /\ EndOf(its, n) \in Nat /\ EndOf(its, m + 1) \in Nat
      /\ EndOf(its, m + 1) = EndOf(its, m) + Len(F)
      /\ EndOf(its, Len(its)) = Len(FlattenSeq(its))
      /\ EndOf(its, Len(its)) \in Nat
  BY <1>1, <1>2, EndsType
<1>6. EndOf(its, m + 1) <= EndOf(its, Len(its))
  BY <1>1, <1>2, HeadsGrow
<1> HIDE DEF F
<1>7. EndOf(its, m + 1) = EndOf(its, n) + (t + (Len(d) + 3))
  <2>1. EndOf(its, m + 1) = (EndOf(its, n) + t) + (Len(d) + 3)
    BY <1>3, <1>5
  <2>2. t \in Nat
    OBVIOUS
  <2> QED
    BY <1>3, <1>5, <2>1, <2>2
<1>8. Len(w) = 0 => t + (Len(d) + 3) <= Len(b)
  <2> SUFFICES ASSUME Len(w) = 0 PROVE t + (Len(d) + 3) <= Len(b)
    OBVIOUS
  <2>1. Len(b) + 0 = Len(FlattenSeq(its)) - EndOf(its, n) /\ Len(b) \in Nat /\ t \in Nat
    BY DEF Follows
  <2>2. Len(b) = EndOf(its, Len(its)) - EndOf(its, n)
    BY <1>5, <2>1
  <2> QED
    BY <1>3, <1>5, <1>6, <1>7, <2>1, <2>2
<1>9. ASSUME t + 2 <= Len(b) PROVE t + 1 \in BS!Starts(b) /\ BS!LenAt(b, t + 1) = Len(d)
  <2> DEFINE u == t + 1
  <2>1. t \in Nat /\ b \in Seq(Symbols) /\ Len(b) \in Nat
    OBVIOUS
  <2>2. /\ u \in Nat /\ u >= 1 /\ u + 1 = t + 2 /\ u + 1 <= Len(b) /\ u <= Len(b)
        /\ 1 \in 1..Len(F) /\ 2 \in 1..Len(F)
    BY <1>3, <1>9, <2>1
  <2>3. b[u] = F[1] /\ b[t + 2] = F[2]
    BY <1>4, <2>2
  <2> HIDE DEF u
  <2>4. b[u] = BS!Open /\ b[u + 1][1] = "*" /\ b[u + 1][3] = Len(d)
    BY <1>3, <2>2, <2>3
  <2>5. u \in BS!Starts(b)
    BY <2>1, <2>2, <2>4, IsStart
  <2>6. BS!LenAt(b, u) = Len(d)
    BY <2>4 DEF BS!LenAt
  <2> QED
    BY <2>5, <2>6 DEF u
<1> QED
  BY <1>3, <1>4, <1>7, <1>8, <1>9 DEF F

\* The first header that the deframer finds is that of the next frame, behind plain items
\* only.
LEMMA FirstIsOfFrame ==
  ASSUME NEW its \in Seq(BsItem), NEW n \in 0..Len(its),
         NEW b \in Seq(Symbols), NEW w \in Seq(Symbols), Follows(its, b, w, n),
         BS!Starts(b) # {}
  PROVE  \E m \in n..(Len(its) - 1) :
           /\ EndOf(its, m) = EndOf(its, n) + (BS!First(b) - 1)
           /\ \A k \in (n + 1)..m : BsPlain(its[k])
           /\ ~BsPlain(its[m + 1])
<1> DEFINE i == BS!First(b)
           all == FlattenSeq(its)
           e == EndOf(its, n)
           q == e + (i + 1)
<1>1. its \in Seq(Seq(Symbols))
  BY SoundsType
<1>2. /\ i \in BS!Starts(b) /\ \A j \in BS!Starts(b) : i <= j
      /\ i \in Nat /\ i >= 1 /\ i + 1 <= Len(b) /\ b[i + 1][1] = "*"
  BY FirstStart
<1> HIDE DEF i
<1>3. /\ Len(b) + Len(w) = Len(all) - e
      /\ \A j \in 1..Len(b) : b[j] = all[e + j]
  BY DEF Follows
<1>4. /\ e \in Nat /\ Len(all) \in Nat /\ Len(w) \in Nat /\ Len(b) \in Nat
      /\ \A k \in 0..Len(its) : EndOf(its, k) \in Nat
      /\ \A k \in 0..Len(its) : \A l \in k..Len(its) : EndOf(its, k) <= EndOf(its, l)
  BY <1>1, EndsType, FlattenType, HeadsGrow
<1>5. i + 1 \in 1..Len(b)
  BY <1>2, <1>4
<1> HIDE DEF all, e
<1>6. q \in 1..Len(all) /\ q > e
  BY <1>2, <1>3, <1>4
<1>7. all[q][1] = "*"
  BY <1>2, <1>3, <1>5
<1>8. PICK k \in 1..Len(its) : /\ EndOf(its, k - 1) < q /\ q <= EndOf(its, k)
                               /\ q - EndOf(its, k - 1) \in 1..Len(its[k])
  <2> HIDE DEF q
  <2> QED
    BY <1>1, <1>6, FlattenLocate DEF all
<1> DEFINE r == q - EndOf(its, k - 1)
<1>9. k - 1 \in 0..Len(its) /\ k \in 0..Len(its) /\ its[k] \in BsItem
  OBVIOUS
<1>10. r \in 1..Len(its[k]) /\ EndOf(its, k - 1) + r = q
  <2>1. EndOf(its, k - 1) \in Nat
    BY <1>4, <1>9
  <2> QED
    BY <1>4, <1>6, <1>8, <2>1
<1> HIDE DEF q, r
<1>11. its[k][r][1] = "*"
  <2>1. all[EndOf(its, k - 1) + r] = its[k][r]
    BY <1>1, <1>8, <1>10, FlattenAt DEF all
  <2> QED
    BY <1>7, <1>10, <2>1
<1>12. ~BsPlain(its[k]) /\ \E d, c : BsFrame(its[k], d, c)
  BY <1>9, <1>10, <1>11, BsItemsType
<1>13. r = 2
  <2>1. PICK d, c : BsFrame(its[k], d, c)
    BY <1>12
  <2> DEFINE F == its[k]
  <2>2. /\ Len(d) \in Nat /\ Len(F) = Len(d) + 3 /\ F[1] = BS!Open
        /\ \A j \in 3..Len(F) : F[j][1] # "*"
    BY <2>1, BsFramed
  <2>3. F[1][1] # "*"
    BY <2>2, SymbolFacts
  <2>4. r \in 1..Len(F) /\ F[r][1] = "*"
    BY <1>10, <1>11
  <2> HIDE DEF F
  <2>5. r # 1
    BY <2>3, <2>4
  <2>6. ~ (r >= 3)
    BY <2>2, <2>4
  <2> QED
    BY <2>2, <2>4, <2>5, <2>6
<1>14. k > n
  <2> SUFFICES ASSUME k <= n PROVE FALSE
    OBVIOUS
  <2>1. n \in k..Len(its) /\ EndOf(its, k) <= e
    BY <1>4, <1>9 DEF e
  <2>2. EndOf(its, k) \in Nat /\ q \in Nat
    BY <1>4, <1>6, <1>9
  <2> QED
    BY <1>4, <1>6, <1>8, <2>1, <2>2
<1>15. PICK m \in n..Len(its) : /\ \A l \in (n + 1)..m : BsPlain(its[l])
                                /\ m < Len(its) => ~BsPlain(its[m + 1])
  BY BsNextFrame
<1>16. m + 1 <= k
  <2> SUFFICES ASSUME k <= m PROVE FALSE
    OBVIOUS
  <2>1. k \in (n + 1)..m
    BY <1>14
  <2> QED
    BY <1>12, <1>15, <2>1
<1>17. /\ m \in n..(Len(its) - 1) /\ ~BsPlain(its[m + 1]) /\ m \in 0..Len(its)
       /\ its[m + 1] \in BsItem /\ m + 1 \in 0..Len(its)
  BY <1>15, <1>16
<1> DEFINE t == EndOf(its, m) - e
<1>18. t \in Nat /\ EndOf(its, m) = e + t /\ EndOf(its, m) \in Nat
  <2>1. EndOf(its, m) \in Nat /\ e <= EndOf(its, m)
    BY <1>4, <1>17 DEF e
  <2> QED
    BY <1>4, <2>1
<1> HIDE DEF t
<1>19. PICK d, c : BsFrame(its[m + 1], d, c)
  BY <1>17, BsItemsType
<1>20. BsFrameAt(its, b, w, n, m, t, d, c)
  BY <1>17, <1>18, <1>19 DEF BsFrameAt, e
<1>21. /\ Len(d) \in Nat /\ EndOf(its, m + 1) = e + (t + (Len(d) + 3))
       /\ t + 2 <= Len(b) => t + 1 \in BS!Starts(b)
  BY <1>20, BsFrameInBuffer DEF e
<1>22. k = m + 1
  <2> SUFFICES ASSUME k # m + 1 PROVE FALSE
    OBVIOUS
  <2>1. k - 1 \in (m + 1)..Len(its)
    BY <1>16
  <2>2. EndOf(its, m + 1) <= EndOf(its, k - 1) /\ EndOf(its, k - 1) \in Nat
    BY <1>4, <1>9, <1>17, <2>1
  <2>3. EndOf(its, k - 1) + 2 = e + (i + 1)
    BY <1>10, <1>13 DEF q
  <2>4. t + 1 < i /\ t + 2 <= Len(b)
    BY <1>2, <1>4, <1>18, <1>21, <2>2, <2>3, SMTT(30)
  <2>5. i <= t + 1
    BY <1>2, <1>21, <2>4
  <2> QED
    BY <1>2, <1>18, <2>4, <2>5
<1>23. EndOf(its, m) = e + (i - 1)
  <2>1. EndOf(its, m) + 2 = e + (i + 1)
    <3>1. k - 1 = m
      BY <1>22, <1>17
    <3> QED
      BY <1>10, <1>13, <3>1 DEF q
  <2>2. \A f, g, j \in Nat : f + 2 = g + (j + 1) => f = g + (j - 1)
    OBVIOUS
  <2>3. EndOf(its, m) \in Nat /\ e \in Nat /\ i \in Nat
    BY <1>2, <1>4, <1>18
  <2> QED
    BY <2>1, <2>2, <2>3
<1> QED
  BY <1>15, <1>17, <1>23 DEF i, e

\* When Stream.recv returns, no frame is complete in its buffer.
BsSettled(b) ==
  BS!Starts(b) = {} \/ (BS!First(b) = 1 /\ Len(b) < BS!LenAt(b, 1) + BS!Overhead)

LEMMA PlainSoundNothing ==
  ASSUME NEW its \in Seq(BsItem), NEW n \in 0..Len(its), NEW m \in n..Len(its),
         \A k \in (n + 1)..m : BsPlain(its[k])
  PROVE  SoundAmong(its, m) = SoundAmong(its, n)
<1>1. /\ Sounds(its) \in Seq(Seq(BsItem)) /\ Len(Sounds(its)) = Len(its)
      /\ \A k \in 1..Len(its) : Sounds(its)[k] = BS!Sound(its[k])
  BY SoundsType
<1>2. n \in 0..Len(Sounds(its)) /\ m \in n..Len(Sounds(its))
  BY <1>1
<1>3. \A k \in (n + 1)..m : Sounds(its)[k] = <<>>
  <2> SUFFICES ASSUME NEW k \in (n + 1)..m PROVE Sounds(its)[k] = <<>>
    OBVIOUS
  <2>1. k \in 1..Len(its) /\ its[k] \in BsItem /\ BsPlain(its[k])
    OBVIOUS
  <2> QED
    BY <1>1, <2>1, BsItemsType
<1> QED
  BY <1>1, <1>2, <1>3, HeadsSame DEF SoundAmong

\* When nothing more is to come either, no frame is left in what it holds.
LEMMA BsNoneLeftBehind ==
  ASSUME NEW its \in Seq(BsItem), NEW n \in 0..Len(its),
         NEW b \in Seq(Symbols), NEW w \in Seq(Symbols), Len(w) = 0,
         Follows(its, b, w, n), BsSettled(b)
  PROVE  SoundAmong(its, n) = SoundAmong(its, Len(its))
<1>1. PICK m \in n..Len(its) : /\ \A k \in (n + 1)..m : BsPlain(its[k])
                               /\ m < Len(its) => ~BsPlain(its[m + 1])
  BY BsNextFrame
<1>2. m = Len(its)
  <2> SUFFICES ASSUME m # Len(its) PROVE FALSE
    OBVIOUS
  <2>1. m \in n..(Len(its) - 1) /\ ~BsPlain(its[m + 1]) /\ its[m + 1] \in BsItem
    BY <1>1
  <2>2. PICK d, e : BsFrame(its[m + 1], d, e)
    BY <2>1, BsItemsType
  <2> DEFINE t == EndOf(its, m) - EndOf(its, n)
  <2>3. t \in Nat /\ EndOf(its, m) = EndOf(its, n) + t
    <3>1. its \in Seq(Seq(Symbols))
      BY SoundsType
    <3>2. m \in 0..Len(its)
      BY <2>1
    <3>3. /\ EndOf(its, n) \in Nat /\ EndOf(its, m) \in Nat /\ EndOf(its, n) <= EndOf(its, m)
      BY <3>1, <3>2, EndsType, HeadsGrow
    <3> QED
      BY <3>3
  <2> HIDE DEF t
  <2>4. BsFrameAt(its, b, w, n, m, t, d, e)
    BY <2>1, <2>2, <2>3 DEF BsFrameAt
  <2>5. /\ Len(d) \in Nat /\ t + (Len(d) + 3) <= Len(b)
        /\ t + 2 <= Len(b) => t + 1 \in BS!Starts(b) /\ BS!LenAt(b, t + 1) = Len(d)
    BY <2>4, BsFrameInBuffer
  <2>6. t + 2 <= Len(b) /\ Len(b) \in Nat
    BY <2>3, <2>5
  <2>7. t + 1 \in BS!Starts(b) /\ BS!LenAt(b, t + 1) = Len(d)
    BY <2>5, <2>6
  <2>8. BS!First(b) = 1 /\ Len(b) < BS!LenAt(b, 1) + BS!Overhead
    BY <2>7 DEF BsSettled
  <2>9. PICK l \in n..(Len(its) - 1) :
           /\ EndOf(its, l) = EndOf(its, n) + (BS!First(b) - 1)
           /\ \A k \in (n + 1)..l : BsPlain(its[k])
           /\ ~BsPlain(its[l + 1])
    BY <2>7, FirstIsOfFrame, ZenonT(30)
  <2>10. l = m
    <3>1. ~ (l < m)
      <4> SUFFICES ASSUME l < m PROVE FALSE
        OBVIOUS
      <4>1. l + 1 \in (n + 1)..m
        OBVIOUS
      <4> QED
        BY <1>1, <2>9, <4>1
    <3>2. ~ (m < l)
      <4> SUFFICES ASSUME m < l PROVE FALSE
        OBVIOUS
      <4>1. m + 1 \in (n + 1)..l
        OBVIOUS
      <4> QED
        BY <2>1, <2>9, <4>1
    <3> QED
      BY <3>1, <3>2
  <2>11. t = 0
    <3>1. EndOf(its, n) \in Nat
      BY SoundsType, EndsType
    <3>2. EndOf(its, n) + t = EndOf(its, n) + (1 - 1)
      BY <2>3, <2>8, <2>9, <2>10
    <3> QED
      BY <2>3, <3>1, <3>2
  <2>12. BS!LenAt(b, 1) = Len(d) /\ Len(d) + 3 <= Len(b)
    BY <2>5, <2>7, <2>11
  <2> QED
    BY <2>5, <2>6, <2>8, <2>12 DEF BS!Overhead
<1> QED
  BY <1>1, <1>2, PlainSoundNothing

\* Of the items n are done: their frames have been returned, and what follows them is in
\* the buffer or to come.
BsTaken(n) ==
  /\ msgs = SoundAmong(items, n)
  /\ IF pc = "closed" THEN n = Len(items) ELSE Follows(items, buffer, wire, n)

\* A length that is kept is that in the header which the buffer starts with.
LengthKept == datalen # 0 => 1 \in BS!Starts(buffer) /\ BS!LenAt(buffer, 1) = datalen

BsInv ==
  /\ items \in Seq(BsItem) /\ wire \in Seq(Symbols) /\ buffer \in Seq(Symbols)
  /\ datalen \in Nat
  /\ pc \in {"idle", "deframe", "closed"}
  /\ pc = "closed" => wire = <<>>
  /\ "overflow" \notin lost => LengthKept /\ (pc = "idle" => BsSettled(buffer))
  /\ lost = {} => \E n \in 0..Len(items) : BsTaken(n)

LEMMA BsInit ==
  ASSUME BS!Init
  PROVE  BsInv
<1>1. items \in Seq(BsItem)
  <2>1. PICK n \in 1..BsItems : items \in [1..n -> BsItem]
    BY DEF BS!Init, BsItem
  <2> QED
    BY <2>1, StreamsAssumption
<1>2. items \in Seq(Seq(Symbols)) /\ Sounds(items) \in Seq(Seq(BsItem))
  BY <1>1, SoundsType
<1>3. wire = FlattenSeq(items)
  BY SameFlatten DEF BS!Init
<1>4. wire \in Seq(Symbols)
  BY <1>2, <1>3, FlattenType
<1>5. SoundAmong(items, 0) = <<>>
  BY <1>2, HeadsType DEF SoundAmong
<1>6. Follows(items, <<>>, FlattenSeq(items), 0)
  BY <1>2, FollowsInit
<1>7. buffer = <<>> /\ pc = "idle" /\ msgs = <<>> /\ datalen = 0
  BY DEF BS!Init
<1>8. BsTaken(0)
  <2>1. pc # "closed"
    BY <1>7
  <2> QED
    BY <1>3, <1>5, <1>6, <1>7, <2>1 DEF BsTaken
<1>9. 0 \in 0..Len(items)
  BY <1>1
<1>10. buffer \in Seq(Symbols) /\ BS!Starts(buffer) = {}
  BY <1>7 DEF BS!Starts
<1> QED
  BY <1>1, <1>4, <1>7, <1>8, <1>9, <1>10 DEF BsInv, LengthKept, BsSettled

LEMMA BsProbe ==
  ASSUME BsInv, NEW n \in 0..Len(wire), BS!Probe(n)
  PROVE  BsInv'
<1>1. wire \in Seq(Symbols)
  BY DEF BsInv
<1>2. wire' \in Seq(Symbols)
  BY <1>1, CutAt DEF BS!Probe, BS!Past
<1>3. lost' = lost \cup {"probe"}
  BY DEF BS!Probe
<1>4. /\ items' = items /\ buffer' = buffer /\ pc' = pc /\ pc = "idle" /\ datalen' = datalen
  BY DEF BS!Probe
<1>5. "overflow" \notin lost' => LengthKept' /\ BsSettled(buffer)'
  BY <1>3, <1>4 DEF BsInv, LengthKept
<1> QED
  BY <1>2, <1>3, <1>4, <1>5 DEF BsInv

LEMMA BsRecv ==
  ASSUME BsInv, NEW k \in 0..Len(wire), BS!Recv(k)
  PROVE  BsInv'
<1>1. wire \in Seq(Symbols) /\ items \in Seq(BsItem) /\ buffer \in Seq(Symbols) /\ datalen \in Nat
  BY DEF BsInv
<1>2. wire' = SubSeq(wire, k + 1, Len(wire)) /\ wire' \in Seq(Symbols)
  BY <1>1, CutAt DEF BS!Recv, BS!Past
<1>3. items' = items /\ msgs' = msgs /\ pc = "idle" /\ datalen' = datalen
  BY DEF BS!Recv
<1>4. CASE Len(buffer) + k > BsBuffer
  <2>1. buffer' = <<>> /\ lost' = lost \cup {"overflow"} /\ pc' = "idle"
    BY <1>3, <1>4 DEF BS!Recv
  <2>2. buffer' \in Seq(Symbols)
    BY <2>1
  <2> QED
    BY <1>1, <1>2, <1>3, <2>1, <2>2 DEF BsInv
<1>5. CASE ~ (Len(buffer) + k > BsBuffer)
  <2> DEFINE g == SubSeq(wire, 1, k)
  <2>1. buffer' = buffer \o g /\ lost' = lost /\ pc' = "deframe"
    BY <1>5 DEF BS!Recv, BS!Segment
  <2>2. g \in Seq(Symbols)
    BY <1>1, CutAt
  <2> HIDE DEF g
  <2>3. /\ buffer' \in Seq(Symbols) /\ Len(buffer') = Len(buffer) + Len(g)
        /\ \A i \in 1..Len(buffer) : buffer'[i] = buffer[i]
    <3> DEFINE c == buffer \o g
    <3>1. c \in Seq(Symbols) /\ Len(c) = Len(buffer) + Len(g)
          /\ \A i \in 1..Len(buffer) : c[i] = buffer[i]
      BY <1>1, <2>2, ConcatAt
    <3> HIDE DEF c
    <3>2. buffer' = c
      BY <2>1 DEF c
    <3> QED
      BY <3>1, <3>2
  <2>4. LengthKept => LengthKept'
    <3> SUFFICES ASSUME LengthKept, datalen # 0
                 PROVE  1 \in BS!Starts(buffer)' /\ BS!LenAt(buffer, 1)' = datalen'
      BY <1>3 DEF LengthKept
    <3>1. Len(buffer) \in Nat /\ Len(g) \in Nat
      BY <1>1, <2>2
    <3>2. /\ 1 + 1 <= Len(buffer) /\ buffer[1] = BS!Open /\ buffer[1 + 1][1] = "*"
          /\ buffer[1 + 1][3] = datalen
      BY <3>1 DEF LengthKept, BS!Starts, BS!LenAt
    <3>3. 1 \in 1..Len(buffer) /\ 1 + 1 \in 1..Len(buffer)
      BY <3>1, <3>2
    <3>4. buffer'[1] = buffer[1] /\ buffer'[1 + 1] = buffer[1 + 1] /\ 1 + 1 <= Len(buffer')
      BY <2>3, <3>1, <3>2, <3>3
    <3> DEFINE o == 1
    <3>5. /\ o \in Nat /\ o >= 1 /\ o + 1 <= Len(buffer') /\ buffer'[o] = BS!Open
          /\ buffer'[o + 1][1] = "*"
      BY <3>2, <3>4
    <3> HIDE DEF o
    <3>6. o \in BS!Starts(buffer')
      BY <2>3, <3>5, IsStart
    <3>7. BS!LenAt(buffer', 1) = datalen'
      BY <1>3, <3>2, <3>4 DEF BS!LenAt
    <3> QED
      BY <3>6, <3>7 DEF o
  <2>5. ASSUME lost' = {} PROVE \E n \in 0..Len(items') : BsTaken(n)'
    <3>1. PICK n \in 0..Len(items) : BsTaken(n)
      BY <2>1, <2>5 DEF BsInv
    <3>2. msgs = SoundAmong(items, n) /\ Follows(items, buffer, wire, n)
      BY <1>3, <3>1 DEF BsTaken
    <3>3. items \in Seq(Seq(Symbols))
      BY <1>1, SoundsType
    <3>4. Follows(items, buffer \o SubSeq(wire, 1, k), SubSeq(wire, k + 1, Len(wire)), n)
      BY <1>1, <3>2, <3>3, FollowsSegment
    <3>5. Follows(items, buffer', wire', n)
      BY <1>2, <2>1, <3>4 DEF g
    <3>6. BsTaken(n)'
      BY <1>3, <2>1, <3>2, <3>5 DEF BsTaken
    <3> QED
      BY <1>3, <3>6
  <2> QED
    BY <1>1, <1>2, <1>3, <2>1, <2>3, <2>4, <2>5 DEF BsInv
<1> QED
  BY <1>4, <1>5

LEMMA BsClose ==
  ASSUME BsInv, BS!Close
  PROVE  BsInv'
<1>1. wire \in Seq(Symbols) /\ items \in Seq(BsItem) /\ buffer \in Seq(Symbols)
  BY DEF BsInv
<1>2. /\ items' = items /\ msgs' = msgs /\ pc = "idle" /\ wire' = wire /\ wire = <<>>
      /\ pc' = "closed" /\ buffer' = <<>> /\ lost' = lost /\ datalen' = 0
  BY DEF BS!Close
<1>3. ASSUME lost' = {} PROVE \E n \in 0..Len(items') : BsTaken(n)'
  <2>1. PICK n \in 0..Len(items) : BsTaken(n)
    BY <1>2, <1>3 DEF BsInv
  <2>2. msgs = SoundAmong(items, n) /\ Follows(items, buffer, wire, n)
    BY <1>2, <2>1 DEF BsTaken
  <2>3. BsSettled(buffer) /\ Len(wire) = 0
    BY <1>2, <1>3 DEF BsInv
  <2>4. SoundAmong(items, n) = SoundAmong(items, Len(items))
    BY <1>1, <2>2, <2>3, BsNoneLeftBehind
  <2>5. BsTaken(Len(items))'
    BY <1>2, <2>2, <2>4 DEF BsTaken
  <2>6. Len(items) \in 0..Len(items)
    BY <1>1
  <2> QED
    BY <1>2, <2>5, <2>6
<1>4. buffer' \in Seq(Symbols)
  BY <1>2
<1> QED
  BY <1>1, <1>2, <1>3, <1>4 DEF BsInv, LengthKept

LEMMA BsNoStart ==
  ASSUME BsInv, BS!NoStart
  PROVE  BsInv'
<1>1. /\ items' = items /\ wire' = wire /\ buffer' = buffer /\ datalen' = datalen
      /\ msgs' = msgs /\ lost' = lost /\ pc = "deframe" /\ pc' = "idle"
      /\ BS!Starts(buffer) = {}
  BY DEF BS!NoStart
<1>2. LengthKept => LengthKept'
  BY <1>1 DEF LengthKept
<1>3. BsSettled(buffer)'
  BY <1>1 DEF BsSettled
<1>4. \A n : BsTaken(n) => BsTaken(n)'
  BY <1>1 DEF BsTaken
<1> QED
  BY <1>1, <1>2, <1>3, <1>4 DEF BsInv

\* What a turn goes on with.  Unless data has been dropped at the limit, the length that is
\* kept and the one just read are the same: that in the header which it starts with.
LEMMA BegunType ==
  ASSUME BsInv, BS!Turn
  PROVE  /\ BS!Begun \in Seq(Symbols) /\ BS!BegunLen \in Nat
         /\ "overflow" \notin lost =>
              /\ BS!Starts(buffer) # {}
              /\ BS!Begun = SubSeq(buffer, (BS!First(buffer) - 1) + 1, Len(buffer))
              /\ 1 \in BS!Starts(BS!Begun) /\ BS!LenAt(BS!Begun, 1) = BS!BegunLen
<1> DEFINE f == BS!First(buffer)
<1>1. buffer \in Seq(Symbols) /\ datalen \in Nat /\ Len(buffer) \in Nat
  BY DEF BsInv
<1>2. datalen # 0 \/ BS!Starts(buffer) # {}
  BY DEF BS!Turn
<1>3. BS!Starts(buffer) # {} =>
        /\ f \in BS!Starts(buffer) /\ \A j \in BS!Starts(buffer) : f <= j
        /\ f \in Nat /\ f >= 1 /\ f + 1 <= Len(buffer)
        /\ buffer[f] = BS!Open /\ buffer[f + 1][1] = "*"
        /\ BS!LenAt(buffer, f) \in Nat
  BY <1>1, FirstStart
<1> HIDE DEF f
<1>4. CASE datalen # 0
  <2>1. BS!Begun = buffer /\ BS!BegunLen = datalen
    BY <1>4 DEF BS!Begun, BS!BegunLen
  <2>2. ASSUME "overflow" \notin lost
        PROVE  /\ 1 \in BS!Starts(buffer) /\ BS!LenAt(buffer, 1) = datalen
               /\ buffer = SubSeq(buffer, (f - 1) + 1, Len(buffer))
    <3>1. 1 \in BS!Starts(buffer) /\ BS!LenAt(buffer, 1) = datalen
      BY <1>4, <2>2 DEF BsInv, LengthKept
    <3>2. f = 1
      BY <1>3, <3>1
    <3>3. SubSeq(buffer, 1, Len(buffer)) = buffer
      BY <1>1, SubSeqFull
    <3>4. (f - 1) + 1 = 1
      BY <3>2
    <3> QED
      BY <3>1, <3>3, <3>4
  <2> QED
    BY <1>1, <2>1, <2>2 DEF f
<1>5. CASE datalen = 0
  <2> DEFINE b == SubSeq(buffer, (f - 1) + 1, Len(buffer))
             l == BS!LenAt(buffer, f)
             s == f - 1
  <2>1. BS!Begun = b /\ BS!BegunLen = l
    BY <1>5 DEF BS!Begun, BS!BegunLen, BS!Past, f
  <2>2. BS!Starts(buffer) # {}
    BY <1>2, <1>5
  <2>3. /\ s \in 0..Len(buffer) /\ s + 1 = f /\ s + 2 = f + 1 /\ s + 2 <= Len(buffer)
    BY <1>1, <1>3, <2>2
  <2>4. l \in Nat /\ l = buffer[f + 1][3]
    BY <1>3, <2>2 DEF BS!LenAt
  <2>5. b = SubSeq(buffer, s + 1, Len(buffer))
    OBVIOUS
  <2> HIDE DEF b, l, s
  <2>6. /\ b \in Seq(Symbols) /\ Len(b) = Len(buffer) - s
        /\ \A i \in 1..(Len(buffer) - s) : b[i] = buffer[s + i]
    BY <1>1, <2>3, <2>5, CutAt
  <2>7. 1 \in 1..(Len(buffer) - s) /\ 2 \in 1..(Len(buffer) - s) /\ 2 <= Len(b)
    BY <1>1, <2>3, <2>6
  <2>8. b[1] = BS!Open /\ b[2][1] = "*" /\ b[2][3] = l
    BY <1>3, <2>2, <2>3, <2>4, <2>6, <2>7
  <2> DEFINE o == 1
  <2>9. o \in Nat /\ o >= 1 /\ o + 1 <= Len(b) /\ b[o] = BS!Open /\ b[o + 1][1] = "*"
    BY <2>7, <2>8
  <2> HIDE DEF o
  <2>10. o \in BS!Starts(b)
    BY <2>6, <2>9, IsStart
  <2>11. BS!LenAt(b, 1) = l
    BY <2>8 DEF BS!LenAt
  <2> QED
    BY <2>1, <2>2, <2>4, <2>6, <2>10, <2>11 DEF o, b, f
<1> QED
  BY <1>4, <1>5

LEMMA BsTurnType ==
  ASSUME BsInv, BS!Turn
  PROVE  /\ buffer' \in Seq(Symbols) /\ datalen' \in Nat /\ pc' \in {"idle", "deframe"}
         /\ "overflow" \notin lost => LengthKept' /\ (pc' = "idle" => BsSettled(buffer'))
<1> DEFINE b == BS!Begun
           l == BS!BegunLen
<1>1. /\ b \in Seq(Symbols) /\ l \in Nat
      /\ "overflow" \notin lost => 1 \in BS!Starts(b) /\ BS!LenAt(b, 1) = l
  BY BegunType
<1>2. /\ pc = "deframe"
      /\ IF Len(b) < l + 3 THEN BS!Incomplete(b, l) ELSE BS!Cut(b, l)
  BY DEF BS!Turn, BS!Overhead
<1> HIDE DEF b, l
<1>3. CASE Len(b) < l + 3
  <2>1. buffer' = b /\ datalen' = l /\ pc' = "idle"
    BY <1>2, <1>3 DEF BS!Incomplete
  <2>2. ASSUME "overflow" \notin lost PROVE LengthKept' /\ BsSettled(b)
    <3>1. 1 \in BS!Starts(b) /\ BS!LenAt(b, 1) = l
      BY <1>1, <2>2
    <3>2. LengthKept'
      BY <2>1, <3>1 DEF LengthKept
    <3>3. BS!First(b) \in Nat /\ BS!First(b) >= 1 /\ BS!First(b) <= 1
      BY <1>1, <3>1, FirstStart
    <3>4. BS!First(b) = 1
      BY <3>3
    <3> QED
      BY <1>3, <3>1, <3>2, <3>4 DEF BsSettled, BS!Overhead
  <2> QED
    BY <1>1, <2>1, <2>2
<1>4. CASE ~ (Len(b) < l + 3)
  <2>1. buffer' = SubSeq(b, (l + 3) + 1, Len(b)) /\ datalen' = 0 /\ pc' = "deframe"
    BY <1>2, <1>4 DEF BS!Cut, BS!Past, BS!Overhead
  <2> DEFINE k == l + 3
  <2>2. k \in 0..Len(b)
    BY <1>1, <1>4
  <2> HIDE DEF k
  <2>3. SubSeq(b, k + 1, Len(b)) \in Seq(Symbols)
    BY <1>1, <2>2, CutAt
  <2>4. LengthKept'
    BY <2>1 DEF LengthKept
  <2> QED
    BY <2>1, <2>3, <2>4 DEF k
<1> QED
  BY <1>3, <1>4

LEMMA BsTurnTaken ==
  ASSUME BsInv, BS!Turn, lost = {}
  PROVE  \E n \in 0..Len(items) : BsTaken(n)'
<1> DEFINE b == BS!Begun
           l == BS!BegunLen
           s == BS!First(buffer) - 1
<1>1. /\ b \in Seq(Symbols) /\ l \in Nat /\ BS!Starts(buffer) # {}
      /\ b = SubSeq(buffer, s + 1, Len(buffer))
      /\ 1 \in BS!Starts(b) /\ BS!LenAt(b, 1) = l
  BY BegunType
<1>2. /\ pc = "deframe" /\ items' = items /\ wire' = wire
      /\ IF Len(b) < l + 3 THEN BS!Incomplete(b, l) ELSE BS!Cut(b, l)
  BY DEF BS!Turn, BS!Overhead
<1>3. buffer \in Seq(Symbols) /\ wire \in Seq(Symbols) /\ items \in Seq(BsItem)
  BY DEF BsInv
<1>4. items \in Seq(Seq(Symbols)) /\ Sounds(items) \in Seq(Seq(BsItem))
      /\ Len(Sounds(items)) = Len(items)
      /\ \A k \in 1..Len(items) : Sounds(items)[k] = BS!Sound(items[k])
  BY <1>3, SoundsType
<1>5. PICK n \in 0..Len(items) : BsTaken(n)
  BY DEF BsInv
<1>6. msgs = SoundAmong(items, n) /\ Follows(items, buffer, wire, n)
  BY <1>2, <1>5 DEF BsTaken
<1>7. PICK m \in n..(Len(items) - 1) :
           /\ EndOf(items, m) = EndOf(items, n) + s
           /\ \A k \in (n + 1)..m : BsPlain(items[k])
           /\ ~BsPlain(items[m + 1])
  BY <1>1, <1>3, <1>6, FirstIsOfFrame
<1>8. s \in 0..Len(buffer)
  <2>1. BS!First(buffer) \in Nat /\ BS!First(buffer) >= 1 /\ BS!First(buffer) + 1 <= Len(buffer)
    BY <1>1, <1>3, FirstStart
  <2> QED
    BY <1>3, <2>1
<1> HIDE DEF b, l, s
<1>9. /\ m \in 0..Len(items) /\ m + 1 \in 1..Len(items) /\ m + 1 \in 0..Len(items)
      /\ (m + 1) - 1 = m /\ m \in n..Len(items) /\ items[m + 1] \in BsItem
      /\ m + 1 \in m..Len(items)
  BY <1>3
<1>10. PICK d, e : BsFrame(items[m + 1], d, e)
  BY <1>7, <1>9, BsItemsType
<1>11. Follows(items, b, wire, m)
  <2>1. Follows(items, SubSeq(buffer, s + 1, Len(buffer)), wire, m)
    BY <1>3, <1>4, <1>6, <1>7, <1>8, <1>9, FollowsCut
  <2> QED
    BY <1>1, <2>1
<1>12. SoundAmong(items, m) = msgs
  BY <1>3, <1>6, <1>7, <1>9, PlainSoundNothing
<1>13. BsFrameAt(items, b, wire, m, m, 0, d, e)
  <2>1. EndOf(items, m) \in Nat
    BY <1>4, <1>9, EndsType
  <2>2. EndOf(items, m) = EndOf(items, m) + 0 /\ m \in m..(Len(items) - 1) /\ 0 \in Nat
    BY <1>9, <2>1
  <2> QED
    BY <1>1, <1>3, <1>9, <1>10, <1>11, <2>2 DEF BsFrameAt
<1>14. /\ Len(d) \in Nat /\ Len(items[m + 1]) = Len(d) + 3
       /\ \A i \in 1..(Len(d) + 3) : 0 + i <= Len(b) => b[0 + i] = items[m + 1][i]
       /\ EndOf(items, m + 1) = EndOf(items, m) + (0 + (Len(d) + 3))
       /\ 0 + 2 <= Len(b) => BS!LenAt(b, 0 + 1) = Len(d)
  <2> DEFINE t == 0
  <2>1. BsFrameAt(items, b, wire, m, m, t, d, e)
    BY <1>13
  <2> HIDE DEF t
  <2>2. /\ Len(d) \in Nat /\ Len(items[m + 1]) = Len(d) + 3
        /\ \A i \in 1..(Len(d) + 3) : t + i <= Len(b) => b[t + i] = items[m + 1][i]
        /\ EndOf(items, m + 1) = EndOf(items, m) + (t + (Len(d) + 3))
        /\ t + 2 <= Len(b) => BS!LenAt(b, t + 1) = Len(d)
    BY <2>1, BsFrameInBuffer
  <2> QED
    BY <2>2 DEF t
<1>15. l = Len(d)
  <2>1. 0 + 2 <= Len(b)
    BY <1>1 DEF BS!Starts
  <2> QED
    BY <1>1, <1>14, <2>1
<1>16. CASE Len(b) < l + 3
  <2>1. buffer' = b /\ pc' = "idle" /\ msgs' = msgs
    BY <1>2, <1>16 DEF BS!Incomplete
  <2>2. BsTaken(m)'
    BY <1>2, <1>11, <1>12, <2>1 DEF BsTaken
  <2> QED
    BY <1>9, <2>2
<1>17. CASE ~ (Len(b) < l + 3)
  <2> DEFINE k == Len(d) + 3
             F == items[m + 1]
  <2>1. /\ buffer' = SubSeq(b, k + 1, Len(b)) /\ pc' = "deframe"
        /\ msgs' = IF b[k] = BS!End THEN Append(msgs, SubSeq(b, 1, k)) ELSE msgs
    BY <1>2, <1>15, <1>17 DEF BS!Cut, BS!Past, BS!Overhead
  <2>2. k \in 0..Len(b) /\ k >= 1 /\ k <= Len(b) /\ Len(b) \in Nat
    BY <1>1, <1>14, <1>15, <1>17
  <2>3. EndOf(items, m + 1) = EndOf(items, m) + k
    BY <1>14
  <2>4. /\ Len(F) = k /\ F \in Seq(Symbols) /\ F[k] = e
        /\ \A i \in 1..k : b[i] = F[i]
    <3>1. F \in Seq(Symbols) /\ F[k] = e /\ Len(F) = k
      BY <1>10, BsFramed
    <3>2. ASSUME NEW i \in 1..k PROVE b[i] = F[i]
      <4>1. i \in 1..(Len(d) + 3) /\ 0 + i <= Len(b) /\ 0 + i = i
        BY <2>2
      <4> QED
        BY <1>14, <4>1
    <3> QED
      BY <3>1, <3>2
  <2> HIDE DEF k, F
  <2>5. SubSeq(b, 1, k) = F
    <3> DEFINE c == SubSeq(b, 1, k)
    <3>1. c \in Seq(Symbols) /\ Len(c) = k /\ \A i \in 1..k : c[i] = b[i]
      BY <1>1, <2>2, CutAt, ZenonT(30)
    <3> HIDE DEF c
    <3>2. \A i \in 1..k : c[i] = F[i]
      BY <2>4, <3>1
    <3>3. c = F
      BY <2>4, <3>1, <3>2, SeqEqual
    <3> QED
      BY <3>3 DEF c
  <2>6. b[k] = e
    <3>1. k \in 1..k
      BY <2>2
    <3> QED
      BY <2>4, <3>1
  <2>7. Follows(items, buffer', wire, m + 1)
    <3> DEFINE j == m + 1
    <3>1. j \in m..Len(items) /\ EndOf(items, j) = EndOf(items, m) + k
      BY <1>9, <2>3
    <3> HIDE DEF j
    <3>2. Follows(items, SubSeq(b, k + 1, Len(b)), wire, j)
      BY <1>1, <1>3, <1>4, <1>9, <1>11, <2>2, <3>1, FollowsCut
    <3> QED
      BY <2>1, <3>2 DEF j
  <2>8. SoundAmong(items, m + 1) = msgs \o BS!Sound(F) /\ msgs \in Seq(BsItem)
    <3>1. /\ Heads(Sounds(items))[m + 1] = Heads(Sounds(items))[m] \o Sounds(items)[m + 1]
          /\ Heads(Sounds(items))[m] \in Seq(BsItem)
      BY <1>4, <1>9, HeadsType
    <3>2. Sounds(items)[m + 1] = BS!Sound(F)
      BY <1>4, <1>9 DEF F
    <3> QED
      BY <1>12, <3>1, <3>2 DEF SoundAmong
  <2>9. BS!Sound(F) = IF e = BS!End THEN <<F>> ELSE <<>>
    BY <1>10 DEF BsFrame, F
  <2>10. msgs' = msgs \o BS!Sound(F)
    <3>1. CASE e = BS!End
      <4>1. msgs' = Append(msgs, F) /\ BS!Sound(F) = <<F>>
        BY <2>1, <2>5, <2>6, <2>9, <3>1
      <4>2. Append(msgs, F) = msgs \o <<F>>
        BY <2>8
      <4> QED
        BY <4>1, <4>2
    <3>2. CASE e # BS!End
      <4>1. msgs' = msgs /\ BS!Sound(F) = <<>>
        BY <2>1, <2>6, <2>9, <3>2
      <4>2. msgs \o <<>> = msgs
        BY <2>8
      <4> QED
        BY <4>1, <4>2
    <3> QED
      BY <3>1, <3>2
  <2>11. BsTaken(m + 1)'
    BY <1>2, <2>1, <2>7, <2>8, <2>10 DEF BsTaken
  <2> QED
    BY <1>9, <2>11
<1> QED
  BY <1>16, <1>17

LEMMA BsStep ==
  ASSUME BsInv, BS!Next
  PROVE  BsInv'
<1>1. ASSUME NEW n \in 1..(IF Len(wire) < MaxSegment THEN Len(wire) ELSE MaxSegment),
             BS!Probe(n) \/ BS!Recv(n)
      PROVE  BsInv'
  <2>1. n \in 0..Len(wire)
    <3>1. Len(wire) \in Nat /\ MaxSegment \in Nat
      BY StreamsAssumption DEF BsInv
    <3> QED
      BY <3>1
  <2> QED
    BY <1>1, <2>1, BsProbe, BsRecv
<1>2. ASSUME BS!Turn PROVE BsInv'
  <2>1. /\ buffer' \in Seq(Symbols) /\ datalen' \in Nat /\ pc' \in {"idle", "deframe"}
        /\ "overflow" \notin lost => LengthKept' /\ (pc' = "idle" => BsSettled(buffer'))
    BY <1>2, BsTurnType
  <2>2. items' = items /\ wire' = wire /\ lost' = lost
    BY <1>2 DEF BS!Turn
  <2>3. lost' = {} => \E n \in 0..Len(items') : BsTaken(n)'
    BY <1>2, <2>2, BsTurnTaken
  <2> QED
    BY <2>1, <2>2, <2>3 DEF BsInv
<1>3. ASSUME BS!Closed PROVE BsInv'
  BY <1>3 DEF BS!Closed, BS!vars, BsInv, BsTaken, LengthKept
<1> QED
  BY <1>1, <1>2, <1>3, BsNoStart, BsClose DEF BS!Next

\* The invariant implies the property.
LEMMA BsSurvive ==
  ASSUME BsInv
  PROVE  BS!FramesSurviveSplits
<1> SUFFICES ASSUME lost = {}
             PROVE  /\ BS!IsPrefix(msgs, BS!FramesSent)
                    /\ wire = <<>> /\ pc # "deframe" => msgs = BS!FramesSent
  BY DEF BS!FramesSurviveSplits
<1>1. items \in Seq(BsItem) /\ wire \in Seq(Symbols) /\ buffer \in Seq(Symbols)
  BY DEF BsInv
<1>2. Sounds(items) \in Seq(Seq(BsItem)) /\ Len(Sounds(items)) = Len(items)
  BY <1>1, SoundsType
<1>3. BS!FramesSent = FlattenSeq(Sounds(items))
  BY SameFlatten DEF BS!FramesSent, Sounds
<1>4. FlattenSeq(Sounds(items)) = SoundAmong(items, Len(items))
  BY <1>2, HeadsType DEF SoundAmong
<1>5. PICK n \in 0..Len(items) : BsTaken(n)
  BY DEF BsInv
<1>6. msgs = SoundAmong(items, n)
  BY <1>5 DEF BsTaken
<1>7. BS!IsPrefix(msgs, BS!FramesSent)
  <2>1. n \in 0..Len(Sounds(items))
    BY <1>2
  <2>2. /\ Len(SoundAmong(items, n)) <= Len(FlattenSeq(Sounds(items)))
        /\ SoundAmong(items, n)
             = SubSeq(FlattenSeq(Sounds(items)), 1, Len(SoundAmong(items, n)))
    BY <1>2, <2>1, HeadIsPrefix DEF SoundAmong
  <2> QED
    BY <1>3, <1>6, <2>2 DEF BS!IsPrefix
<1>8. ASSUME wire = <<>>, pc # "deframe" PROVE msgs = BS!FramesSent
  <2>1. CASE pc = "closed"
    BY <1>3, <1>4, <1>5, <2>1 DEF BsTaken
  <2>2. CASE pc = "idle"
    <3>1. Follows(items, buffer, wire, n) /\ BsSettled(buffer) /\ Len(wire) = 0
      BY <1>5, <1>8, <2>2 DEF BsTaken, BsInv
    <3>2. SoundAmong(items, n) = SoundAmong(items, Len(items))
      BY <1>1, <3>1, BsNoneLeftBehind
    <3> QED
      BY <1>3, <1>4, <1>6, <3>2
  <2> QED
    BY <1>8, <2>1, <2>2 DEF BsInv
<1> QED
  BY <1>7, <1>8

LEMMA BsLength ==
  ASSUME BsInv
  PROVE  BS!LengthIsOfBuffer
<1> SUFFICES ASSUME "overflow" \notin lost, pc = "idle", datalen # 0
             PROVE  /\ 1 \in BS!Starts(buffer) /\ BS!LenAt(buffer, 1) = datalen
                    /\ Len(buffer) < datalen + BS!Overhead
  BY DEF BS!LengthIsOfBuffer
<1>1. 1 \in BS!Starts(buffer) /\ BS!LenAt(buffer, 1) = datalen
  BY DEF BsInv, LengthKept
<1>2. BsSettled(buffer)
  BY DEF BsInv
<1> QED
  BY <1>1, <1>2 DEF BsSettled

-----------------------------------------------------------------------------
(* Both deframers                                                          *)

\* FramesSurviveSplits of Streams: whatever the segments in which the bytes of a connection
\* arrive (zx303proto.py:63 and beesure.py:80), as long as none was thrown away Stream.recv
\* returns the frames sent, unchanged and in order, and all of them by the end.
THEOREM FramesReturned == Spec => []FramesSurviveSplits
<1> DEFINE Inv == (part = "zx303proto" => ZxInv) /\ (part = "beesure" => BsInv)
<1>1. Init => Inv
  BY ZxInit, BsInit DEF Init
<1>2. Inv /\ [Next]_vars => Inv'
  <2> SUFFICES ASSUME Inv, [Next]_vars PROVE Inv'
    OBVIOUS
  <2>1. CASE Zx303Step
    BY <2>1, ZxStep DEF Zx303Step
  <2>2. CASE BeesureStep
    BY <2>2, BsStep DEF BeesureStep
  <2>3. CASE UnzippedStep
    BY <2>3 DEF UnzippedStep
  <2>4. CASE UNCHANGED vars
    BY <2>4 DEF vars, deframer, unzipped, ZxInv, BsInv, Taken, BsTaken, LengthKept
  <2> QED
    BY <2>1, <2>2, <2>3, <2>4 DEF Next
<1>3. Inv => FramesSurviveSplits
  BY ZxSurvive, BsSurvive DEF FramesSurviveSplits
<1> QED
  BY <1>1, <1>2, <1>3, PTL DEF Spec

\* LengthIsOfBuffer of Streams: the length that Stream of beesure keeps from one segment to
\* the next (beesure.py:112) is never that of another packet than the one in its buffer,
\* unless data was dropped at the limit of the buffer.
THEOREM LengthStaysTrue == Spec => []LengthIsOfBuffer
<1> DEFINE Inv == part = "beesure" => BsInv
<1>1. Init => Inv
  BY BsInit DEF Init
<1>2. Inv /\ [Next]_vars => Inv'
  <2> SUFFICES ASSUME Inv, [Next]_vars, part' = "beesure" PROVE BsInv'
    OBVIOUS
  <2>1. CASE BeesureStep
    BY <2>1, BsStep DEF BeesureStep
  <2>2. CASE Zx303Step \/ UnzippedStep
    BY <2>2 DEF Zx303Step, UnzippedStep
  <2>3. CASE UNCHANGED vars
    BY <2>3 DEF vars, deframer, unzipped, BsInv, BsTaken, LengthKept
  <2> QED
    BY <2>1, <2>2, <2>3 DEF Next
<1>3. Inv => LengthIsOfBuffer
  BY BsLength DEF LengthIsOfBuffer
<1> QED
  BY <1>1, <1>2, <1>3, PTL DEF Spec

=============================================================================
