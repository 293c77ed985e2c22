---------------------------- MODULE SequenceFacts ----------------------------
(***************************************************************************)
(* Facts about natural numbers and sequences that several proof modules    *)
(* need: induction and least elements, stated over sets so that the        *)
(* provers can use them, and what FlattenSeq of SequencesExt computes, by  *)
(* way of the flattened initial pieces of its argument.                    *)
(***************************************************************************)
EXTENDS Integers, Sequences, SequencesExt, SequenceTheorems, WellFoundedInduction, TLAPS

\* A non-empty set of natural numbers has a least element.
LEMMA LeastElement ==
  ASSUME NEW T \in SUBSET Nat, T # {}
  PROVE  \E m \in T : \A k \in T : m <= k
<1> DEFINE R == OpToRel(<, Nat)
<1>1. IsWellFoundedOn(R, Nat)
  BY NatLessThanWellFounded
<1>2. \A x, y \in Nat : y < x => <<y, x>> \in R
  BY DEF OpToRel
<1> HIDE DEF R
<1>3. PICK x \in T : \A y \in T : ~ (<<y, x>> \in R)
  BY <1>1, WFMin
<1>4. \A y \in T : ~ (y < x)
  BY <1>2, <1>3
<1>5. \A y \in T : x <= y
  BY <1>4
<1> QED
  BY <1>5

\* Induction over the natural numbers, on a set.
LEMMA SetInduction ==
  ASSUME NEW S, 0 \in S, \A n \in Nat : n \in S => n + 1 \in S
  PROVE  Nat \subseteq S
<1> SUFFICES ASSUME Nat \ S # {} PROVE FALSE
  OBVIOUS
<1>1. PICK m \in Nat \ S : \A k \in Nat \ S : m <= k
  BY LeastElement
<1>2. m \in Nat /\ m # 0
  OBVIOUS
<1>3. m - 1 \in Nat /\ ~ (m <= m - 1) /\ (m - 1) + 1 = m
  BY <1>2
<1>4. m - 1 \in S
  BY <1>1, <1>3
<1> QED
  BY <1>3, <1>4

\* A non-empty set of positions of a sequence has a last one.
LEMMA LastElement ==
  ASSUME NEW n \in Nat, NEW P \in SUBSET (0..n), P # {}
  PROVE  \E m \in P : \A k \in P : k <= m
<1> DEFINE T == {n - k : k \in P}
<1>1. \A k \in P : k \in Nat /\ n - k \in Nat
  OBVIOUS
<1>2. T \in SUBSET Nat /\ T # {}
  BY <1>1
<1>3. \A k \in P : n - k \in T
  OBVIOUS
<1>4. PICK x \in T : \A y \in T : x <= y
  <2> HIDE DEF T
  <2> QED
    BY <1>2, LeastElement
<1>5. PICK m \in P : x = n - m
  BY <1>4
<1>6. \A k \in P : n - m <= n - k
  BY <1>3, <1>4, <1>5
<1> QED
  BY <1>1, <1>5, <1>6

\* The concatenation of two sequences, place by place.
LEMMA ConcatAt ==
  ASSUME NEW S, NEW s \in Seq(S), NEW t \in Seq(S)
  PROVE  /\ s \o t \in Seq(S) /\ Len(s \o t) = Len(s) + Len(t)
         /\ \A i \in 1..Len(s) : (s \o t)[i] = s[i]
         /\ \A i \in 1..Len(t) : (s \o t)[Len(s) + i] = t[i]
OBVIOUS

\* The first n of a sequence and the rest of it.
LEMMA CutAt ==
  ASSUME NEW S, NEW s \in Seq(S), NEW n \in 0..Len(s)
  PROVE  /\ SubSeq(s, 1, n) \in Seq(S) /\ Len(SubSeq(s, 1, n)) = n
         /\ \A i \in 1..n : SubSeq(s, 1, n)[i] = s[i]
         /\ SubSeq(s, n + 1, Len(s)) \in Seq(S) /\ Len(SubSeq(s, n + 1, Len(s))) = Len(s) - n
         /\ \A i \in 1..(Len(s) - n) : SubSeq(s, n + 1, Len(s))[i] = s[n + i]
         /\ SubSeq(s, 1, n) \o SubSeq(s, n + 1, Len(s)) = s
<1>1. SubSeq(s, 1, n) \in Seq(S) /\ Len(SubSeq(s, 1, n)) = n
      /\ \A i \in 1..n : SubSeq(s, 1, n)[i] = s[i]
  OBVIOUS
<1>2. SubSeq(s, n + 1, Len(s)) \in Seq(S) /\ Len(SubSeq(s, n + 1, Len(s))) = Len(s) - n
      /\ \A i \in 1..(Len(s) - n) : SubSeq(s, n + 1, Len(s))[i] = s[n + i]
  OBVIOUS
<1>3. SubSeq(s, 1, n) \o SubSeq(s, n + 1, Len(s)) = s
  <2>1. 1 \in 1..(Len(s) + 1) /\ n \in (1 - 1)..Len(s) /\ Len(s) \in n..Len(s)
    OBVIOUS
  <2> QED
    BY <2>1, ConcatAdjacentSubSeq, SubSeqFull
<1> QED
  BY <1>1, <1>2, <1>3

\* What moves from the beginning of one sequence to the end of the one before it leaves
\* their concatenation as it was.
LEMMA MoveLeft ==
  ASSUME NEW S, NEW s \in Seq(S), NEW t \in Seq(S), NEW n \in 0..Len(t)
  PROVE  /\ s \o SubSeq(t, 1, n) \in Seq(S) /\ SubSeq(t, n + 1, Len(t)) \in Seq(S)
         /\ (s \o SubSeq(t, 1, n)) \o SubSeq(t, n + 1, Len(t)) = s \o t
<1> DEFINE a == SubSeq(t, 1, n)
           b == SubSeq(t, n + 1, Len(t))
<1>1. a \in Seq(S) /\ b \in Seq(S)
  BY CutAt
<1>2. a \o b = t
  BY CutAt
<1> HIDE DEF a, b
<1>3. (s \o a) \o b = s \o (a \o b)
  BY <1>1, ConcatAssociative
<1>4. s \o a \in Seq(S)
  BY <1>1
<1>5. (s \o a) \o b = s \o t
  BY <1>2, <1>3
<1> QED
  BY <1>1, <1>4, <1>5 DEF a, b

-----------------------------------------------------------------------------
(* FlattenSeq                                                              *)

\* f[n] is the concatenation of the first n of seqs.
IsHeads(f, seqs) ==
  /\ DOMAIN f = 0..Len(seqs)
  /\ f[0] = <<>>
  /\ \A n \in 1..Len(seqs) : f[n] = f[n - 1] \o seqs[n]

Heads(seqs) == CHOOSE f : IsHeads(f, seqs)

\* Where the n-th of seqs ends in their concatenation.
EndOf(seqs, n) == Len(Heads(seqs)[n])

\* There is such a function: the recursion is well defined.
LEMMA HeadsExist ==
  ASSUME NEW S, NEW seqs \in Seq(S)
  PROVE  IsHeads(Heads(seqs), seqs)
<1> DEFINE Upto(f, n) == /\ DOMAIN f = 0..n
                         /\ f[0] = <<>>
                         /\ \A i \in 1..n : f[i] = f[i - 1] \o seqs[i]
           E == {n \in Nat : \E f : Upto(f, n)}
<1>1. 0 \in E
  <2> DEFINE e == [i \in 0..0 |-> <<>>]
  <2>1. Upto(e, 0)
    OBVIOUS
  <2> QED
    BY <2>1
<1>2. ASSUME NEW n \in Nat, n \in E PROVE n + 1 \in E
  <2>1. PICK f : Upto(f, n)
    BY <1>2
  <2> DEFINE g == [i \in 0..(n + 1) |-> IF i = n + 1 THEN f[n] \o seqs[i] ELSE f[i]]
  <2>2. DOMAIN g = 0..(n + 1) /\ g[0] = <<>>
    BY <2>1
  <2>3. ASSUME NEW i \in 1..(n + 1) PROVE g[i] = g[i - 1] \o seqs[i]
    <3>1. i - 1 \in 0..(n + 1) /\ i - 1 # n + 1 /\ i \in 0..(n + 1)
      OBVIOUS
    <3>2. g[i - 1] = f[i - 1]
      BY <3>1
    <3>3. CASE i = n + 1
      <4>1. g[i] = f[n] \o seqs[i]
        BY <3>1, <3>3
      <4>2. i - 1 = n
        BY <3>3
      <4> QED
        BY <3>2, <4>1, <4>2
    <3>4. CASE i # n + 1
      <4>1. i \in 1..n /\ g[i] = f[i]
        BY <3>1, <3>4
      <4> HIDE DEF g
      <4> QED
        BY <2>1, <3>2, <4>1
    <3> QED
      BY <3>3, <3>4
  <2>4. Upto(g, n + 1)
    BY <2>2, <2>3
  <2> QED
    BY <2>4
<1>3. Len(seqs) \in E
  <2>1. Nat \subseteq E
    <3> HIDE DEF E
    <3> QED
      BY <1>1, <1>2, SetInduction
  <2> HIDE DEF E
  <2> QED
    BY <2>1
<1>4. \E f : IsHeads(f, seqs)
  BY <1>3 DEF IsHeads
<1> QED
  BY <1>4 DEF Heads

\* The pieces are sequences, and the last of them is the whole.
LEMMA HeadsType ==
  ASSUME NEW S, NEW seqs \in Seq(Seq(S))
  PROVE  /\ \A n \in 0..Len(seqs) : Heads(seqs)[n] \in Seq(S)
         /\ Heads(seqs)[0] = <<>>
         /\ \A n \in 1..Len(seqs) : Heads(seqs)[n] = Heads(seqs)[n - 1] \o seqs[n]
         /\ FlattenSeq(seqs) = Heads(seqs)[Len(seqs)]
<1> DEFINE f == Heads(seqs)
<1>1. IsHeads(f, seqs)
  BY HeadsExist
<1> HIDE DEF f
<1>2. /\ f[0] = <<>>
      /\ \A n \in 1..Len(seqs) : f[n] = f[n - 1] \o seqs[n]
  BY <1>1 DEF IsHeads
<1> DEFINE G == {n \in Nat : n \in 0..Len(seqs) => f[n] \in Seq(S)}
<1>3. 0 \in G
  <2>1. <<>> \in Seq(S)
    OBVIOUS
  <2> QED
    BY <1>2, <2>1
<1>4. ASSUME NEW n \in Nat, n \in G PROVE n + 1 \in G
  <2> SUFFICES ASSUME n + 1 \in 0..Len(seqs) PROVE f[n + 1] \in Seq(S)
    OBVIOUS
  <2>1. n \in 0..Len(seqs) /\ n + 1 \in 1..Len(seqs) /\ (n + 1) - 1 = n
    OBVIOUS
  <2>2. f[n] \in Seq(S)
    BY <1>4, <2>1
  <2>3. seqs[n + 1] \in Seq(S)
    BY <2>1
  <2>4. f[n + 1] = f[n] \o seqs[n + 1]
    BY <1>2, <2>1
  <2> QED
    BY <2>2, <2>3, <2>4
<1>5. \A n \in 0..Len(seqs) : f[n] \in Seq(S)
  <2>1. Nat \subseteq G
    <3> HIDE DEF G
    <3> QED
      BY <1>3, <1>4, SetInduction
  <2> QED
    BY <2>1
<1>6. FlattenSeq(seqs) = f[Len(seqs)]
  <2>1. CASE Len(seqs) = 0
    BY <1>2, <2>1 DEF FlattenSeq
  <2>2. CASE Len(seqs) # 0
    <3> DEFINE Is(h) == h = [i \in 1..Len(seqs) |-> IF i = 1 THEN seqs[i] ELSE h[i - 1] \o seqs[i]]
               g == [i \in 1..Len(seqs) |-> f[i]]
    <3>1. ASSUME NEW i \in 1..Len(seqs)
          PROVE  g[i] = IF i = 1 THEN seqs[i] ELSE g[i - 1] \o seqs[i]
      <4>1. CASE i = 1
        <5>1. f[1] = f[0] \o seqs[1]
          <6>1. 1 \in 1..Len(seqs) /\ 1 - 1 = 0
            BY <4>1
          <6> QED
            BY <1>2, <6>1
        <5>2. seqs[1] \in Seq(S)
          BY <4>1
        <5>3. <<>> \o seqs[1] = seqs[1]
          BY <5>2
        <5> QED
          BY <1>2, <4>1, <5>1, <5>3
      <4>2. CASE i # 1
        <5>1. i - 1 \in 1..Len(seqs)
          BY <4>2
        <5>2. f[i] = f[i - 1] \o seqs[i]
          BY <1>2
        <5> QED
          BY <4>2, <5>1, <5>2
      <4> QED
        BY <4>1, <4>2
    <3>2. Is(g)
      BY <3>1
    <3> DEFINE h == CHOOSE h : Is(h)
    <3>3. Is(h)
      BY <3>2
    <3>4. FlattenSeq(seqs) = h[Len(seqs)]
      BY <2>2 DEF FlattenSeq
    <3> HIDE DEF h
    <3>5. \A i \in 1..Len(seqs) : h[i] = IF i = 1 THEN seqs[i] ELSE h[i - 1] \o seqs[i]
      BY <3>3
    <3> DEFINE Same == {n \in Nat : n \in 1..Len(seqs) => h[n] = g[n]}
    <3>6. 0 \in Same
      OBVIOUS
    <3>7. ASSUME NEW n \in Nat, n \in Same PROVE n + 1 \in Same
      <4> SUFFICES ASSUME n + 1 \in 1..Len(seqs) PROVE h[n + 1] = g[n + 1]
        OBVIOUS
      <4>1. CASE n = 0
        <5>1. n + 1 = 1
          BY <4>1
        <5> HIDE DEF g
        <5> QED
          BY <3>1, <3>5, <5>1
      <4>2. CASE n # 0
        <5>1. n \in 1..Len(seqs) /\ (n + 1) - 1 = n /\ n + 1 # 1
          BY <4>2
        <5>2. h[n] = g[n]
          BY <3>7, <5>1
        <5>3. h[n + 1] = h[n] \o seqs[n + 1]
          BY <3>5, <5>1
        <5>4. g[n + 1] = g[n] \o seqs[n + 1]
          <6> HIDE DEF g
          <6> QED
            BY <3>1, <5>1
        <5> QED
          BY <5>2, <5>3, <5>4
      <4> QED
        BY <4>1, <4>2
    <3>8. Len(seqs) \in Same
      <4> HIDE DEF Same
      <4>1. Nat \subseteq Same
        BY <3>6, <3>7, SetInduction
      <4> QED
        BY <4>1
    <3>9. Len(seqs) \in 1..Len(seqs)
      BY <2>2
    <3> QED
      BY <3>4, <3>8, <3>9
  <2> QED
    BY <2>1, <2>2
<1> QED
  BY <1>2, <1>5, <1>6 DEF f

\* The concatenation of sequences over a set is a sequence over it.
LEMMA FlattenType ==
  ASSUME NEW S, NEW seqs \in Seq(Seq(S))
  PROVE  FlattenSeq(seqs) \in Seq(S)
<1>1. Len(seqs) \in 0..Len(seqs)
  OBVIOUS
<1> QED
  BY <1>1, HeadsType

\* Ends of pieces.
LEMMA EndsType ==
  ASSUME NEW S, NEW seqs \in Seq(Seq(S))
  PROVE  /\ \A n \in 0..Len(seqs) : EndOf(seqs, n) \in Nat
         /\ EndOf(seqs, 0) = 0
         /\ \A n \in 1..Len(seqs) : EndOf(seqs, n) = EndOf(seqs, n - 1) + Len(seqs[n])
         /\ EndOf(seqs, Len(seqs)) = Len(FlattenSeq(seqs))
<1> DEFINE f == Heads(seqs)
<1>1. /\ \A n \in 0..Len(seqs) : f[n] \in Seq(S)
      /\ f[0] = <<>>
      /\ \A n \in 1..Len(seqs) : f[n] = f[n - 1] \o seqs[n]
      /\ FlattenSeq(seqs) = f[Len(seqs)]
  BY HeadsType
<1> HIDE DEF f
<1>2. ASSUME NEW n \in 1..Len(seqs) PROVE Len(f[n]) = Len(f[n - 1]) + Len(seqs[n])
  <2>1. n - 1 \in 0..Len(seqs)
    OBVIOUS
  <2>2. f[n - 1] \in Seq(S)
    BY <1>1, <2>1
  <2>3. seqs[n] \in Seq(S)
    OBVIOUS
  <2>4. f[n] = f[n - 1] \o seqs[n]
    BY <1>1
  <2> QED
    BY <2>2, <2>3, <2>4, ConcatAt
<1>3. \A n \in 0..Len(seqs) : Len(f[n]) \in Nat
  BY <1>1
<1> QED
  BY <1>1, <1>2, <1>3 DEF f, EndOf

\* A later prefix continues an earlier one.
LEMMA HeadsGrow ==
  ASSUME NEW S, NEW seqs \in Seq(Seq(S)), NEW n \in 0..Len(seqs), NEW m \in n..Len(seqs)
  PROVE  /\ EndOf(seqs, n) <= EndOf(seqs, m)
         /\ \A i \in 1..EndOf(seqs, n) : Heads(seqs)[m][i] = Heads(seqs)[n][i]
<1> DEFINE f == Heads(seqs)
<1>1. /\ \A k \in 0..Len(seqs) : f[k] \in Seq(S)
      /\ \A k \in 1..Len(seqs) : f[k] = f[k - 1] \o seqs[k]
  BY HeadsType
<1> HIDE DEF f
<1> DEFINE G == {k \in Nat : n + k <= Len(seqs) =>
                   /\ Len(f[n]) <= Len(f[n + k])
                   /\ \A i \in 1..Len(f[n]) : f[n + k][i] = f[n][i]}
<1>2. 0 \in G
  BY <1>1
<1>3. ASSUME NEW k \in Nat, k \in G PROVE k + 1 \in G
  <2> SUFFICES ASSUME n + (k + 1) <= Len(seqs)
               PROVE  /\ Len(f[n]) <= Len(f[n + (k + 1)])
                      /\ \A i \in 1..Len(f[n]) : f[n + (k + 1)][i] = f[n][i]
    OBVIOUS
  <2>1. /\ n + k \in 0..Len(seqs) /\ n + (k + 1) \in 1..Len(seqs) /\ (n + (k + 1)) - 1 = n + k
    OBVIOUS
  <2> DEFINE h == n + (k + 1)
  <2>2. /\ f[h - 1] \in Seq(S) /\ seqs[h] \in Seq(S) /\ f[n] \in Seq(S)
        /\ f[h] = f[h - 1] \o seqs[h] /\ h - 1 = n + k
    <3> HIDE DEF h
    <3>1. h \in 1..Len(seqs) /\ h - 1 \in 0..Len(seqs) /\ h - 1 = n + k
      BY <2>1 DEF h
    <3>2. f[h - 1] \in Seq(S) /\ f[n] \in Seq(S)
      BY <1>1, <3>1
    <3>3. seqs[h] \in Seq(S)
      BY <3>1
    <3>4. f[h] = f[h - 1] \o seqs[h]
      BY <1>1, <3>1
    <3> QED
      BY <3>1, <3>2, <3>3, <3>4
  <2>3. /\ Len(f[n]) <= Len(f[n + k])
        /\ \A i \in 1..Len(f[n]) : f[n + k][i] = f[n][i]
    BY <1>3, <2>1
  <2> HIDE DEF h
  <2>4. /\ Len(f[h]) = Len(f[h - 1]) + Len(seqs[h])
        /\ \A i \in 1..Len(f[h - 1]) : f[h][i] = f[h - 1][i]
    <3> DEFINE a == f[h - 1]
               b == seqs[h]
    <3>1. a \in Seq(S) /\ b \in Seq(S) /\ f[h] = a \o b
      BY <2>2
    <3> HIDE DEF a, b
    <3>2. Len(f[h]) = Len(a) + Len(b) /\ \A i \in 1..Len(a) : f[h][i] = a[i]
      BY <3>1, ConcatAt
    <3> QED
      BY <3>2 DEF a, b
  <2>5. Len(f[n]) \in Nat /\ Len(f[h - 1]) \in Nat /\ Len(seqs[h]) \in Nat
    BY <2>2
  <2>6. Len(f[n]) <= Len(f[h - 1]) /\ \A i \in 1..Len(f[n]) : f[h - 1][i] = f[n][i]
    BY <2>2, <2>3
  <2>7. Len(f[n]) <= Len(f[h])
    <3>1. \A a, b, c : a \in Nat /\ b \in Nat /\ c \in Nat /\ a <= b => a <= b + c
      OBVIOUS
    <3>2. Len(f[n]) <= Len(f[h - 1])
      BY <2>6
    <3>3. Len(f[n]) <= Len(f[h - 1]) + Len(seqs[h])
      BY <2>5, <3>1, <3>2
    <3>4. Len(f[h]) = Len(f[h - 1]) + Len(seqs[h])
      BY <2>4
    <3> QED
      BY <3>3, <3>4
  <2>8. ASSUME NEW i \in 1..Len(f[n]) PROVE f[h][i] = f[n][i]
    <3>1. i \in 1..Len(f[h - 1])
      BY <2>5, <2>6
    <3> QED
      BY <2>4, <2>6, <3>1
  <2> QED
    BY <2>7, <2>8 DEF h
<1>4. Nat \subseteq G
  <2> HIDE DEF G
  <2> QED
    BY <1>2, <1>3, SetInduction
<1>5. m - n \in Nat /\ n + (m - n) = m
  OBVIOUS
<1>6. m - n \in G
  BY <1>4, <1>5
<1> QED
  BY <1>5, <1>6 DEF f, EndOf

\* What stands where in a concatenation.
LEMMA FlattenAt ==
  ASSUME NEW S, NEW seqs \in Seq(Seq(S)), NEW n \in 1..Len(seqs), NEW i \in 1..Len(seqs[n])
  PROVE  /\ EndOf(seqs, n - 1) + i \in 1..Len(FlattenSeq(seqs))
         /\ FlattenSeq(seqs)[EndOf(seqs, n - 1) + i] = seqs[n][i]
<1> DEFINE f == Heads(seqs)
           j == EndOf(seqs, n - 1) + i
<1>1. /\ \A k \in 0..Len(seqs) : f[k] \in Seq(S)
      /\ f[n] = f[n - 1] \o seqs[n]
      /\ FlattenSeq(seqs) = f[Len(seqs)]
  BY HeadsType
<1>2. EndOf(seqs, n) <= EndOf(seqs, Len(seqs))
      /\ \A k \in 1..EndOf(seqs, n) : f[Len(seqs)][k] = f[n][k]
  BY HeadsGrow
<1>3. /\ EndOf(seqs, n - 1) \in Nat /\ EndOf(seqs, n) \in Nat /\ EndOf(seqs, Len(seqs)) \in Nat
      /\ EndOf(seqs, n) = EndOf(seqs, n - 1) + Len(seqs[n])
      /\ EndOf(seqs, Len(seqs)) = Len(FlattenSeq(seqs))
  BY EndsType
<1>4. seqs[n] \in Seq(S) /\ n - 1 \in 0..Len(seqs)
  OBVIOUS
<1>5. j \in 1..EndOf(seqs, n)
  BY <1>3, <1>4
<1>6. f[n - 1] \in Seq(S) /\ Len(f[n - 1]) = EndOf(seqs, n - 1)
  BY <1>1, <1>4 DEF EndOf
<1> HIDE DEF f
<1>7. f[n][j] = seqs[n][i]
  <2> DEFINE a == f[n - 1]
             b == seqs[n]
  <2>1. a \in Seq(S) /\ b \in Seq(S) /\ f[n] = a \o b /\ Len(a) = EndOf(seqs, n - 1)
    BY <1>1, <1>4, <1>6
  <2>2. i \in 1..Len(b) /\ b[i] = seqs[n][i]
    OBVIOUS
  <2> HIDE DEF a, b
  <2>3. (a \o b)[Len(a) + i] = b[i]
    BY <2>1, <2>2, ConcatAt, SMTT(30)
  <2> QED
    BY <2>1, <2>2, <2>3
<1>8. j \in 1..EndOf(seqs, Len(seqs))
  BY <1>2, <1>3, <1>5
<1> QED
  BY <1>1, <1>2, <1>3, <1>5, <1>7, <1>8

\* Every place of a concatenation is in one of the pieces.
LEMMA FlattenLocate ==
  ASSUME NEW S, NEW seqs \in Seq(Seq(S)), NEW j \in 1..Len(FlattenSeq(seqs))
  PROVE  \E n \in 1..Len(seqs) : /\ EndOf(seqs, n - 1) < j /\ j <= EndOf(seqs, n)
                                 /\ j - EndOf(seqs, n - 1) \in 1..Len(seqs[n])
<1> DEFINE T == {n \in 0..Len(seqs) : j <= EndOf(seqs, n)}
<1>1. /\ \A n \in 0..Len(seqs) : EndOf(seqs, n) \in Nat
      /\ EndOf(seqs, 0) = 0
      /\ \A n \in 1..Len(seqs) : EndOf(seqs, n) = EndOf(seqs, n - 1) + Len(seqs[n])
      /\ EndOf(seqs, Len(seqs)) = Len(FlattenSeq(seqs))
  BY EndsType
<1>2. T \in SUBSET Nat
  OBVIOUS
<1>3. Len(seqs) \in T
  BY <1>1
<1>4. PICK n \in T : \A k \in T : n <= k
  <2> HIDE DEF T
  <2> QED
    BY <1>2, <1>3, LeastElement
<1>5. n \in 0..Len(seqs) /\ j <= EndOf(seqs, n) /\ n # 0
  BY <1>1
<1>6. n - 1 \in 0..Len(seqs) /\ ~ (n <= n - 1) /\ n \in 1..Len(seqs)
  BY <1>5
<1>7. n - 1 \notin T
  BY <1>4, <1>6
<1>8. EndOf(seqs, n - 1) < j
  <2>1. ~ (j <= EndOf(seqs, n - 1)) /\ EndOf(seqs, n - 1) \in Nat
    BY <1>1, <1>6, <1>7
  <2> QED
    BY <2>1
<1>9. EndOf(seqs, n) = EndOf(seqs, n - 1) + Len(seqs[n]) /\ Len(seqs[n]) \in Nat
  BY <1>1, <1>6
<1>10. EndOf(seqs, n - 1) \in Nat
  BY <1>1, <1>6
<1>11. j - EndOf(seqs, n - 1) \in 1..Len(seqs[n])
  BY <1>5, <1>8, <1>9, <1>10
<1> QED
  BY <1>5, <1>6, <1>8, <1>11

\* Pieces that are empty change nothing.
LEMMA HeadsSame ==
  ASSUME NEW S, NEW seqs \in Seq(Seq(S)), NEW n \in 0..Len(seqs), NEW m \in n..Len(seqs),
         \A k \in (n + 1)..m : seqs[k] = <<>>
  PROVE  Heads(seqs)[m] = Heads(seqs)[n]
<1> DEFINE f == Heads(seqs)
<1>1. /\ \A k \in 0..Len(seqs) : f[k] \in Seq(S)
      /\ \A k \in 1..Len(seqs) : f[k] = f[k - 1] \o seqs[k]
  BY HeadsType
<1> HIDE DEF f
<1> DEFINE G == {k \in Nat : n + k <= m => f[n + k] = f[n]}
<1>2. 0 \in G
  OBVIOUS
<1>3. ASSUME NEW k \in Nat, k \in G PROVE k + 1 \in G
  <2> SUFFICES ASSUME n + (k + 1) <= m PROVE f[n + (k + 1)] = f[n]
    OBVIOUS
  <2> DEFINE h == n + (k + 1)
  <2>1. /\ h \in (n + 1)..m /\ h \in 1..Len(seqs) /\ h - 1 = n + k /\ n + k <= m
        /\ n + k \in 0..Len(seqs)
    OBVIOUS
  <2>2. f[n + k] = f[n] /\ f[n + k] \in Seq(S)
    BY <1>1, <1>3, <2>1
  <2> HIDE DEF h
  <2>3. f[h] = f[n + k] \o <<>>
    BY <1>1, <2>1
  <2>4. f[n + k] \o <<>> = f[n + k]
    BY <2>2
  <2> QED
    BY <2>2, <2>3, <2>4 DEF h
<1>4. Nat \subseteq G
  <2> HIDE DEF G
  <2> QED
    BY <1>2, <1>3, SetInduction
<1>5. m - n \in Nat /\ n + (m - n) = m
  OBVIOUS
<1>6. m - n \in G
  BY <1>4, <1>5
<1>7. f[m] = f[n]
  BY <1>5, <1>6
<1> QED
  BY <1>7 DEF f

\* The flattened initial pieces are prefixes of the whole.
LEMMA HeadIsPrefix ==
  ASSUME NEW S, NEW seqs \in Seq(Seq(S)), NEW n \in 0..Len(seqs)
  PROVE  /\ Heads(seqs)[n] \in Seq(S)
         /\ Len(Heads(seqs)[n]) <= Len(FlattenSeq(seqs))
         /\ Heads(seqs)[n] = SubSeq(FlattenSeq(seqs), 1, Len(Heads(seqs)[n]))
<1> DEFINE a == Heads(seqs)[n]
           all == Heads(seqs)[Len(seqs)]
<1>1. n \in 0..Len(seqs) /\ Len(seqs) \in 0..Len(seqs) /\ Len(seqs) \in n..Len(seqs)
  OBVIOUS
<1>2. a \in Seq(S) /\ all \in Seq(S) /\ FlattenSeq(seqs) = all
  BY <1>1, HeadsType
<1>3. Len(a) <= Len(all) /\ \A i \in 1..Len(a) : all[i] = a[i]
  BY <1>1, HeadsGrow DEF EndOf
<1> HIDE DEF a, all
<1>4. a = SubSeq(all, 1, Len(a))
  <2> DEFINE c == SubSeq(all, 1, Len(a))
  <2>1. Len(a) \in 0..Len(all)
    BY <1>2, <1>3
  <2>2. c \in Seq(S) /\ Len(c) = Len(a) /\ \A i \in 1..Len(a) : c[i] = all[i]
    BY <1>2, <2>1, CutAt
  <2> HIDE DEF c
  <2>3. a = c
    BY <1>2, <1>3, <2>2, SeqEqual
  <2> QED
    BY <2>3 DEF c
<1> QED
  BY <1>2, <1>3, <1>4 DEF a

=============================================================================
