------------------------- MODULE SegmentFile_proofs ---------------------------
(***************************************************************************)
(* Theorems about SegmentFile: for any memories, documents and exports,    *)
(* what the log's lines and the segment file give back, and what a damaged *)
(* file does not.                                                          *)
(***************************************************************************)
EXTENDS SegmentFile, FiniteSetTheorems, WellFoundedInduction, TLAPS

-----------------------------------------------------------------------------
(* Sequences, of whatever they hold. *)

\* What holds of 0, and of n + 1 where it holds of n, holds of every number.
LEMMA Induction ==
    ASSUME NEW H \in SUBSET Nat, 0 \in H, \A n \in H : n + 1 \in H
    PROVE  H = Nat
<1> SUFFICES ASSUME Nat \ H # {}  PROVE FALSE
  OBVIOUS
<1> DEFINE R == OpToRel(<, Nat)
<1>1. \E m \in Nat \ H : \A n \in Nat \ H : ~(<<n, m>> \in R)
  BY NatLessThanWellFounded, WFMin
<1>2. \A m, n \in Nat : <<n, m>> \in R <=> n < m
  BY DEF OpToRel
<1> HIDE DEF R
<1>3. PICK m \in Nat \ H : \A n \in Nat \ H : ~(<<n, m>> \in R)
  BY <1>1
<1>4. \A n \in Nat \ H : ~(n < m)
  BY <1>2, <1>3
<1>5. m # 0 /\ m - 1 \in Nat
  BY <1>3
<1>6. m - 1 \in H
  BY <1>3, <1>4, <1>5
<1> QED  BY <1>3, <1>5, <1>6

IsSeq(s) == s \in Seq(Range(s))

LEMMA TypedIsSeq ==
    ASSUME NEW S, NEW s \in Seq(S)
    PROVE  IsSeq(s)
<1>1. Len(s) \in Nat /\ s \in [1 .. Len(s) -> S] /\ DOMAIN s = 1 .. Len(s)
  OBVIOUS
<1>2. \A i \in 1 .. Len(s) : s[i] \in Range(s)
  BY <1>1 DEF Range
<1>3. PICK T : T = Range(s)
  OBVIOUS
<1>4. s \in [1 .. Len(s) -> T]
  BY <1>1, <1>2, <1>3
<1>5. s \in Seq(T)
  BY <1>1, <1>4
<1> QED  BY <1>3, <1>5 DEF IsSeq

LEMMA SeqFacts ==
    ASSUME NEW s, IsSeq(s)
    PROVE  /\ Len(s) \in Nat
           /\ DOMAIN s = 1 .. Len(s)
           /\ s = [i \in 1 .. Len(s) |-> s[i]]
BY DEF IsSeq

LEMMA SeqFrom ==
    ASSUME NEW n \in Nat, NEW s, s = [i \in 1 .. n |-> s[i]]
    PROVE  IsSeq(s) /\ Len(s) = n
<1>1. DOMAIN s = 1 .. n
  OBVIOUS
<1>2. \A i \in 1 .. n : s[i] \in Range(s)
  BY <1>1 DEF Range
<1>3. s \in [1 .. n -> Range(s)]
  BY <1>2
<1> QED  BY <1>3 DEF IsSeq

LEMMA SameSeq ==
    ASSUME NEW s, NEW t, IsSeq(s), IsSeq(t), Len(s) = Len(t),
           \A i \in 1 .. Len(s) : s[i] = t[i]
    PROVE  s = t
<1>1. s = [i \in 1 .. Len(s) |-> s[i]] /\ t = [i \in 1 .. Len(s) |-> t[i]]
  BY SeqFacts
<1>2. [i \in 1 .. Len(s) |-> s[i]] = [i \in 1 .. Len(s) |-> t[i]]
  OBVIOUS
<1> QED  BY <1>1, <1>2

\* Membership of a sequence in Seq(S) from that of its elements.
LEMMA SeqInto ==
    ASSUME NEW S, NEW s, IsSeq(s), \A i \in 1 .. Len(s) : s[i] \in S
    PROVE  s \in Seq(S)
<1>1. Len(s) \in Nat /\ s = [i \in 1 .. Len(s) |-> s[i]]
  BY SeqFacts
<1>2. s \in [1 .. Len(s) -> S]
  BY <1>1
<1> QED  BY <1>1, <1>2

Joined(s, t) == s \o t

LEMMA JoinedSeq ==
    ASSUME NEW s, NEW t, IsSeq(s), IsSeq(t)
    PROVE  /\ IsSeq(Joined(s, t))
           /\ Len(Joined(s, t)) = Len(s) + Len(t)
<1> DEFINE S == Range(s) \cup Range(t)
<1>1. s \in Seq(S) /\ t \in Seq(S)
  <2>1. Len(s) \in Nat /\ Len(t) \in Nat
    BY SeqFacts
  <2>2. \A i \in 1 .. Len(s) : s[i] \in S
    BY SeqFacts DEF Range
  <2>3. \A i \in 1 .. Len(t) : t[i] \in S
    BY SeqFacts DEF Range
  <2> HIDE DEF S
  <2> QED  BY <2>2, <2>3, SeqInto
<1> HIDE DEF S
<1>2. Joined(s, t) \in Seq(S)
  BY <1>1 DEF Joined
<1>3. IsSeq(Joined(s, t))
  BY <1>2, TypedIsSeq
<1> QED  BY <1>1, <1>3 DEF Joined

LEMMA JoinedAt ==
    ASSUME NEW s, NEW t, IsSeq(s), IsSeq(t)
    PROVE  /\ \A i \in 1 .. Len(s) : Joined(s, t)[i] = s[i]
           /\ \A i \in 1 .. Len(t) : Joined(s, t)[Len(s) + i] = t[i]
<1>1. Len(s) \in Nat /\ Len(t) \in Nat
  BY SeqFacts
<1>2. \A i \in 1 .. Len(s) + Len(t) :
          Joined(s, t)[i] = IF i <= Len(s) THEN s[i] ELSE t[i - Len(s)]
  BY <1>1 DEF Joined, IsSeq
<1>3. ASSUME NEW i \in 1 .. Len(s)  PROVE Joined(s, t)[i] = s[i]
  BY <1>1, <1>2
<1>4. ASSUME NEW i \in 1 .. Len(t)  PROVE Joined(s, t)[Len(s) + i] = t[i]
  <2>1. PICK j : j = Len(s) + i
    OBVIOUS
  <2>2. j \in 1 .. Len(s) + Len(t) /\ ~(j <= Len(s)) /\ j - Len(s) = i
    BY <1>1, <2>1
  <2> QED  BY <1>2, <2>1, <2>2
<1> QED  BY <1>3, <1>4

LEMMA NoneJoined ==
    ASSUME NEW s, IsSeq(s)
    PROVE  Joined(<<>>, s) = s
<1>1. IsSeq(<<>>) /\ Len(<<>>) = 0
  BY DEF IsSeq
<1>2. IsSeq(Joined(<<>>, s)) /\ Len(Joined(<<>>, s)) = Len(s) /\ Len(s) \in Nat
  BY <1>1, JoinedSeq, SeqFacts
<1>3. \A i \in 1 .. Len(s) : Joined(<<>>, s)[i] = s[i]
  <2>1. \A i \in 1 .. Len(s) : Joined(<<>>, s)[Len(<<>>) + i] = s[i]
    BY <1>1, JoinedAt
  <2> QED  BY <1>1, <1>2, <2>1
<1> QED  BY <1>2, <1>3, SameSeq

LEMMA PartSeq ==
    ASSUME NEW s, IsSeq(s), NEW m \in 1 .. Len(s) + 1, NEW n \in 0 .. Len(s), m <= n + 1
    PROVE  /\ IsSeq(SubSeq(s, m, n))
           /\ Len(SubSeq(s, m, n)) = n - m + 1
           /\ \A i \in 1 .. n - m + 1 : SubSeq(s, m, n)[i] = s[m + i - 1]
<1>1. Len(s) \in Nat
  BY SeqFacts
<1>2. SubSeq(s, m, n) \in Seq(Range(s))
  BY <1>1 DEF IsSeq
<1>3. IsSeq(SubSeq(s, m, n))
  BY <1>2, TypedIsSeq
<1> QED  BY <1>1, <1>3 DEF IsSeq

-----------------------------------------------------------------------------
(* FlattenSeq.  Its recursive function gives the concatenation of the first *)
(* pieces; the i-th piece lies where the pieces before it end.              *)

FlatAt(ss, f, i) == IF i = 1 THEN ss[i] ELSE Joined(f[i - 1], ss[i])

IsFlat(ss, f) == f = [i \in 1 .. Len(ss) |-> FlatAt(ss, f, i)]

Flat(ss) == CHOOSE f : IsFlat(ss, f)

LEMMA FlattenIsFlat ==
    ASSUME NEW ss
    PROVE  FlattenSeq(ss) = IF Len(ss) = 0 THEN ss ELSE Flat(ss)[Len(ss)]
BY Zenon DEF FlattenSeq, Flat, IsFlat, FlatAt, Joined

\* The recursion is well founded.
LEMMA FlatIsFlat ==
    ASSUME NEW ss, Len(ss) \in Nat
    PROVE  \A i \in 1 .. Len(ss) : Flat(ss)[i] = FlatAt(ss, Flat(ss), i)
<1> DEFINE N == Len(ss)
           Good(f, n) == \A i \in 1 .. N : i <= n => f[i] = FlatAt(ss, f, i)
           H == {n \in Nat : \E f : f = [i \in 1 .. N |-> f[i]] /\ Good(f, n)}
<1>0. N \in Nat
  OBVIOUS
<1> HIDE DEF N
<1>1. 0 \in H
  <2> DEFINE f == [i \in 1 .. N |-> 0]
  <2>1. Good(f, 0)
    BY <1>0
  <2> QED  BY <2>1
<1>2. \A n \in H : n + 1 \in H
  <2> TAKE n \in H
  <2>1. PICK f : f = [i \in 1 .. N |-> f[i]] /\ Good(f, n)
    OBVIOUS
  <2> DEFINE g == [i \in 1 .. N |-> IF i <= n THEN f[i] ELSE FlatAt(ss, f, i)]
  <2>2. Good(g, n + 1)
    <3> SUFFICES ASSUME NEW i \in 1 .. N, i <= n + 1  PROVE g[i] = FlatAt(ss, g, i)
      OBVIOUS
    <3>1. g[i] = FlatAt(ss, f, i)
      BY <2>1
    <3>2. i # 1 => i - 1 \in 1 .. N /\ i - 1 <= n
      BY <1>0
    <3>3. i # 1 => g[i - 1] = f[i - 1]
      BY <3>2
    <3> HIDE DEF g
    <3> QED  BY <3>1, <3>3 DEF FlatAt
  <2>3. g = [i \in 1 .. N |-> g[i]]
    OBVIOUS
  <2> HIDE DEF g, Good
  <2>4. \E h : h = [i \in 1 .. N |-> h[i]] /\ Good(h, n + 1)
    BY <2>2, <2>3, Zenon
  <2>5. n + 1 \in Nat
    OBVIOUS
  <2> QED  BY <2>4, <2>5, Zenon
<1>3. N \in H
  <2>1. H \in SUBSET Nat
    OBVIOUS
  <2> HIDE DEF H
  <2>2. H = Nat
    BY <1>1, <1>2, <2>1, Induction
  <2> QED  BY <1>0, <2>2
<1>4. PICK f : f = [i \in 1 .. N |-> f[i]] /\ Good(f, N)
  BY <1>3
<1>5. \A i \in 1 .. N : f[i] = FlatAt(ss, f, i)
  BY <1>0, <1>4
<1>6. IsFlat(ss, f)
  BY <1>4, <1>5, Zenon DEF IsFlat, N
<1>7. IsFlat(ss, Flat(ss))
  BY <1>6, Zenon DEF Flat
<1> DEFINE m == Flat(ss)
<1> HIDE DEF m
<1>8. \A i \in 1 .. Len(ss) : m[i] = FlatAt(ss, m, i)
  BY <1>7, Zenon DEF IsFlat, m
<1> QED  BY <1>8 DEF m

\* The first i pieces together.
FirstPieces(ss, i) == IF i = 0 THEN <<>> ELSE Flat(ss)[i]

Pieces(ss) == IsSeq(ss) /\ \A i \in 1 .. Len(ss) : IsSeq(ss[i])

LEMMA FlattenAll ==
    ASSUME NEW ss, Pieces(ss)
    PROVE  FlattenSeq(ss) = FirstPieces(ss, Len(ss))
<1>1. Len(ss) = 0 => ss = <<>>
  <2>1. IsSeq(<<>>) /\ Len(<<>>) = 0
    BY DEF IsSeq
  <2> QED  BY <2>1, SameSeq DEF Pieces
<1> QED  BY <1>1, FlattenIsFlat DEF FirstPieces

LEMMA FirstPiecesSeq ==
    ASSUME NEW ss, Pieces(ss)
    PROVE  \A i \in 0 .. Len(ss) : IsSeq(FirstPieces(ss, i))
<1> DEFINE H == {n \in Nat : n <= Len(ss) => IsSeq(FirstPieces(ss, n))}
<1>0. Len(ss) \in Nat
  BY SeqFacts DEF Pieces
<1>1. 0 \in H
  <2>1. IsSeq(<<>>)
    BY DEF IsSeq
  <2> QED  BY <2>1 DEF FirstPieces
<1>2. \A n \in H : n + 1 \in H
  <2> SUFFICES ASSUME NEW n \in H, n + 1 <= Len(ss)
               PROVE  IsSeq(FirstPieces(ss, n + 1))
    OBVIOUS
  <2>1. n + 1 \in 1 .. Len(ss) /\ n + 1 # 0 /\ IsSeq(FirstPieces(ss, n))
    BY <1>0
  <2>2. IsSeq(ss[n + 1])
    BY <2>1 DEF Pieces
  <2>3. FirstPieces(ss, n + 1) = FlatAt(ss, Flat(ss), n + 1)
    BY <1>0, <2>1, FlatIsFlat DEF FirstPieces
  <2>4. CASE n = 0
    BY <2>2, <2>3, <2>4 DEF FlatAt
  <2>5. CASE n # 0
    <3>1. FirstPieces(ss, n + 1) = Joined(FirstPieces(ss, n), ss[n + 1])
      BY <2>3, <2>5 DEF FlatAt, FirstPieces
    <3> QED  BY <2>1, <2>2, <3>1, JoinedSeq
  <2> QED  BY <2>4, <2>5
<1>3. H = Nat
  <2>1. H \in SUBSET Nat
    OBVIOUS
  <2> HIDE DEF H
  <2> QED  BY <1>1, <1>2, <2>1, Induction
<1> QED  BY <1>0, <1>3

LEMMA NextPiece ==
    ASSUME NEW ss, Pieces(ss), NEW i \in 1 .. Len(ss)
    PROVE  FirstPieces(ss, i) = Joined(FirstPieces(ss, i - 1), ss[i])
<1>0. Len(ss) \in Nat /\ IsSeq(ss[i])
  BY SeqFacts DEF Pieces
<1>1. FirstPieces(ss, i) = FlatAt(ss, Flat(ss), i)
  BY <1>0, FlatIsFlat DEF FirstPieces
<1>2. CASE i = 1
  <2>1. FirstPieces(ss, i - 1) = <<>> /\ FirstPieces(ss, i) = ss[i]
    BY <1>1, <1>2 DEF FirstPieces, FlatAt
  <2> QED  BY <1>0, <2>1, NoneJoined
<1>3. CASE i # 1
  <2>1. i - 1 # 0
    BY <1>0, <1>3
  <2> QED  BY <1>1, <1>3, <2>1 DEF FlatAt, FirstPieces
<1> QED  BY <1>2, <1>3

LEMMA SameFirstPieces ==
    ASSUME NEW ss, NEW tt, Pieces(ss), Pieces(tt), NEW m \in Nat,
           m <= Len(ss), m <= Len(tt), \A i \in 1 .. m : ss[i] = tt[i]
    PROVE  FirstPieces(ss, m) = FirstPieces(tt, m)
<1> DEFINE H == {n \in Nat : n <= m => FirstPieces(ss, n) = FirstPieces(tt, n)}
<1>0. Len(ss) \in Nat /\ Len(tt) \in Nat
  BY SeqFacts DEF Pieces
<1>1. 0 \in H
  BY DEF FirstPieces
<1>2. \A n \in H : n + 1 \in H
  <2> SUFFICES ASSUME NEW n \in H, n + 1 <= m
               PROVE  FirstPieces(ss, n + 1) = FirstPieces(tt, n + 1)
    OBVIOUS
  <2>1. PICK j \in Nat : j = n + 1
    OBVIOUS
  <2>2. /\ j \in 1 .. m /\ j \in 1 .. Len(ss) /\ j \in 1 .. Len(tt) /\ j - 1 = n
        /\ FirstPieces(ss, n) = FirstPieces(tt, n)
    BY <1>0, <2>1
  <2>3. FirstPieces(ss, j) = Joined(FirstPieces(ss, j - 1), ss[j])
    BY <2>2, NextPiece
  <2>4. FirstPieces(tt, j) = Joined(FirstPieces(tt, j - 1), tt[j])
    BY <2>2, NextPiece
  <2> QED  BY <2>1, <2>2, <2>3, <2>4
<1>3. H = Nat
  <2>1. H \in SUBSET Nat
    OBVIOUS
  <2> HIDE DEF H
  <2> QED  BY <1>1, <1>2, <2>1, Induction
<1> QED  BY <1>3

\* Where the i-th piece begins.
Offset(ss, i) == Len(FirstPieces(ss, i - 1))

PieceIn(whole, ss, i) ==
    /\ Offset(ss, i) + Len(ss[i]) <= Len(whole)
    /\ \A k \in 1 .. Len(ss[i]) : whole[Offset(ss, i) + k] = ss[i][k]

LEMMA OffsetType ==
    ASSUME NEW ss, Pieces(ss), NEW i \in 1 .. Len(ss)
    PROVE  Offset(ss, i) \in Nat /\ Len(ss[i]) \in Nat
<1>1. Len(ss) \in Nat /\ i - 1 \in 0 .. Len(ss)
  BY SeqFacts DEF Pieces
<1>2. IsSeq(FirstPieces(ss, i - 1)) /\ IsSeq(ss[i])
  BY <1>1, FirstPiecesSeq DEF Pieces
<1> QED  BY <1>2, SeqFacts DEF Offset

\* What is appended leaves the pieces where they are.
LEMMA PieceStays ==
    ASSUME NEW ss, Pieces(ss), NEW i \in 1 .. Len(ss), NEW s, NEW t, IsSeq(s), IsSeq(t),
           PieceIn(s, ss, i)
    PROVE  PieceIn(Joined(s, t), ss, i)
<1>1. /\ Offset(ss, i) \in Nat /\ Len(ss[i]) \in Nat /\ Len(s) \in Nat /\ Len(t) \in Nat
      /\ Len(Joined(s, t)) = Len(s) + Len(t)
  BY OffsetType, SeqFacts, JoinedSeq
<1>2. ASSUME NEW k \in 1 .. Len(ss[i])
      PROVE  Joined(s, t)[Offset(ss, i) + k] = ss[i][k]
  <2>1. Offset(ss, i) + k \in 1 .. Len(s) /\ s[Offset(ss, i) + k] = ss[i][k]
    BY <1>1 DEF PieceIn
  <2> QED  BY <2>1, JoinedAt
<1> QED  BY <1>1, <1>2 DEF PieceIn

LEMMA PieceAt ==
    ASSUME NEW ss, Pieces(ss), NEW m \in 0 .. Len(ss), NEW i \in 1 .. m
    PROVE  PieceIn(FirstPieces(ss, m), ss, i)
<1> DEFINE H == {n \in Nat : n <= Len(ss) => \A j \in 1 .. n : PieceIn(FirstPieces(ss, n), ss, j)}
<1>0. Len(ss) \in Nat
  BY SeqFacts DEF Pieces
<1>1. 0 \in H
  OBVIOUS
<1>2. \A n \in H : n + 1 \in H
  <2> SUFFICES ASSUME NEW n \in H, n + 1 <= Len(ss), NEW j \in 1 .. n + 1
               PROVE  PieceIn(FirstPieces(ss, n + 1), ss, j)
    OBVIOUS
  <2>1. PICK h \in Nat : h = n + 1
    OBVIOUS
  <2>2. PICK s, t : s = FirstPieces(ss, n) /\ t = ss[h]
    OBVIOUS
  <2>3. h \in 1 .. Len(ss) /\ h - 1 = n /\ n \in 0 .. Len(ss) /\ j \in 1 .. Len(ss)
    BY <1>0, <2>1
  <2>4. IsSeq(s) /\ IsSeq(t)
    BY <2>2, <2>3, FirstPiecesSeq DEF Pieces
  <2>5. FirstPieces(ss, h) = Joined(s, t)
    BY <2>2, <2>3, NextPiece
  <2>6. CASE j \in 1 .. n
    <3>1. PieceIn(s, ss, j)
      BY <1>0, <2>2, <2>3, <2>6
    <3> QED  BY <2>1, <2>3, <2>4, <2>5, <3>1, PieceStays
  <2>7. CASE j = h
    <3>1. Offset(ss, j) = Len(s) /\ ss[j] = t
      BY <2>2, <2>3, <2>7 DEF Offset
    <3>2. Len(Joined(s, t)) = Len(s) + Len(t) /\ Len(s) \in Nat /\ Len(t) \in Nat
      BY <2>4, JoinedSeq, SeqFacts
    <3>3. \A k \in 1 .. Len(t) : Joined(s, t)[Len(s) + k] = t[k]
      BY <2>4, JoinedAt
    <3> QED  BY <2>1, <2>5, <3>1, <3>2, <3>3 DEF PieceIn
  <2> QED  BY <2>1, <2>6, <2>7
<1>3. H = Nat
  <2>1. H \in SUBSET Nat
    OBVIOUS
  <2> HIDE DEF H
  <2> QED  BY <1>1, <1>2, <2>1, Induction
<1> QED  BY <1>0, <1>3

LEMMA FlattenPieces ==
    ASSUME NEW ss, Pieces(ss)
    PROVE  /\ IsSeq(FlattenSeq(ss))
           /\ \A i \in 1 .. Len(ss) : PieceIn(FlattenSeq(ss), ss, i)
<1>1. Len(ss) \in Nat /\ FlattenSeq(ss) = FirstPieces(ss, Len(ss)) /\ Len(ss) \in 0 .. Len(ss)
  BY SeqFacts, FlattenAll DEF Pieces
<1> QED  BY <1>1, FirstPiecesSeq, PieceAt

\* A flattened beginning ends where the next piece begins.
LEMMA OffsetIsLength ==
    ASSUME NEW ss, NEW tt, Pieces(ss), Pieces(tt), NEW i \in 1 .. Len(ss),
           Len(tt) = i - 1, \A j \in 1 .. i - 1 : tt[j] = ss[j]
    PROVE  Len(FlattenSeq(tt)) = Offset(ss, i)
<1>1. PICK m : m = i - 1
  OBVIOUS
<1>2. Len(ss) \in Nat /\ m \in Nat /\ m <= Len(ss) /\ m <= Len(tt)
  BY <1>1, SeqFacts DEF Pieces
<1>3. FirstPieces(tt, m) = FirstPieces(ss, m)
  BY <1>1, <1>2, SameFirstPieces
<1>4. FlattenSeq(tt) = FirstPieces(tt, m)
  BY <1>1, FlattenAll
<1> QED  BY <1>1, <1>3, <1>4 DEF Offset

\* Rows of one length.
LEMMA RowsLength ==
    ASSUME NEW ss, Pieces(ss), NEW w \in Nat, \A i \in 1 .. Len(ss) : Len(ss[i]) = w
    PROVE  \A n \in 0 .. Len(ss) : Len(FirstPieces(ss, n)) = n * w
<1> DEFINE H == {n \in Nat : n <= Len(ss) => Len(FirstPieces(ss, n)) = n * w}
<1>0. Len(ss) \in Nat
  BY SeqFacts DEF Pieces
<1>1. 0 \in H
  <2>1. Len(<<>>) = 0 /\ 0 * w = 0
    OBVIOUS
  <2> QED  BY <2>1 DEF FirstPieces
<1>2. \A n \in H : n + 1 \in H
  <2> SUFFICES ASSUME NEW n \in H, n + 1 <= Len(ss)
               PROVE  Len(FirstPieces(ss, n + 1)) = (n + 1) * w
    OBVIOUS
  <2>1. PICK h \in Nat : h = n + 1
    OBVIOUS
  <2>2. PICK s, t : s = FirstPieces(ss, n) /\ t = ss[h]
    OBVIOUS
  <2>3. h \in 1 .. Len(ss) /\ h - 1 = n /\ n \in 0 .. Len(ss)
    BY <1>0, <2>1
  <2>4. IsSeq(s) /\ IsSeq(t) /\ Len(s) = n * w /\ Len(t) = w
    BY <1>0, <2>2, <2>3, FirstPiecesSeq DEF Pieces
  <2>5. FirstPieces(ss, h) = Joined(s, t)
    BY <2>2, <2>3, NextPiece
  <2>6. Len(Joined(s, t)) = n * w + w
    BY <2>4, JoinedSeq
  <2>7. (n + 1) * w = n * w + w
    OBVIOUS
  <2> QED  BY <2>1, <2>5, <2>6, <2>7
<1>3. H = Nat
  <2>1. H \in SUBSET Nat
    OBVIOUS
  <2> HIDE DEF H
  <2> QED  BY <1>1, <1>2, <2>1, Induction
<1> QED  BY <1>0, <1>3

-----------------------------------------------------------------------------
(* A strict order R of a finite set S numbers its members.                 *)

Ordering(S, R) ==
    /\ \A x \in S : <<x, x>> \notin R
    /\ \A x, y, z \in S : <<x, y>> \in R /\ <<y, z>> \in R => <<x, z>> \in R
    /\ \A x, y \in S : x # y => <<x, y>> \in R \/ <<y, x>> \in R

Lower(S, R, x) == {y \in S : <<y, x>> \in R}
Height(S, R, x) == Cardinality(Lower(S, R, x))

LEMMA HeightType ==
    ASSUME NEW S, IsFiniteSet(S), NEW R, Ordering(S, R), NEW x \in S
    PROVE  /\ IsFiniteSet(Lower(S, R, x)) /\ Height(S, R, x) \in Nat
           /\ Height(S, R, x) < Cardinality(S)
<1>1. Lower(S, R, x) \in SUBSET S /\ x \notin Lower(S, R, x)
  BY DEF Lower, Ordering
<1>2. IsFiniteSet(Lower(S, R, x)) /\ Height(S, R, x) \in Nat
  BY <1>1, FS_Subset, FS_CardinalityType DEF Height
<1>3. Cardinality(S) \in Nat
  BY FS_CardinalityType
<1>4. Height(S, R, x) <= Cardinality(S) /\ Height(S, R, x) # Cardinality(S)
  BY <1>1, FS_Subset DEF Height
<1> QED  BY <1>2, <1>3, <1>4

LEMMA HeightOrders ==
    ASSUME NEW S, IsFiniteSet(S), NEW R, Ordering(S, R), NEW x \in S, NEW y \in S,
           <<x, y>> \in R
    PROVE  Height(S, R, x) < Height(S, R, y)
<1>1. Lower(S, R, x) \subseteq Lower(S, R, y)
  BY DEF Lower, Ordering
<1>2. x \in Lower(S, R, y) /\ x \notin Lower(S, R, x)
  BY DEF Lower, Ordering
<1>3. /\ IsFiniteSet(Lower(S, R, y))
      /\ Height(S, R, x) \in Nat /\ Height(S, R, y) \in Nat
  BY HeightType
<1>4. Height(S, R, x) <= Height(S, R, y) /\ Height(S, R, x) # Height(S, R, y)
  BY <1>1, <1>2, <1>3, FS_Subset DEF Height
<1> QED  BY <1>3, <1>4

\* The member that has the i-th place.
Placed(S, R, i) == CHOOSE x \in S : Height(S, R, x) = i - 1

LEMMA PlacesAreTaken ==
    ASSUME NEW S, IsFiniteSet(S), NEW R, Ordering(S, R), NEW i \in 1 .. Cardinality(S)
    PROVE  /\ Placed(S, R, i) \in S /\ Height(S, R, Placed(S, R, i)) = i - 1
           /\ \A x \in S : Height(S, R, x) = i - 1 => x = Placed(S, R, i)
<1> DEFINE N == Cardinality(S)
           h == [x \in S |-> Height(S, R, x)]
<1>1. N \in Nat
  BY FS_CardinalityType
<1>2. \A x \in S : Height(S, R, x) \in Nat /\ Height(S, R, x) < N
  BY HeightType
<1>3. \A x, y \in S : Height(S, R, x) = Height(S, R, y) => x = y
  <2> SUFFICES ASSUME NEW x \in S, NEW y \in S, x # y, Height(S, R, x) = Height(S, R, y)
               PROVE  FALSE
    OBVIOUS
  <2>1. <<x, y>> \in R \/ <<y, x>> \in R
    BY DEF Ordering
  <2>2. <<x, y>> \in R => Height(S, R, x) < Height(S, R, y)
    BY HeightOrders
  <2>3. <<y, x>> \in R => Height(S, R, y) < Height(S, R, x)
    BY HeightOrders
  <2> QED  BY <1>2, <2>1, <2>2, <2>3
<1>4. i - 1 \in 0 .. N - 1
  BY <1>1
<1> HIDE DEF N
<1>5. /\ IsFiniteSet(0 .. N - 1) /\ Cardinality(0 .. N - 1) = N
  BY <1>1, FS_Interval
<1>6. h \in Injection(S, 0 .. N - 1)
  BY <1>1, <1>2, <1>3 DEF Injection, IsInjective
<1> HIDE DEF h
<1>7. h \in Surjection(S, 0 .. N - 1)
  BY <1>5, <1>6, FS_Injection DEF N
<1>8. \E x \in S : h[x] = i - 1
  BY <1>4, <1>7 DEF Surjection
<1>9. \E x \in S : Height(S, R, x) = i - 1
  BY <1>8 DEF h
<1> QED  BY <1>3, <1>9 DEF Placed

Numbered(S, R) == [i \in 1 .. Cardinality(S) |-> Placed(S, R, i)]

\* The numbering lists every member once, the lower ones first.
LEMMA NumberedLists ==
    ASSUME NEW S, IsFiniteSet(S), NEW R, Ordering(S, R)
    PROVE  /\ IsSeq(Numbered(S, R)) /\ Len(Numbered(S, R)) = Cardinality(S)
           /\ Range(Numbered(S, R)) = S
<1> DEFINE s == Numbered(S, R)
           N == Cardinality(S)
<1>1. N \in Nat
  BY FS_CardinalityType
<1>2. \A i \in 1 .. N : s[i] = Placed(S, R, i)
  BY DEF Numbered
<1>3. s = [i \in 1 .. N |-> s[i]] /\ DOMAIN s = 1 .. N
  BY DEF Numbered
<1>4. \A i \in 1 .. N : Placed(S, R, i) \in S
  BY PlacesAreTaken
<1>5. ASSUME NEW x \in S  PROVE \E i \in 1 .. N : Placed(S, R, i) = x
  <2>1. Height(S, R, x) \in Nat /\ Height(S, R, x) < N
    BY HeightType
  <2>2. PICK i : i = Height(S, R, x) + 1
    OBVIOUS
  <2>3. i \in 1 .. N /\ Height(S, R, x) = i - 1
    BY <1>1, <2>1, <2>2
  <2>4. Placed(S, R, i) = x
    BY <2>3, PlacesAreTaken
  <2> QED  BY <2>3, <2>4
<1> HIDE DEF s, N
<1>6. Range(s) = S
  BY <1>2, <1>3, <1>4, <1>5 DEF Range
<1>7. IsSeq(s) /\ Len(s) = N
  BY <1>1, <1>3, SeqFrom
<1> QED  BY <1>6, <1>7 DEF s, N

\* The numbers of a finite set, in their order.
LEMMA AscendingLists ==
    ASSUME NEW S \in SUBSET Int, IsFiniteSet(S)
    PROVE  IsSeq(Ascending(S)) /\ Len(Ascending(S)) = Cardinality(S) /\ Range(Ascending(S)) = S
<1> DEFINE R == {p \in S \X S : p[1] < p[2]}
<1>1. \A x, y \in S : <<x, y>> \in R <=> x < y
  OBVIOUS
<1> HIDE DEF R
<1>2. Ordering(S, R)
  BY <1>1 DEF Ordering
<1>3. \A x \in S : {y \in S : y < x} = Lower(S, R, x)
  BY <1>1 DEF Lower
<1>4. \A i : Placed(S, R, i) = CHOOSE x \in S : Cardinality({y \in S : y < x}) = i - 1
  <2> TAKE i
  <2>1. \A x \in S : Height(S, R, x) = i - 1 <=> Cardinality({y \in S : y < x}) = i - 1
    BY <1>3 DEF Height
  <2> QED  BY <2>1 DEF Placed
<1>5. Ascending(S) = Numbered(S, R)
  BY <1>4 DEF Ascending, InOrder, Numbered
<1> QED  BY <1>2, <1>5, NumberedLists

LEMMA PlacesDiffer ==
    ASSUME NEW S, IsFiniteSet(S), NEW R, Ordering(S, R),
           NEW i \in 1 .. Cardinality(S), NEW j \in 1 .. Cardinality(S),
           Placed(S, R, i) = Placed(S, R, j)
    PROVE  i = j
<1>1. Height(S, R, Placed(S, R, i)) = i - 1 /\ Height(S, R, Placed(S, R, j)) = j - 1
  BY PlacesAreTaken
<1>2. Cardinality(S) \in Nat
  BY FS_CardinalityType
<1> QED  BY <1>1, <1>2

\* How the positions of caps are put in the order of the ids.
Reorders(caps, sorted, order) ==
    /\ order \in [1 .. Len(caps) -> 1 .. Len(caps)]
    /\ \A i, j \in 1 .. Len(caps) : order[i] = order[j] => i = j
    /\ \A j \in 1 .. Len(caps) : \E i \in 1 .. Len(caps) : order[i] = j
    /\ sorted = [i \in 1 .. Len(caps) |-> caps[order[i]]]

\* sort_by_key moves the capsules, each once.
LEMMA SortedByIdReorders ==
    ASSUME NEW caps, IsSeq(caps), \A i \in 1 .. Len(caps) : caps[i].id \in Int
    PROVE  \E order : Reorders(caps, SortedById(caps), order)
<1> DEFINE S == DOMAIN caps
           R == {p \in S \X S : IdBefore(caps, p[1], p[2])}
           order == Numbered(S, R)
<1>0. Len(caps) \in Nat /\ S = 1 .. Len(caps)
  BY SeqFacts
<1>1. IsFiniteSet(S) /\ Cardinality(S) = Len(caps)
  <2>1. \A a, b \in Int : IsFiniteSet(a .. b)
                            /\ Cardinality(a .. b) = IF a > b THEN 0 ELSE b - a + 1
    BY FS_Interval
  <2>2. 1 \in Int /\ Len(caps) \in Int
    BY <1>0
  <2>3. /\ IsFiniteSet(1 .. Len(caps))
        /\ Cardinality(1 .. Len(caps)) = IF 1 > Len(caps) THEN 0 ELSE Len(caps) - 1 + 1
    BY <2>1, <2>2
  <2> QED  BY <1>0, <2>3
<1>2. \A x, y \in S : <<x, y>> \in R <=> IdBefore(caps, x, y)
  OBVIOUS
<1> HIDE DEF R
<1>3. Ordering(S, R)
  <2>1. \A x \in S : x \in Int /\ caps[x].id \in Int
    BY <1>0
  <2> HIDE DEF S
  <2>2. \A x \in S : <<x, x>> \notin R
    BY <1>2, <2>1 DEF IdBefore
  <2>3. \A x, y, z \in S : <<x, y>> \in R /\ <<y, z>> \in R => <<x, z>> \in R
    <3> SUFFICES ASSUME NEW x \in S, NEW y \in S, NEW z \in S,
                        IdBefore(caps, x, y), IdBefore(caps, y, z)
                 PROVE  IdBefore(caps, x, z)
      BY <1>2
    <3>1. PICK a, b, c \in Int : a = caps[x].id /\ b = caps[y].id /\ c = caps[z].id
      BY <2>1
    <3> QED  BY <2>1, <3>1 DEF IdBefore
  <2>4. \A x, y \in S : x # y => <<x, y>> \in R \/ <<y, x>> \in R
    <3> SUFFICES ASSUME NEW x \in S, NEW y \in S, x # y
                 PROVE  IdBefore(caps, x, y) \/ IdBefore(caps, y, x)
      BY <1>2
    <3>1. PICK a, b, i, j \in Int : a = caps[x].id /\ b = caps[y].id /\ i = x /\ j = y
      BY <2>1
    <3>2. (a < b \/ a = b \/ b < a) /\ (i < j \/ j < i)
      BY <3>1
    <3> QED  BY <3>1, <3>2 DEF IdBefore
  <2> QED  BY <2>2, <2>3, <2>4 DEF Ordering
<1>4. \A x \in S : {y \in S : IdBefore(caps, y, x)} = Lower(S, R, x)
  BY <1>2 DEF Lower
<1>5. ASSUME NEW i
      PROVE  Placed(S, R, i) =
                 CHOOSE x \in S : Cardinality({y \in S : IdBefore(caps, y, x)}) = i - 1
  <2>1. \A x \in S : Height(S, R, x) = Cardinality({y \in S : IdBefore(caps, y, x)})
    BY <1>4 DEF Height
  <2> HIDE DEF S
  <2> QED  BY <2>1 DEF Placed
<1>6. SortedById(caps) = [i \in DOMAIN caps |-> caps[order[i]]]
  <2> HIDE DEF S
  <2>1. order = [i \in 1 .. Cardinality(S) |->
                    CHOOSE x \in S : Cardinality({y \in S : IdBefore(caps, y, x)}) = i - 1]
    BY <1>5 DEF Numbered
  <2> HIDE DEF order
  <2> QED  BY <2>1 DEF SortedById, S, InOrder
<1>7. \A i \in 1 .. Len(caps) : order[i] = Placed(S, R, i)
  BY <1>1 DEF Numbered
<1>8. order \in [1 .. Len(caps) -> 1 .. Len(caps)]
  <2>1. \A i \in 1 .. Len(caps) : Placed(S, R, i) \in 1 .. Len(caps)
    BY <1>0, <1>1, <1>3, PlacesAreTaken
  <2> QED  BY <1>1, <2>1 DEF Numbered
<1>9. \A i, j \in 1 .. Len(caps) : order[i] = order[j] => i = j
  BY <1>1, <1>3, <1>7, PlacesDiffer
<1>10. \A j \in 1 .. Len(caps) : \E i \in 1 .. Len(caps) : order[i] = j
  <2>1. Range(order) = S
    BY <1>1, <1>3, NumberedLists
  <2>2. PICK s : s = order
    OBVIOUS
  <2>3. DOMAIN s = 1 .. Len(caps) /\ Range(s) = 1 .. Len(caps)
    BY <1>0, <1>8, <2>1, <2>2
  <2>4. \A j \in 1 .. Len(caps) : \E i \in 1 .. Len(caps) : s[i] = j
    BY <2>3 DEF Range
  <2> QED  BY <2>2, <2>4
<1> HIDE DEF order
<1>11. SortedById(caps) = [i \in 1 .. Len(caps) |-> caps[order[i]]]
  BY <1>0, <1>6
<1>12. Reorders(caps, SortedById(caps), order)
  BY <1>8, <1>9, <1>10, <1>11 DEF Reorders
<1> QED  BY <1>12

LEMMA ImageFinite ==
    ASSUME NEW S, IsFiniteSet(S), NEW f, f = [x \in S |-> f[x]]
    PROVE  IsFiniteSet({f[x] : x \in S})
<1>1. PICK T : T = {f[x] : x \in S}
  OBVIOUS
<1>2. f \in [S -> T] /\ \A t \in T : \E x \in S : f[x] = t
  BY <1>1
<1>3. f \in Surjection(S, T)
  BY <1>2 DEF Surjection
<1>4. IsFiniteSet(T)
  BY <1>3, FS_Surjection
<1> QED  BY <1>1, <1>4

LEMMA UpToFinite ==
    ASSUME NEW n \in Nat
    PROVE  IsFiniteSet(1 .. n) /\ Cardinality(1 .. n) = n
<1>1. \A a, b \in Int : IsFiniteSet(a .. b)
                          /\ Cardinality(a .. b) = IF a > b THEN 0 ELSE b - a + 1
  BY FS_Interval
<1>2. IsFiniteSet(1 .. n) /\ Cardinality(1 .. n) = IF 1 > n THEN 0 ELSE n - 1 + 1
  BY <1>1
<1> QED  BY <1>2

LEMMA RangeFinite ==
    ASSUME NEW s, IsSeq(s)
    PROVE  IsFiniteSet(Range(s))
<1>1. /\ Len(s) \in Nat /\ s = [i \in 1 .. Len(s) |-> s[i]] /\ DOMAIN s = 1 .. Len(s)
  BY SeqFacts
<1>2. IsFiniteSet(1 .. Len(s))
  BY <1>1, UpToFinite
<1>3. IsFiniteSet({s[i] : i \in 1 .. Len(s)})
  BY <1>1, <1>2, ImageFinite
<1> QED  BY <1>1, <1>3 DEF Range

-----------------------------------------------------------------------------
(* Terms. *)

\* What a term list holds: finitely many words, none of them short.
Terms == {A \in SUBSET (Nat \ ShortWords) : IsFiniteSet(A)}

TermLists == {Ascending(A) : A \in Terms}

LEMMA TermListType ==
    ASSUME NEW A \in Terms
    PROVE  /\ IsSeq(Ascending(A)) /\ Ascending(A) \in Seq(Nat)
           /\ Range(Ascending(A)) = A
<1>1. A \in SUBSET Int /\ A \in SUBSET Nat /\ IsFiniteSet(A)
  BY DEF Terms
<1>2. IsSeq(Ascending(A)) /\ Range(Ascending(A)) = A
  BY <1>1, AscendingLists
<1>3. \A i \in 1 .. Len(Ascending(A)) : Ascending(A)[i] \in Nat
  BY <1>1, <1>2, SeqFacts DEF Range
<1> QED  BY <1>2, <1>3, SeqInto

LEMMA ExtractedTerms ==
    ASSUME NEW t \in Seq(Nat)
    PROVE  /\ Range(t) \ ShortWords \in Terms
           /\ ExtractTerms(t) \in TermLists
           /\ Range(ExtractTerms(t)) = Range(t) \ ShortWords
<1>1. IsSeq(t)
  BY TypedIsSeq
<1>2. IsFiniteSet(Range(t)) /\ Range(t) \in SUBSET Nat
  <2>1. \A i \in DOMAIN t : t[i] \in Nat
    OBVIOUS
  <2> QED  BY <1>1, <2>1, RangeFinite DEF Range
<1>3. PICK A : A = Range(t) \ ShortWords
  OBVIOUS
<1>4. A \in SUBSET Range(t)
  BY <1>3
<1>5. IsFiniteSet(A)
  BY <1>2, <1>4, FS_Subset
<1>6. A \in Terms
  BY <1>2, <1>3, <1>5 DEF Terms
<1>7. Range(Ascending(A)) = A
  BY <1>6, TermListType
<1> QED  BY <1>3, <1>6, <1>7 DEF ExtractTerms, TermLists

LEMMA NormalizedTerms ==
    ASSUME NEW texts \in Seq(Seq(Nat))
    PROVE  NormalizeTerms(texts) \in TermLists
<1>1. IsSeq(texts) /\ \A t \in Range(texts) : t \in Seq(Nat)
  <2>1. \A i \in DOMAIN texts : texts[i] \in Seq(Nat)
    OBVIOUS
  <2> QED  BY <2>1, TypedIsSeq DEF Range
<1> DEFINE f == [t \in Range(texts) |-> Range(ExtractTerms(t))]
           F == {f[t] : t \in Range(texts)}
<1>2. IsFiniteSet(Range(texts))
  BY <1>1, RangeFinite
<1>3. \A t \in Range(texts) : f[t] \in Terms
  BY <1>1, ExtractedTerms
<1>4. f = [t \in Range(texts) |-> f[t]]
  OBVIOUS
<1>5. NormalizeTerms(texts) = Ascending(UNION F)
  BY DEF NormalizeTerms
<1> HIDE DEF f
<1>6. IsFiniteSet(F)
  BY <1>2, <1>4, ImageFinite
<1>7. \A A \in F : A \in Terms /\ IsFiniteSet(A) /\ A \subseteq Nat \ ShortWords
  BY <1>3 DEF Terms
<1> HIDE DEF F
<1>8. IsFiniteSet(UNION F)
  BY <1>6, <1>7, FS_UNION
<1>9. UNION F \in SUBSET (Nat \ ShortWords)
  BY <1>7
<1>10. UNION F \in Terms
  BY <1>8, <1>9 DEF Terms
<1> QED  BY <1>5, <1>10 DEF TermLists

\* Terms that are written as one-word texts and normalized again are the same.
LEMMA TermsReadBack ==
    ASSUME NEW terms \in TermLists
    PROVE  /\ AsTexts(terms) \in Seq(Seq(Nat))
           /\ NormalizeTerms(AsTexts(terms)) = terms
<1>1. PICK A \in Terms : terms = Ascending(A)
  BY DEF TermLists
<1>2. IsSeq(terms) /\ terms \in Seq(Nat) /\ Range(terms) = A
  BY <1>1, TermListType
<1>3. Len(terms) \in Nat /\ DOMAIN terms = 1 .. Len(terms)
  BY <1>2, SeqFacts
<1>4. PICK texts : texts = AsTexts(terms)
  OBVIOUS
<1>5. texts = [i \in 1 .. Len(terms) |-> texts[i]]
      /\ \A i \in 1 .. Len(terms) : texts[i] = <<terms[i]>>
  BY <1>3, <1>4 DEF AsTexts
<1>6. texts \in Seq(Seq(Nat))
  <2>1. ASSUME NEW i \in 1 .. Len(terms)  PROVE texts[i] \in Seq(Nat)
    <3>1. PICK w : w = terms[i]
      OBVIOUS
    <3>2. w \in Nat
      BY <1>2, <3>1
    <3>3. <<w>> \in Seq(Nat)
      BY <3>2
    <3> QED  BY <1>5, <3>1, <3>3
  <2>2. texts \in [1 .. Len(terms) -> Seq(Nat)]
    BY <1>5, <2>1
  <2> QED  BY <1>3, <2>2
<1>7. Range(texts) = {<<w>> : w \in A}
  <2>1. DOMAIN texts = 1 .. Len(terms)
    BY <1>5
  <2>2. Range(texts) = {texts[i] : i \in 1 .. Len(terms)}
    BY <2>1 DEF Range
  <2>3. A = {terms[i] : i \in 1 .. Len(terms)}
    BY <1>2, <1>3 DEF Range
  <2> QED  BY <1>5, <2>2, <2>3
<1>8. ASSUME NEW w \in A  PROVE Range(ExtractTerms(<<w>>)) = {w}
  <2>1. w \in Nat \ ShortWords /\ <<w>> \in Seq(Nat)
    BY DEF Terms
  <2>2. PICK t : t = <<w>>
    OBVIOUS
  <2>3. Range(t) = {w}
    BY <2>2 DEF Range
  <2>4. Range(ExtractTerms(t)) = Range(t) \ ShortWords
    BY <2>1, <2>2, ExtractedTerms
  <2> QED  BY <2>1, <2>2, <2>3, <2>4
<1>9. UNION {Range(ExtractTerms(t)) : t \in Range(texts)} = A
  <2>1. \A w \in A : <<w>> \in Range(texts)
    BY <1>7
  <2>2. \A t \in Range(texts) : \E w \in A : t = <<w>> /\ Range(ExtractTerms(t)) = {w}
    BY <1>7, <1>8
  <2> DEFINE G(t) == Range(ExtractTerms(t))
  <2>3. \A w \in A : \E t \in Range(texts) : G(t) = {w}
    BY <1>8, <2>1
  <2>4. \A t \in Range(texts) : \E w \in A : G(t) = {w}
    BY <2>2
  <2>5. PICK T : T = Range(texts)
    OBVIOUS
  <2> HIDE DEF G
  <2>6. UNION {G(t) : t \in T} = A
    BY <2>3, <2>4, <2>5
  <2> QED  BY <2>5, <2>6 DEF G
<1> QED  BY <1>1, <1>4, <1>6, <1>9 DEF NormalizeTerms

-----------------------------------------------------------------------------
(* Memories: what into_capsule builds from the JSON it accepts.            *)

Raws == {raw \in RawCapsule :
            Readable(raw) /\ (raw.uri # None => Len(raw.uri) < MaxI64)}

Memories == {FromJson(raw) : raw \in Raws}

AnchorsOf(raw) ==
    NormalizeTerms(Default(raw.anchors, <<ExtractTerms(raw.claim \o raw.evidence)>>))
EntitiesOf(raw) == NormalizeTerms(Default(raw.entities, <<AnchorsOf(raw)>>))
TermsOf(raw) == ExtractTerms(raw.claim \o raw.evidence \o AnchorsOf(raw))
EmbeddingOf(raw) ==
    [i \in DOMAIN Default(raw.embedding, <<>>) |-> AsF32(raw.embedding[i])]

\* FromJson, with its parts named.
LEMMA Built ==
    ASSUME NEW raw, Readable(raw)
    PROVE  FromJson(raw) =
             [id |-> raw.id, tenant |-> raw.tenant, ctx |-> raw.ctx,
              policy |-> raw.policy, copied |-> raw.copied,
              claim |-> raw.claim, evidence |-> raw.evidence, uri |-> raw.uri,
              source_hash |-> SourceHash(raw.uri, raw.evidence),
              content_hash |-> ContentHash(raw.claim, raw.evidence),
              bits |-> SemanticBits(TermsOf(raw)), residual |-> Residual(TermsOf(raw)),
              embedding |-> EmbeddingOf(raw),
              anchors |-> AnchorsOf(raw), entities |-> EntitiesOf(raw),
              from |-> raw.from, until |-> raw.until,
              observed |-> raw.observed, verified |-> raw.verified,
              edges |-> raw.edges]
BY DEF FromJson, TermsOf, EmbeddingOf, AnchorsOf, EntitiesOf

LEMMA RawType ==
    ASSUME NEW raw \in Raws
    PROVE  /\ raw \in RawCapsule /\ Readable(raw)
           /\ raw.uri # None => Len(raw.uri) < MaxI64
           /\ raw.id \in Nat /\ raw.ctx \in Nat /\ raw.policy \in Nat
           /\ raw.tenant \in Nat /\ raw.copied \in Nat
           /\ raw.claim \in Seq(Nat) /\ raw.evidence \in Seq(Nat)
           /\ raw.uri \in Seq(Nat) \cup {None}
           /\ raw.until \in Int \cup {None}
BY DEF Raws, RawCapsule, Readable, Numbers

LEMMA EdgesType ==
    ASSUME NEW raw \in Raws
    PROVE  raw.edges \in Seq(RelationEdge)
<1>1. raw.edges \in Seq(RawRelationEdge) /\ Readable(raw)
  BY DEF Raws, RawCapsule
<1>2. PICK es : es = raw.edges
  OBVIOUS
<1>3. es \in Seq(RawRelationEdge) /\ \A i \in 1 .. Len(es) : es[i] \in RawRelationEdge
  BY <1>1, <1>2
<1>4. ASSUME NEW i \in 1 .. Len(es)  PROVE es[i] \in RelationEdge
  <2>1. es[i] \in Range(es)
    BY <1>3 DEF Range
  <2>2. es[i].from # Unreadable /\ es[i].to # Unreadable
    BY <1>1, <1>2, <2>1 DEF Readable
  <2> QED  BY <1>3, <2>2 DEF RawRelationEdge, RelationEdge, Numbers
<1>5. es \in [1 .. Len(es) -> RelationEdge] /\ Len(es) \in Nat
  BY <1>3, <1>4
<1> QED  BY <1>2, <1>5

\* No list of texts is the absent one.
LEMMA TextsOrNone ==
    ASSUME NEW texts \in Seq(Seq(Nat)) \cup {None}, NEW others \in Seq(Seq(Nat))
    PROVE  Default(texts, others) \in Seq(Seq(Nat))
BY DEF Default

LEMMA TermsType ==
    ASSUME NEW raw \in Raws
    PROVE  AnchorsOf(raw) \in TermLists /\ EntitiesOf(raw) \in TermLists
<1>1. /\ raw.claim \in Seq(Nat) /\ raw.evidence \in Seq(Nat)
      /\ raw.anchors \in Seq(Seq(Nat)) \cup {None}
      /\ raw.entities \in Seq(Seq(Nat)) \cup {None}
  BY DEF Raws, RawCapsule
<1>2. \A terms \in TermLists : terms \in Seq(Nat)
  BY TermListType DEF TermLists
<1>3. raw.claim \o raw.evidence \in Seq(Nat)
  BY <1>1
<1>4. ExtractTerms(raw.claim \o raw.evidence) \in Seq(Nat)
  BY <1>2, <1>3, ExtractedTerms
<1>5. <<ExtractTerms(raw.claim \o raw.evidence)>> \in Seq(Seq(Nat))
  BY <1>4
<1>6. Default(raw.anchors, <<ExtractTerms(raw.claim \o raw.evidence)>>) \in Seq(Seq(Nat))
  BY <1>1, <1>5, TextsOrNone
<1>7. AnchorsOf(raw) \in TermLists
  BY <1>6, NormalizedTerms DEF AnchorsOf
<1>8. <<AnchorsOf(raw)>> \in Seq(Seq(Nat))
  BY <1>2, <1>7
<1>9. Default(raw.entities, <<AnchorsOf(raw)>>) \in Seq(Seq(Nat))
  BY <1>1, <1>8, TextsOrNone
<1> QED  BY <1>7, <1>9, NormalizedTerms DEF EntitiesOf

\* A lane is what the JSON had, or infinite where that was too big.
LEMMA EmbeddingType ==
    ASSUME NEW raw \in Raws
    PROVE  /\ IsSeq(EmbeddingOf(raw))
           /\ \A i \in 1 .. Len(EmbeddingOf(raw)) :
                  EmbeddingOf(raw)[i] \in Int \ {TooBig, Null} \/ EmbeddingOf(raw)[i] = Inf
<1>1. raw.embedding \in Seq(Lanes) \cup {None} /\ Readable(raw)
  BY DEF Raws, RawCapsule
<1>2. PICK lanes : lanes = raw.embedding
  OBVIOUS
<1>3. CASE lanes = None
  <2>1. DOMAIN Default(raw.embedding, <<>>) = 1 .. 0
    BY <1>2, <1>3 DEF Default
  <2>2. EmbeddingOf(raw) = [i \in 1 .. 0 |-> EmbeddingOf(raw)[i]]
    BY <2>1 DEF EmbeddingOf
  <2>3. IsSeq(EmbeddingOf(raw)) /\ Len(EmbeddingOf(raw)) = 0
    BY <2>2, SeqFrom
  <2> QED  BY <2>3
<1>4. CASE lanes # None
  <2>1. lanes \in Seq(Lanes) /\ Default(raw.embedding, <<>>) = lanes
    BY <1>1, <1>2, <1>4 DEF Default
  <2>2. Len(lanes) \in Nat /\ DOMAIN lanes = 1 .. Len(lanes)
        /\ \A i \in 1 .. Len(lanes) : lanes[i] \in Lanes /\ lanes[i] # Null
    <3>1. Len(lanes) \in Nat /\ DOMAIN lanes = 1 .. Len(lanes)
          /\ \A i \in 1 .. Len(lanes) : lanes[i] \in Lanes
      BY <2>1
    <3>2. Null \notin Range(lanes)
      BY <1>1, <2>1 DEF Readable
    <3> QED  BY <3>1, <3>2 DEF Range
  <2>3. EmbeddingOf(raw) = [i \in 1 .. Len(lanes) |-> AsF32(lanes[i])]
    BY <1>2, <2>1, <2>2 DEF EmbeddingOf
  <2>4. EmbeddingOf(raw) = [i \in 1 .. Len(lanes) |-> EmbeddingOf(raw)[i]]
    BY <2>3
  <2>5. IsSeq(EmbeddingOf(raw)) /\ Len(EmbeddingOf(raw)) = Len(lanes)
    BY <2>2, <2>4, SeqFrom
  <2>6. \A i \in 1 .. Len(lanes) :
            AsF32(lanes[i]) \in Int \ {TooBig, Null} \/ AsF32(lanes[i]) = Inf
    BY <2>2 DEF AsF32, Lanes
  <2> QED  BY <2>3, <2>5, <2>6
<1> QED  BY <1>3, <1>4

\* A finite embedding is written as it is.
LEMMA EmbeddingReadsBack ==
    ASSUME NEW raw \in Raws, Inf \notin Range(EmbeddingOf(raw))
    PROVE  /\ AsLanes(EmbeddingOf(raw)) = EmbeddingOf(raw)
           /\ EmbeddingOf(raw) \in Seq(Lanes)
           /\ Null \notin Range(EmbeddingOf(raw))
           /\ \A i \in 1 .. Len(EmbeddingOf(raw)) :
                  AsF32(EmbeddingOf(raw)[i]) = EmbeddingOf(raw)[i]
<1>1. PICK e : e = EmbeddingOf(raw)
  OBVIOUS
<1>2. /\ IsSeq(e) /\ Inf \notin Range(e)
      /\ \A i \in 1 .. Len(e) : e[i] \in Int \ {TooBig, Null} \/ e[i] = Inf
  BY <1>1, EmbeddingType
<1>3. Len(e) \in Nat /\ DOMAIN e = 1 .. Len(e) /\ e = [i \in 1 .. Len(e) |-> e[i]]
  BY <1>2, SeqFacts
<1>4. \A i \in 1 .. Len(e) : e[i] \in Int \ {TooBig, Null} /\ e[i] # Inf
  BY <1>2, <1>3 DEF Range
<1>5. AsLanes(e) = e
  <2>1. AsLanes(e) = [i \in 1 .. Len(e) |-> e[i]]
    BY <1>3, <1>4 DEF AsLanes
  <2> QED  BY <1>3, <2>1
<1>6. e \in Seq(Lanes)
  <2>1. \A i \in 1 .. Len(e) : e[i] \in Lanes
    BY <1>4 DEF Lanes
  <2> QED  BY <1>2, <2>1, SeqInto
<1>7. Null \notin Range(e)
  BY <1>3, <1>4 DEF Range
<1>8. \A i \in 1 .. Len(e) : AsF32(e[i]) = e[i]
  BY <1>4 DEF AsF32
<1> QED  BY <1>1, <1>5, <1>6, <1>7, <1>8

\* The line of a memory builds the memory again.
LEMMA LineReplays ==
    ASSUME NEW raw \in Raws, Inf \notin Range(FromJson(raw).embedding)
    PROVE  FromJson(ToJson(FromJson(raw))) = FromJson(raw)
<1>1. PICK c : c = FromJson(raw)
  OBVIOUS
<1>2. PICK line : line = ToJson(c)
  OBVIOUS
<1>3. Readable(raw)
  BY DEF Raws
<1>4. PICK e : e = EmbeddingOf(raw)
  OBVIOUS
<1>5. /\ c.id = raw.id /\ c.tenant = raw.tenant /\ c.ctx = raw.ctx
      /\ c.policy = raw.policy /\ c.copied = raw.copied
      /\ c.claim = raw.claim /\ c.evidence = raw.evidence /\ c.uri = raw.uri
      /\ c.embedding = e /\ c.anchors = AnchorsOf(raw) /\ c.entities = EntitiesOf(raw)
      /\ c.from = raw.from /\ c.until = raw.until
      /\ c.observed = raw.observed /\ c.verified = raw.verified /\ c.edges = raw.edges
  BY <1>1, <1>3, <1>4, Built
<1>6. /\ line.id = raw.id /\ line.tenant = raw.tenant /\ line.ctx = raw.ctx
      /\ line.policy = raw.policy /\ line.copied = raw.copied
      /\ line.claim = raw.claim /\ line.evidence = raw.evidence /\ line.uri = raw.uri
      /\ line.from = raw.from /\ line.until = raw.until
      /\ line.observed = raw.observed /\ line.verified = raw.verified
      /\ line.edges = raw.edges
      /\ line.anchors = AsTexts(AnchorsOf(raw))
      /\ line.entities = AsTexts(EntitiesOf(raw))
      /\ line.embedding = IF e = <<>> THEN None ELSE AsLanes(e)
  BY <1>2, <1>5 DEF ToJson
<1>7. /\ IsSeq(e) /\ AsLanes(e) = e /\ e \in Seq(Lanes) /\ Null \notin Range(e)
      /\ \A i \in 1 .. Len(e) : AsF32(e[i]) = e[i]
  <2>1. Inf \notin Range(EmbeddingOf(raw))
    BY <1>1, <1>4, <1>5
  <2> QED  BY <1>4, <2>1, EmbeddingReadsBack, EmbeddingType
<1>8. Default(line.embedding, <<>>) = e
  <2>1. e # None
    BY <1>7, NoneAssumption
  <2> QED  BY <1>6, <1>7, <2>1 DEF Default
<1>9. Readable(line)
  BY <1>3, <1>6, <1>7, <1>8 DEF Readable
<1>10. EmbeddingOf(line) = e
  <2>1. DOMAIN e = 1 .. Len(e) /\ e = [i \in 1 .. Len(e) |-> e[i]] /\ Len(e) \in Nat
    BY <1>7, SeqFacts
  <2>2. ASSUME NEW i \in 1 .. Len(e)  PROVE line.embedding[i] = e[i]
    <3>1. e # <<>>
      BY <2>1
    <3> QED  BY <1>6, <1>7, <3>1
  <2>3. EmbeddingOf(line) = [i \in 1 .. Len(e) |-> AsF32(line.embedding[i])]
    BY <1>8, <2>1 DEF EmbeddingOf
  <2>4. EmbeddingOf(line) = [i \in 1 .. Len(e) |-> e[i]]
    BY <1>7, <2>2, <2>3
  <2> QED  BY <2>1, <2>4
<1>11. AnchorsOf(line) = AnchorsOf(raw)
  <2>1. /\ AsTexts(AnchorsOf(raw)) \in Seq(Seq(Nat))
        /\ NormalizeTerms(AsTexts(AnchorsOf(raw))) = AnchorsOf(raw)
    BY TermsType, TermsReadBack
  <2>2. line.anchors # None
    BY <1>6, <2>1, NoneAssumption
  <2> QED  BY <1>6, <2>1, <2>2 DEF AnchorsOf, Default
<1>12. EntitiesOf(line) = EntitiesOf(raw)
  <2>1. /\ AsTexts(EntitiesOf(raw)) \in Seq(Seq(Nat))
        /\ NormalizeTerms(AsTexts(EntitiesOf(raw))) = EntitiesOf(raw)
    BY TermsType, TermsReadBack
  <2>2. line.entities # None
    BY <1>6, <2>1, NoneAssumption
  <2> QED  BY <1>6, <2>1, <2>2 DEF EntitiesOf, Default
<1>13. TermsOf(line) = TermsOf(raw)
  BY <1>6, <1>11 DEF TermsOf
<1>14. FromJson(line) = FromJson(raw)
  BY <1>3, <1>4, <1>6, <1>9, <1>10, <1>11, <1>12, <1>13, Built
<1> QED  BY <1>1, <1>2, <1>14

-----------------------------------------------------------------------------
(* The store's capsules and the log's lines.                               *)

\* No two have one id.
UniqueIds(caps) ==
    \A i, j \in 1 .. Len(caps) : caps[i].id = caps[j].id => i = j

Without(caps, id) == RemoveFirstMatch(caps, LAMBDA other : other.id = id)

LEMMA WithoutId ==
    ASSUME NEW caps, IsSeq(caps), UniqueIds(caps), NEW id
    PROVE  /\ IsSeq(Without(caps, id))
           /\ UniqueIds(Without(caps, id))
           /\ \A k \in 1 .. Len(Without(caps, id)) :
                  /\ \E i \in 1 .. Len(caps) : Without(caps, id)[k] = caps[i]
                  /\ Without(caps, id)[k].id # id
<1>0. Len(caps) \in Nat
  BY SeqFacts
<1>1. CASE \E i \in 1 .. Len(caps) : caps[i].id = id
  <2>1. PICK i \in 1 .. Len(caps) : caps[i].id = id
    BY <1>1
  <2>2. {j \in 1 .. Len(caps) : caps[j].id = id} = {i}
    BY <2>1 DEF UniqueIds
  <2>3. Min({i}) = i
    BY <1>0 DEF Min
  <2>4. SelectInSeq(caps, LAMBDA other : other.id = id) = i
    BY <2>2, <2>3 DEF SelectInSeq
  <2>5. PICK s, t : s = SubSeq(caps, 1, i - 1) /\ t = SubSeq(caps, i + 1, Len(caps))
    OBVIOUS
  <2>6. Without(caps, id) = Joined(s, t)
    BY <1>1, <2>4, <2>5 DEF Without, RemoveFirstMatch, RemoveAt, Joined
  <2>7. IsSeq(s) /\ Len(s) = i - 1 /\ \A k \in 1 .. i - 1 : s[k] = caps[k]
    <3>1. PICK m, n : m = 1 /\ n = i - 1
      OBVIOUS
    <3>2. /\ IsSeq(SubSeq(caps, m, n)) /\ Len(SubSeq(caps, m, n)) = n - m + 1
          /\ \A k \in 1 .. n - m + 1 : SubSeq(caps, m, n)[k] = caps[m + k - 1]
      BY <1>0, <3>1, PartSeq
    <3>3. n - m + 1 = i - 1 /\ \A k \in 1 .. i - 1 : m + k - 1 = k
      BY <1>0, <3>1
    <3> QED  BY <2>5, <3>1, <3>2, <3>3
  <2>8. /\ IsSeq(t) /\ Len(t) = Len(caps) - i
        /\ \A k \in 1 .. Len(caps) - i : t[k] = caps[i + k]
    <3>1. PICK m, n : m = i + 1 /\ n = Len(caps)
      OBVIOUS
    <3>2. /\ IsSeq(SubSeq(caps, m, n)) /\ Len(SubSeq(caps, m, n)) = n - m + 1
          /\ \A k \in 1 .. n - m + 1 : SubSeq(caps, m, n)[k] = caps[m + k - 1]
      BY <1>0, <3>1, PartSeq
    <3>3. n - m + 1 = Len(caps) - i /\ \A k \in 1 .. Len(caps) - i : m + k - 1 = i + k
      BY <1>0, <3>1
    <3> QED  BY <2>5, <3>1, <3>2, <3>3
  <2>9. PICK u : u = Joined(s, t)
    OBVIOUS
  <2>10. IsSeq(u) /\ Len(u) = Len(caps) - 1
    BY <1>0, <2>7, <2>8, <2>9, JoinedSeq
  <2>11. \A k \in 1 .. Len(u) : u[k] = caps[IF k < i THEN k ELSE k + 1]
    <3> SUFFICES ASSUME NEW k \in 1 .. Len(u)
                 PROVE  u[k] = caps[IF k < i THEN k ELSE k + 1]
      OBVIOUS
    <3>1. CASE k < i
      <4>1. k \in 1 .. Len(s)
        BY <1>0, <2>7, <3>1
      <4> QED  BY <2>7, <2>8, <2>9, <3>1, <4>1, JoinedAt
    <3>2. CASE ~(k < i)
      <4>1. PICK j : j = k - Len(s)
        OBVIOUS
      <4>2. j \in 1 .. Len(t) /\ Len(s) + j = k /\ i + j = k + 1
        BY <1>0, <2>7, <2>8, <2>10, <3>2, <4>1
      <4>3. u[Len(s) + j] = t[j]
        <5>1. IsSeq(s) /\ IsSeq(t)
          BY <2>7, <2>8
        <5>2. \A n \in 1 .. Len(t) : Joined(s, t)[Len(s) + n] = t[n]
          BY <5>1, JoinedAt
        <5> QED  BY <2>9, <4>2, <5>2
      <4> QED  BY <2>8, <3>2, <4>2, <4>3
    <3> QED  BY <3>1, <3>2
  <2>12. \A k \in 1 .. Len(u) : (IF k < i THEN k ELSE k + 1) \in 1 .. Len(caps)
                                  /\ (IF k < i THEN k ELSE k + 1) # i
    BY <1>0, <2>10
  <2>13. UniqueIds(u)
    <3> SUFFICES ASSUME NEW k \in 1 .. Len(u), NEW h \in 1 .. Len(u), u[k].id = u[h].id
                 PROVE  k = h
      BY DEF UniqueIds
    <3>1. (IF k < i THEN k ELSE k + 1) = (IF h < i THEN h ELSE h + 1)
      BY <2>11, <2>12 DEF UniqueIds
    <3> QED  BY <1>0, <2>10, <3>1
  <2>14. \A k \in 1 .. Len(u) : u[k].id # id
    BY <2>1, <2>11, <2>12 DEF UniqueIds
  <2> QED  BY <2>6, <2>9, <2>10, <2>11, <2>12, <2>13, <2>14
<1>2. CASE ~\E i \in 1 .. Len(caps) : caps[i].id = id
  <2>1. Without(caps, id) = caps
    BY <1>2 DEF Without, RemoveFirstMatch
  <2> QED  BY <1>2, <2>1
<1> QED  BY <1>1, <1>2

\* What a line was written for, and the line.
LineOf(entry) ==
    \E raw \in Raws : entry = [line |-> ToJson(FromJson(raw)), stored |-> FromJson(raw)]

StoreInv ==
    /\ live \in Seq(Memories) /\ UniqueIds(live)
    /\ IsSeq(log) /\ \A i \in 1 .. Len(log) : LineOf(log[i])

LEMMA InsertedIsRaw ==
    ASSUME NEW raw \in Inserts, FromJson(raw) # Malformed
    PROVE  raw \in Raws
<1>1. raw \in RawCapsule
  BY InputsAssumption
<1>2. Readable(raw)
  BY DEF FromJson
<1>3. raw.uri # None => Len(raw.uri) < MaxI64
  BY LengthAssumption
<1> QED  BY <1>1, <1>2, <1>3 DEF Raws

LEMMA Appended ==
    ASSUME NEW s, IsSeq(s), NEW x
    PROVE  /\ IsSeq(Append(s, x)) /\ Len(Append(s, x)) = Len(s) + 1
           /\ \A i \in 1 .. Len(s) : Append(s, x)[i] = s[i]
           /\ Append(s, x)[Len(s) + 1] = x
<1> DEFINE S == Range(s) \cup {x}
<1>1. Len(s) \in Nat /\ \A i \in 1 .. Len(s) : s[i] \in S
  BY SeqFacts DEF Range
<1>2. x \in S
  OBVIOUS
<1> HIDE DEF S
<1>3. s \in Seq(S)
  BY <1>1, SeqInto
<1>4. Append(s, x) \in Seq(S)
  BY <1>2, <1>3
<1>5. IsSeq(Append(s, x))
  BY <1>4, TypedIsSeq
<1> QED  BY <1>1, <1>3, <1>5

LEMMA MemoryId ==
    ASSUME NEW raw \in Raws
    PROVE  FromJson(raw).id = raw.id /\ FromJson(raw) \in Memories /\ raw.id \in Nat
BY RawType, Built DEF Memories

LEMMA StoreInvInductive ==
    /\ Init => StoreInv
    /\ StoreInv /\ [Next]_vars => StoreInv'
<1>1. Init => StoreInv
  <2>1. IsSeq(<<>>) /\ Len(<<>>) = 0 /\ <<>> \in Seq(Memories)
    BY DEF IsSeq
  <2> QED  BY <2>1 DEF Init, StoreInv, UniqueIds
<1>2. ASSUME StoreInv, UNCHANGED <<live, log>>  PROVE StoreInv'
  BY <1>2 DEF StoreInv, UniqueIds
<1>3. ASSUME StoreInv, NEW raw \in Inserts, Insert(raw)  PROVE StoreInv'
  <2>1. PICK c, others : c = FromJson(raw) /\ others = Without(live, raw.id)
    OBVIOUS
  <2>2. /\ c # Malformed /\ live' = Append(others, c)
        /\ log' = Append(log, [line |-> ToJson(c), stored |-> c])
    BY <1>3, <2>1 DEF Insert, Without
  <2>3. raw \in Raws /\ c \in Memories /\ c.id = raw.id
    BY <2>1, <2>2, InsertedIsRaw, MemoryId
  <2>4. live \in Seq(Memories) /\ IsSeq(live) /\ UniqueIds(live) /\ Len(live) \in Nat
        /\ \A i \in 1 .. Len(live) : live[i] \in Memories
    BY <1>3, TypedIsSeq DEF StoreInv
  <2>5. /\ IsSeq(others) /\ UniqueIds(others)
        /\ \A k \in 1 .. Len(others) : others[k] \in Memories /\ others[k].id # raw.id
    <3>1. PICK caps, id : caps = live /\ id = raw.id
      OBVIOUS
    <3>2. /\ IsSeq(Without(caps, id)) /\ UniqueIds(Without(caps, id))
          /\ \A k \in 1 .. Len(Without(caps, id)) :
                 /\ \E i \in 1 .. Len(caps) : Without(caps, id)[k] = caps[i]
                 /\ Without(caps, id)[k].id # id
      BY <2>4, <3>1, WithoutId
    <3>3. others = Without(caps, id)
      BY <2>1, <3>1
    <3> QED  BY <2>4, <3>1, <3>2, <3>3
  <2>6. PICK now : now = Append(others, c)
    OBVIOUS
  <2>7. /\ IsSeq(now) /\ Len(now) = Len(others) + 1 /\ Len(others) \in Nat
        /\ \A i \in 1 .. Len(others) : now[i] = others[i]
        /\ now[Len(others) + 1] = c
    BY <2>5, <2>6, Appended, SeqFacts
  <2>8. \A i \in 1 .. Len(now) : i \in 1 .. Len(others) \/ i = Len(others) + 1
    BY <2>7
  <2>9. now \in Seq(Memories)
    <3>1. \A i \in 1 .. Len(now) : now[i] \in Memories
      BY <2>3, <2>5, <2>7, <2>8
    <3> QED  BY <2>7, <3>1, SeqInto
  <2>10. UniqueIds(now)
    <3> SUFFICES ASSUME NEW i \in 1 .. Len(now), NEW j \in 1 .. Len(now),
                        now[i].id = now[j].id
                 PROVE  i = j
      BY DEF UniqueIds
    <3> QED  BY <2>3, <2>5, <2>7, <2>8 DEF UniqueIds
  <2>11. PICK lines, entry : lines = log /\ entry = [line |-> ToJson(c), stored |-> c]
    OBVIOUS
  <2>12. LineOf(entry)
    BY <2>1, <2>3, <2>11 DEF LineOf
  <2>13. IsSeq(lines) /\ \A i \in 1 .. Len(lines) : LineOf(lines[i])
    BY <1>3, <2>11 DEF StoreInv
  <2>14. PICK after : after = Append(lines, entry)
    OBVIOUS
  <2>15. /\ IsSeq(after) /\ Len(after) = Len(lines) + 1 /\ Len(lines) \in Nat
         /\ \A i \in 1 .. Len(lines) : after[i] = lines[i]
         /\ after[Len(lines) + 1] = entry
    BY <2>13, <2>14, Appended, SeqFacts
  <2>16. \A i \in 1 .. Len(after) : i \in 1 .. Len(lines) \/ i = Len(lines) + 1
    BY <2>15
  <2>17. \A i \in 1 .. Len(after) : LineOf(after[i])
    BY <2>12, <2>13, <2>15, <2>16
  <2>18. live' = now /\ log' = after
    BY <2>2, <2>6, <2>11, <2>14
  <2> QED  BY <2>9, <2>10, <2>15, <2>17, <2>18 DEF StoreInv, UniqueIds
<1>4. ASSUME StoreInv, Next  PROVE StoreInv'
  <2>1. CASE \E raw \in Inserts : Insert(raw)
    BY <1>3, <1>4, <2>1
  <2>2. CASE ~\E raw \in Inserts : Insert(raw)
    <3>1. UNCHANGED <<live, log>>
      BY <1>4, <2>2 DEF Next, Checkpoint, CompileJson, CompileProduct, SealFile, Write,
                        Cut, Alter
    <3> QED  BY <1>2, <1>4, <3>1
  <2> QED  BY <2>1, <2>2
<1>5. ASSUME StoreInv, UNCHANGED vars  PROVE StoreInv'
  BY <1>2, <1>5 DEF vars
<1> QED  BY <1>1, <1>4, <1>5

\* The line the write-ahead log has for an insert (capsule_to_json) builds the
\* capsule that was stored, for any memories whose embeddings are finite.
THEOREM LinesReplay == Spec => []LogReplays
<1>1. StoreInv => LogReplays
  <2> SUFFICES ASSUME StoreInv, NEW entry \in Range(log),
                      Inf \notin Range(entry.stored.embedding)
               PROVE  FromJson(entry.line) = entry.stored
    BY DEF LogReplays
  <2>1. PICK i \in 1 .. Len(log) : entry = log[i]
    BY SeqFacts DEF StoreInv, Range
  <2>2. PICK raw \in Raws :
            entry = [line |-> ToJson(FromJson(raw)), stored |-> FromJson(raw)]
    BY <2>1 DEF StoreInv, LineOf
  <2> QED  BY <2>2, LineReplays
<1> QED  BY <1>1, StoreInvInductive, PTL DEF Spec

-----------------------------------------------------------------------------
(* The layout of a file.                                                   *)

\* What the format needs of a memory.
Storable(c) ==
    /\ c.id \in Nat
    /\ c.claim \in Seq(Nat) /\ c.evidence \in Seq(Nat)
    /\ c.uri \in Seq(Nat) \cup {None} /\ (c.uri # None => Len(c.uri) < MaxI64)
    /\ c.until \in Int \cup {None}
    /\ c.source_hash = SourceHash(c.uri, c.evidence)
    /\ c.content_hash = ContentHash(c.claim, c.evidence)
    /\ c.anchors \in Seq(Nat) /\ c.entities \in Seq(Nat)
    /\ IsSeq(c.embedding)
    /\ c.edges \in Seq(RelationEdge)
    /\ c = [id |-> c.id, tenant |-> c.tenant, ctx |-> c.ctx,
            policy |-> c.policy, copied |-> c.copied,
            claim |-> c.claim, evidence |-> c.evidence, uri |-> c.uri,
            source_hash |-> c.source_hash, content_hash |-> c.content_hash,
            bits |-> c.bits, residual |-> c.residual, embedding |-> c.embedding,
            anchors |-> c.anchors, entities |-> c.entities,
            from |-> c.from, until |-> c.until,
            observed |-> c.observed, verified |-> c.verified, edges |-> c.edges]

LEMMA MemoriesAreStorable ==
    ASSUME NEW c \in Memories
    PROVE  Storable(c)
<1>1. PICK raw \in Raws : c = FromJson(raw)
  BY DEF Memories
<1>2. /\ Readable(raw) /\ raw.id \in Nat
      /\ raw.claim \in Seq(Nat) /\ raw.evidence \in Seq(Nat)
      /\ raw.uri \in Seq(Nat) \cup {None} /\ (raw.uri # None => Len(raw.uri) < MaxI64)
      /\ raw.until \in Int \cup {None}
  BY RawType
<1>3. PICK anchors, entities, terms, e :
          /\ anchors = AnchorsOf(raw) /\ entities = EntitiesOf(raw)
          /\ terms = TermsOf(raw) /\ e = EmbeddingOf(raw)
  OBVIOUS
<1>4. anchors \in Seq(Nat) /\ entities \in Seq(Nat) /\ IsSeq(e) /\ raw.edges \in Seq(RelationEdge)
  <2>1. \A t \in TermLists : t \in Seq(Nat)
    BY TermListType DEF TermLists
  <2> QED  BY <1>3, <2>1, TermsType, EmbeddingType, EdgesType
<1>5. c = [id |-> raw.id, tenant |-> raw.tenant, ctx |-> raw.ctx,
           policy |-> raw.policy, copied |-> raw.copied,
           claim |-> raw.claim, evidence |-> raw.evidence, uri |-> raw.uri,
           source_hash |-> SourceHash(raw.uri, raw.evidence),
           content_hash |-> ContentHash(raw.claim, raw.evidence),
           bits |-> SemanticBits(terms), residual |-> Residual(terms),
           embedding |-> e, anchors |-> anchors, entities |-> entities,
           from |-> raw.from, until |-> raw.until,
           observed |-> raw.observed, verified |-> raw.verified, edges |-> raw.edges]
  BY <1>1, <1>2, <1>3, Built
<1> QED  BY <1>2, <1>4, <1>5 DEF Storable

Storables(caps) == IsSeq(caps) /\ \A i \in 1 .. Len(caps) : Storable(caps[i])

RowsOf(caps) == [i \in DOMAIN caps |-> Metadata(caps, i)]
TextsOf(caps) == [i \in DOMAIN caps |-> StringsOf(caps[i])]
RelationsOf(caps) == [i \in DOMAIN caps |-> EdgesOf(caps[i])]
VectorsOf(caps) == [i \in DOMAIN caps |-> caps[i].embedding]

StringsAt(caps) == HeaderLen + Len(caps) * MetadataLen
RelationsAt(caps) == StringsAt(caps) + Len(FlattenSeq(TextsOf(caps)))
IndexAt(caps) == RelationsAt(caps) + Len(FlattenSeq(RelationsOf(caps)))

HeaderOf(caps, epoch) ==
    Header(epoch, TenantOf(caps), Len(caps),
           StringsAt(caps), RelationsAt(caps), IndexAt(caps), EmbeddingDim(caps))

\* The file up to the end of each area.
ToRows(caps, epoch) == Joined(HeaderOf(caps, epoch), FlattenSeq(RowsOf(caps)))
ToStrings(caps, epoch) == Joined(ToRows(caps, epoch), FlattenSeq(TextsOf(caps)))
ToRelations(caps, epoch) == Joined(ToStrings(caps, epoch), FlattenSeq(RelationsOf(caps)))
ToSummary(caps, epoch) == Joined(ToRelations(caps, epoch), <<IndexMark, Len(caps)>>)
Unhashed(caps, epoch) == Joined(ToSummary(caps, epoch), FlattenSeq(VectorsOf(caps)))

Hashed(bytes) == [bytes EXCEPT ![HashOffset] = SegmentHash(bytes)]

LEMMA AssembleParts ==
    ASSUME NEW unsorted, NEW epoch, NEW caps, caps = SortedById(unsorted)
    PROVE  Assemble(unsorted, epoch) = IF ~SameDimension(caps) THEN Malformed
                                       ELSE Hashed(Unhashed(caps, epoch))
BY DEF Assemble, Hashed, Unhashed, ToSummary, ToRelations, ToStrings, ToRows, HeaderOf,
       StringsAt, RelationsAt, IndexAt, RowsOf, TextsOf, RelationsOf, VectorsOf, Joined

\* The pieces of a string list, of the strings and of the edges of a memory.
Entries(terms) == [i \in DOMAIN terms |-> <<1, terms[i]>>]
Relations(c) ==
    [i \in DOMAIN c.edges |->
        <<c.edges[i].from, c.edges[i].to,
          [kind |-> c.edges[i].kind, weight |-> c.edges[i].weight]>>]

LEMMA PairSeq ==
    ASSUME NEW a, NEW b
    PROVE  IsSeq(<<a, b>>) /\ Len(<<a, b>>) = 2
<1>1. <<a, b>> \in Seq({a, b})
  OBVIOUS
<1> QED  BY <1>1, TypedIsSeq

LEMMA TripleSeq ==
    ASSUME NEW a, NEW b, NEW c
    PROVE  IsSeq(<<a, b, c>>) /\ Len(<<a, b, c>>) = 3
<1>1. <<a, b, c>> \in Seq({a, b, c})
  OBVIOUS
<1> QED  BY <1>1, TypedIsSeq

LEMMA SingleSeq ==
    ASSUME NEW a
    PROVE  IsSeq(<<a>>) /\ Len(<<a>>) = 1
<1>1. <<a>> \in Seq({a})
  OBVIOUS
<1> QED  BY <1>1, TypedIsSeq

LEMMA EntriesPieces ==
    ASSUME NEW terms, IsSeq(terms)
    PROVE  /\ Pieces(Entries(terms)) /\ Len(Entries(terms)) = Len(terms)
           /\ \A i \in 1 .. Len(terms) : /\ Entries(terms)[i] = <<1, terms[i]>>
                                         /\ Len(Entries(terms)[i]) = 2
<1>1. Len(terms) \in Nat /\ DOMAIN terms = 1 .. Len(terms)
  BY SeqFacts
<1>2. PICK es : es = Entries(terms)
  OBVIOUS
<1>3. es = [i \in 1 .. Len(terms) |-> es[i]]
      /\ \A i \in 1 .. Len(terms) : es[i] = <<1, terms[i]>>
  BY <1>1, <1>2 DEF Entries
<1>4. IsSeq(es) /\ Len(es) = Len(terms)
  BY <1>1, <1>3, SeqFrom
<1>5. ASSUME NEW i \in 1 .. Len(terms)  PROVE IsSeq(es[i]) /\ Len(es[i]) = 2
  <2>1. PICK b : b = terms[i]
    OBVIOUS
  <2>2. IsSeq(<<1, b>>) /\ Len(<<1, b>>) = 2
    BY PairSeq
  <2> QED  BY <1>3, <2>1, <2>2
<1> QED  BY <1>2, <1>3, <1>4, <1>5 DEF Pieces

LEMMA RelationsPieces ==
    ASSUME NEW c, IsSeq(c.edges)
    PROVE  /\ Pieces(Relations(c)) /\ Len(Relations(c)) = Len(c.edges)
           /\ \A i \in 1 .. Len(c.edges) :
                  /\ Relations(c)[i] =
                         <<c.edges[i].from, c.edges[i].to,
                           [kind |-> c.edges[i].kind, weight |-> c.edges[i].weight]>>
                  /\ Len(Relations(c)[i]) = 3
<1>1. Len(c.edges) \in Nat /\ DOMAIN c.edges = 1 .. Len(c.edges)
  BY SeqFacts
<1>2. PICK es : es = Relations(c)
  OBVIOUS
<1>3. es = [i \in 1 .. Len(c.edges) |-> es[i]]
      /\ \A i \in 1 .. Len(c.edges) :
             es[i] = <<c.edges[i].from, c.edges[i].to,
                       [kind |-> c.edges[i].kind, weight |-> c.edges[i].weight]>>
  BY <1>1, <1>2 DEF Relations
<1>4. IsSeq(es) /\ Len(es) = Len(c.edges)
  BY <1>1, <1>3, SeqFrom
<1>5. ASSUME NEW i \in 1 .. Len(c.edges)  PROVE IsSeq(es[i]) /\ Len(es[i]) = 3
  <2>1. PICK from, to, rest :
            /\ from = c.edges[i].from /\ to = c.edges[i].to
            /\ rest = [kind |-> c.edges[i].kind, weight |-> c.edges[i].weight]
    OBVIOUS
  <2>2. IsSeq(<<from, to, rest>>) /\ Len(<<from, to, rest>>) = 3
    BY TripleSeq
  <2> QED  BY <1>3, <2>1, <2>2
<1> QED  BY <1>2, <1>3, <1>4, <1>5 DEF Pieces

LEMMA StringListCells ==
    ASSUME NEW terms, IsSeq(terms)
    PROVE  /\ IsSeq(StringList(terms)) /\ Len(StringList(terms)) = 2 * Len(terms) + 1
           /\ StringList(terms)[1] = Len(terms)
           /\ \A i \in 1 .. Len(terms) : StringList(terms)[2 * i + 1] = terms[i]
<1>1. PICK es, count, body : /\ es = Entries(terms) /\ count = <<Len(terms)>>
                             /\ body = FlattenSeq(es)
  OBVIOUS
<1>2. StringList(terms) = Joined(count, body)
  BY <1>1 DEF StringList, Entries, Joined
<1>3. /\ Pieces(es) /\ Len(es) = Len(terms) /\ Len(terms) \in Nat
      /\ \A i \in 1 .. Len(terms) : es[i] = <<1, terms[i]>> /\ Len(es[i]) = 2
  BY <1>1, EntriesPieces, SeqFacts
<1>4. IsSeq(count) /\ Len(count) = 1 /\ count[1] = Len(terms)
  BY <1>1, SingleSeq
<1>5. /\ IsSeq(body) /\ \A i \in 1 .. Len(es) : PieceIn(body, es, i)
      /\ body = FirstPieces(es, Len(es))
  BY <1>1, <1>3, FlattenPieces, FlattenAll
<1>6. \A n \in 0 .. Len(es) : Len(FirstPieces(es, n)) = n * 2
  BY <1>3, RowsLength
<1>7. Len(body) = Len(terms) * 2
  BY <1>3, <1>5, <1>6
<1>8. /\ IsSeq(Joined(count, body)) /\ Len(Joined(count, body)) = 2 * Len(terms) + 1
      /\ Joined(count, body)[1] = Len(terms)
  <2>1. IsSeq(Joined(count, body)) /\ Len(Joined(count, body)) = Len(count) + Len(body)
    BY <1>4, <1>5, JoinedSeq
  <2>2. \A i \in 1 .. Len(count) : Joined(count, body)[i] = count[i]
    BY <1>4, <1>5, JoinedAt
  <2>3. 1 \in 1 .. Len(count)
    BY <1>4
  <2> QED  BY <1>3, <1>4, <1>7, <2>1, <2>2, <2>3
<1>9. ASSUME NEW i \in 1 .. Len(terms)
      PROVE  Joined(count, body)[2 * i + 1] = terms[i]
  <2>1. i - 1 \in 0 .. Len(es)
    BY <1>3
  <2>2. Offset(es, i) = (i - 1) * 2
    BY <1>6, <2>1 DEF Offset
  <2>3. PICK k, j : k = Offset(es, i) + 2 /\ j = Len(count) + k
    OBVIOUS
  <2>4. body[k] = terms[i]
    <3>1. body[Offset(es, i) + 2] = es[i][2]
      BY <1>3, <1>5 DEF PieceIn
    <3>2. es[i][2] = terms[i]
      BY <1>3
    <3> QED  BY <2>3, <3>1, <3>2
  <2>5. k \in 1 .. Len(body) /\ j = 2 * i + 1
    BY <1>3, <1>4, <1>7, <2>2, <2>3
  <2>6. Joined(count, body)[Len(count) + k] = body[k]
    <3>1. IsSeq(count) /\ IsSeq(body)
      BY <1>4, <1>5
    <3>2. \A h \in 1 .. Len(body) : Joined(count, body)[Len(count) + h] = body[h]
      BY <3>1, JoinedAt
    <3> QED  BY <2>5, <3>2
  <2> QED  BY <2>3, <2>4, <2>5, <2>6
<1> QED  BY <1>2, <1>8, <1>9

\* The five strings of a memory.
LEMMA StringsPieces ==
    ASSUME NEW c, Storable(c)
    PROVE  /\ Pieces(Strings(c)) /\ Len(Strings(c)) = 5
           /\ Strings(c)[1] = c.claim /\ Strings(c)[2] = c.evidence
           /\ Strings(c)[3] = Default(c.uri, <<>>)
           /\ Strings(c)[4] = StringList(c.anchors)
           /\ Strings(c)[5] = StringList(c.entities)
<1>1. PICK a, b, u, p, q :
          /\ a = c.claim /\ b = c.evidence /\ u = Default(c.uri, <<>>)
          /\ p = StringList(c.anchors) /\ q = StringList(c.entities)
  OBVIOUS
<1>2. PICK ss : ss = Strings(c)
  OBVIOUS
<1>3. ss = <<a, b, u, p, q>>
  BY <1>1, <1>2 DEF Strings
<1>4. IsSeq(a) /\ IsSeq(b)
  BY <1>1, TypedIsSeq DEF Storable
<1>5. IsSeq(u)
  <2>1. <<>> \in Seq(Nat)
    OBVIOUS
  <2>2. u \in Seq(Nat)
    BY <1>1, <2>1 DEF Storable, Default
  <2> QED  BY <2>2, TypedIsSeq
<1>6. IsSeq(p) /\ IsSeq(q)
  <2>1. IsSeq(c.anchors) /\ IsSeq(c.entities)
    BY TypedIsSeq DEF Storable
  <2> QED  BY <1>1, <2>1, StringListCells
<1>7. ss \in Seq({a, b, u, p, q}) /\ Len(ss) = 5
  BY <1>3
<1>8. IsSeq(ss)
  BY <1>7, TypedIsSeq
<1>9. \A i \in 1 .. 5 : i = 1 \/ i = 2 \/ i = 3 \/ i = 4 \/ i = 5
  OBVIOUS
<1>10. ss[1] = a /\ ss[2] = b /\ ss[3] = u /\ ss[4] = p /\ ss[5] = q
  BY <1>3
<1>11. \A i \in 1 .. Len(ss) : IsSeq(ss[i])
  BY <1>4, <1>5, <1>6, <1>7, <1>9, <1>10
<1> QED  BY <1>1, <1>2, <1>7, <1>8, <1>10, <1>11 DEF Pieces

LEMMA AreasOfMemory ==
    ASSUME NEW c, Storable(c)
    PROVE  /\ IsSeq(StringsOf(c)) /\ IsSeq(EdgesOf(c)) /\ IsSeq(c.embedding)
           /\ IsSeq(c.edges) /\ EdgesOf(c) = FlattenSeq(Relations(c))
<1>1. IsSeq(StringsOf(c))
  BY StringsPieces, FlattenPieces DEF StringsOf
<1>2. IsSeq(c.edges)
  BY TypedIsSeq DEF Storable
<1>3. EdgesOf(c) = FlattenSeq(Relations(c))
  BY DEF EdgesOf, Relations
<1>4. IsSeq(EdgesOf(c))
  BY <1>2, <1>3, RelationsPieces, FlattenPieces
<1> QED  BY <1>1, <1>2, <1>3, <1>4 DEF Storable

Fields(c) ==
    <<c.id, c.tenant, c.copied, c.source_hash, c.bits, c.residual,
      c.from, Default(c.until, MaxI64), c.observed, c.verified, c.ctx, c.policy>>

\* What each cell of a memory's row holds.
RowOf(row, c, refs, before) ==
    /\ \A k \in 1 .. 12 : row[k] = Fields(c)[k]
    /\ \A k \in 1 .. 5 : row[12 + k] = refs[k]
    /\ row[18] = before /\ row[19] = Len(c.edges) /\ row[20] = c.content_hash

\* A row of the metadata.
LEMMA MetadataCells ==
    ASSUME NEW caps, NEW i
    PROVE  /\ IsSeq(Metadata(caps, i)) /\ Len(Metadata(caps, i)) = MetadataLen
           /\ RowOf(Metadata(caps, i), caps[i], BlobRefs(caps, i), Before(caps, i, EdgesOf))
<1>1. PICK f, g, h : /\ f = Fields(caps[i]) /\ g = BlobRefs(caps, i)
                     /\ h = <<Before(caps, i, EdgesOf), Len(caps[i].edges),
                              caps[i].content_hash>>
  OBVIOUS
<1>2. Metadata(caps, i) = Joined(Joined(f, g), h)
  BY <1>1 DEF Metadata, Fields, Joined
<1>3. IsSeq(f) /\ Len(f) = 12
  <2>1. f = [k \in 1 .. 12 |-> f[k]]
    BY <1>1 DEF Fields
  <2> QED  BY <2>1, SeqFrom
<1>4. IsSeq(g) /\ Len(g) = 5
  <2>1. g = [k \in 1 .. 5 |-> g[k]]
    BY <1>1 DEF BlobRefs
  <2> QED  BY <2>1, SeqFrom
<1>5. /\ IsSeq(h) /\ Len(h) = 3 /\ h[1] = Before(caps, i, EdgesOf)
      /\ h[2] = Len(caps[i].edges) /\ h[3] = caps[i].content_hash
  BY <1>1, TripleSeq
<1>6. /\ IsSeq(Joined(f, g)) /\ Len(Joined(f, g)) = 17
      /\ \A k \in 1 .. 12 : Joined(f, g)[k] = f[k]
      /\ \A k \in 1 .. 5 : Joined(f, g)[12 + k] = g[k]
  <2>0. IsSeq(f) /\ IsSeq(g)
    BY <1>3, <1>4
  <2>1. IsSeq(Joined(f, g)) /\ Len(Joined(f, g)) = Len(f) + Len(g)
    BY <2>0, JoinedSeq
  <2>2. \A k \in 1 .. Len(f) : Joined(f, g)[k] = f[k]
    BY <2>0, JoinedAt
  <2>3. \A k \in 1 .. Len(g) : Joined(f, g)[Len(f) + k] = g[k]
    BY <2>0, JoinedAt
  <2> QED  BY <1>3, <1>4, <2>1, <2>2, <2>3
<1>7. PICK m, fg : fg = Joined(f, g) /\ m = Joined(fg, h)
  OBVIOUS
<1>8. /\ IsSeq(m) /\ Len(m) = 20
      /\ \A k \in 1 .. 17 : m[k] = fg[k]
      /\ \A k \in 1 .. 3 : m[17 + k] = h[k]
  <2>0. IsSeq(fg) /\ IsSeq(h)
    BY <1>5, <1>6, <1>7
  <2>1. IsSeq(Joined(fg, h)) /\ Len(Joined(fg, h)) = Len(fg) + Len(h)
    BY <2>0, JoinedSeq
  <2>2. \A k \in 1 .. Len(fg) : Joined(fg, h)[k] = fg[k]
    BY <2>0, JoinedAt
  <2>3. \A k \in 1 .. Len(h) : Joined(fg, h)[Len(fg) + k] = h[k]
    BY <2>0, JoinedAt
  <2>4. Len(fg) = 17
    BY <1>6, <1>7
  <2> QED  BY <1>5, <1>7, <2>1, <2>2, <2>3, <2>4
<1>9. \A k \in 1 .. 12 : m[k] = f[k]
  BY <1>6, <1>7, <1>8
<1>10. \A k \in 1 .. 5 : m[12 + k] = g[k]
  <2> SUFFICES ASSUME NEW k \in 1 .. 5  PROVE m[12 + k] = g[k]
    OBVIOUS
  <2>1. PICK j : j = 12 + k
    OBVIOUS
  <2>2. j \in 1 .. 17 /\ fg[j] = g[k]
    BY <1>6, <1>7, <2>1
  <2> QED  BY <1>8, <2>1, <2>2
<1>11. m[18] = h[1] /\ m[19] = h[2] /\ m[20] = h[3]
  <2>1. m[17 + 1] = h[1] /\ m[17 + 2] = h[2] /\ m[17 + 3] = h[3]
    BY <1>8
  <2> QED  BY <2>1
<1>12. PICK row, fields, refs : /\ row = Metadata(caps, i)
                               /\ fields = Fields(caps[i]) /\ refs = BlobRefs(caps, i)
  OBVIOUS
<1>13. row = m /\ fields = f /\ refs = g
  BY <1>1, <1>2, <1>7, <1>12
<1>14. /\ IsSeq(row) /\ Len(row) = MetadataLen
       /\ \A k \in 1 .. 12 : row[k] = fields[k]
       /\ \A k \in 1 .. 5 : row[12 + k] = refs[k]
  BY <1>8, <1>9, <1>10, <1>13 DEF MetadataLen
<1>15. /\ row[18] = Before(caps, i, EdgesOf) /\ row[19] = Len(caps[i].edges)
       /\ row[20] = caps[i].content_hash
  BY <1>5, <1>11, <1>13
<1>16. PICK c : c = caps[i]
  OBVIOUS
<1>17. RowOf(row, c, refs, Before(caps, i, EdgesOf))
  BY <1>12, <1>14, <1>15, <1>16 DEF RowOf
<1> QED  BY <1>12, <1>14, <1>16, <1>17

\* part lies in whole, behind its first at cells.
Inside(whole, at, part) ==
    /\ at + Len(part) <= Len(whole)
    /\ \A k \in 1 .. Len(part) : whole[at + k] = part[k]

LEMMA PieceIsInside ==
    ASSUME NEW ss, Pieces(ss), NEW i \in 1 .. Len(ss)
    PROVE  Inside(FlattenSeq(ss), Offset(ss, i), ss[i])
BY FlattenPieces DEF Inside, PieceIn

LEMMA InsideFirst ==
    ASSUME NEW s, NEW t, IsSeq(s), IsSeq(t)
    PROVE  Inside(Joined(s, t), 0, s)
<1>1. Len(Joined(s, t)) = Len(s) + Len(t) /\ Len(s) \in Nat /\ Len(t) \in Nat
  BY JoinedSeq, SeqFacts
<1>2. \A k \in 1 .. Len(s) : Joined(s, t)[k] = s[k]
  BY JoinedAt
<1>3. \A k \in 1 .. Len(s) : 0 + k = k
  OBVIOUS
<1> QED  BY <1>1, <1>2, <1>3 DEF Inside

LEMMA InsideLast ==
    ASSUME NEW s, NEW t, IsSeq(s), IsSeq(t)
    PROVE  Inside(Joined(s, t), Len(s), t)
<1>1. Len(Joined(s, t)) = Len(s) + Len(t) /\ Len(s) \in Nat /\ Len(t) \in Nat
  BY JoinedSeq, SeqFacts
<1>2. \A k \in 1 .. Len(t) : Joined(s, t)[Len(s) + k] = t[k]
  BY JoinedAt
<1> QED  BY <1>1, <1>2 DEF Inside

LEMMA InsideStays ==
    ASSUME NEW s, NEW t, IsSeq(s), IsSeq(t), NEW part, IsSeq(part), NEW at \in Nat,
           Inside(s, at, part)
    PROVE  Inside(Joined(s, t), at, part)
<1>1. /\ Len(Joined(s, t)) = Len(s) + Len(t) /\ Len(s) \in Nat /\ Len(t) \in Nat
      /\ Len(part) \in Nat
  BY JoinedSeq, SeqFacts
<1>2. \A k \in 1 .. Len(s) : Joined(s, t)[k] = s[k]
  BY JoinedAt
<1>3. \A k \in 1 .. Len(part) : at + k \in 1 .. Len(s) /\ s[at + k] = part[k]
  BY <1>1 DEF Inside
<1>4. \A k \in 1 .. Len(part) : Joined(s, t)[at + k] = part[k]
  BY <1>2, <1>3
<1> QED  BY <1>1, <1>4 DEF Inside

LEMMA InsideInside ==
    ASSUME NEW whole, NEW a \in Nat, NEW part, IsSeq(part), Inside(whole, a, part),
           Len(whole) \in Nat,
           NEW b \in Nat, NEW p, IsSeq(p), Inside(part, b, p)
    PROVE  Inside(whole, a + b, p)
<1>1. Len(part) \in Nat /\ Len(p) \in Nat
  BY SeqFacts
<1>2. ASSUME NEW k \in 1 .. Len(p)  PROVE whole[(a + b) + k] = p[k]
  <2>1. PICK j : j = b + k
    OBVIOUS
  <2>2. j \in 1 .. Len(part) /\ part[j] = p[k] /\ a + j = (a + b) + k
    BY <1>1, <2>1 DEF Inside
  <2>3. whole[a + j] = part[j]
    BY <2>2 DEF Inside
  <2> QED  BY <2>2, <2>3
<1>3. (a + b) + Len(p) <= Len(whole)
  BY <1>1 DEF Inside
<1> QED  BY <1>2, <1>3 DEF Inside

LEMMA CellsInside ==
    ASSUME NEW whole, IsSeq(whole), NEW part, IsSeq(part), NEW at \in Nat,
           Inside(whole, at, part)
    PROVE  Cells(whole, at, Len(part)) = part
<1>1. Len(whole) \in Nat /\ Len(part) \in Nat
  BY SeqFacts
<1>2. PICK m, n : m = at + 1 /\ n = at + Len(part)
  OBVIOUS
<1>3. m \in 1 .. Len(whole) + 1 /\ n \in 0 .. Len(whole) /\ m <= n + 1 /\ n - m + 1 = Len(part)
  BY <1>1, <1>2 DEF Inside
<1>4. /\ IsSeq(SubSeq(whole, m, n)) /\ Len(SubSeq(whole, m, n)) = n - m + 1
      /\ \A i \in 1 .. n - m + 1 : SubSeq(whole, m, n)[i] = whole[m + i - 1]
  BY <1>3, PartSeq
<1>5. PICK c : c = SubSeq(whole, m, n)
  OBVIOUS
<1>6. \A i \in 1 .. Len(c) : c[i] = part[i]
  <2> SUFFICES ASSUME NEW i \in 1 .. Len(c)  PROVE c[i] = part[i]
    OBVIOUS
  <2>1. i \in 1 .. Len(part) /\ m + i - 1 = at + i
    BY <1>1, <1>2, <1>3, <1>4, <1>5
  <2>2. whole[at + i] = part[i]
    BY <2>1 DEF Inside
  <2>3. c[i] = whole[m + i - 1]
    BY <1>3, <1>4, <1>5, <2>1
  <2> QED  BY <2>1, <2>2, <2>3
<1>7. c = part
  BY <1>3, <1>4, <1>5, <1>6, SameSeq
<1> QED  BY <1>2, <1>5, <1>7 DEF Cells

\* Every area is made of one piece per memory.
LEMMA AreaPieces ==
    ASSUME NEW caps, Storables(caps)
    PROVE  /\ Pieces(RowsOf(caps)) /\ Len(RowsOf(caps)) = Len(caps)
           /\ Pieces(TextsOf(caps)) /\ Len(TextsOf(caps)) = Len(caps)
           /\ Pieces(RelationsOf(caps)) /\ Len(RelationsOf(caps)) = Len(caps)
           /\ Pieces(VectorsOf(caps)) /\ Len(VectorsOf(caps)) = Len(caps)
           /\ Len(caps) \in Nat
<1>1. Len(caps) \in Nat /\ DOMAIN caps = 1 .. Len(caps)
  BY SeqFacts DEF Storables
<1>2. PICK a, b, c, d : /\ a = RowsOf(caps) /\ b = TextsOf(caps)
                        /\ c = RelationsOf(caps) /\ d = VectorsOf(caps)
  OBVIOUS
<1>3. /\ a = [i \in 1 .. Len(caps) |-> a[i]] /\ b = [i \in 1 .. Len(caps) |-> b[i]]
      /\ c = [i \in 1 .. Len(caps) |-> c[i]] /\ d = [i \in 1 .. Len(caps) |-> d[i]]
      /\ \A i \in 1 .. Len(caps) :
             /\ a[i] = Metadata(caps, i) /\ b[i] = StringsOf(caps[i])
             /\ c[i] = EdgesOf(caps[i]) /\ d[i] = caps[i].embedding
  BY <1>1, <1>2 DEF RowsOf, TextsOf, RelationsOf, VectorsOf
<1>4. /\ IsSeq(a) /\ Len(a) = Len(caps) /\ IsSeq(b) /\ Len(b) = Len(caps)
      /\ IsSeq(c) /\ Len(c) = Len(caps) /\ IsSeq(d) /\ Len(d) = Len(caps)
  BY <1>1, <1>3, SeqFrom
<1>5. ASSUME NEW i \in 1 .. Len(caps)
      PROVE  IsSeq(a[i]) /\ IsSeq(b[i]) /\ IsSeq(c[i]) /\ IsSeq(d[i])
  <2>1. Storable(caps[i])
    BY DEF Storables
  <2>2. IsSeq(StringsOf(caps[i])) /\ IsSeq(EdgesOf(caps[i])) /\ IsSeq(caps[i].embedding)
    BY <2>1, AreasOfMemory
  <2>3. IsSeq(Metadata(caps, i))
    BY MetadataCells
  <2> QED  BY <1>3, <2>2, <2>3
<1> QED  BY <1>1, <1>2, <1>4, <1>5 DEF Pieces

LEMMA HeaderCells ==
    ASSUME NEW caps, NEW epoch
    PROVE  IsSeq(HeaderOf(caps, epoch)) /\ Len(HeaderOf(caps, epoch)) = HeaderLen
<1>1. PICK h : h = HeaderOf(caps, epoch)
  OBVIOUS
<1>2. h = [k \in 1 .. 13 |-> h[k]]
  BY <1>1 DEF HeaderOf, Header
<1>3. IsSeq(h) /\ Len(h) = 13
  BY <1>2, SeqFrom
<1> QED  BY <1>1, <1>3 DEF HeaderLen

LEMMA LengthOfRows ==
    ASSUME NEW caps, Storables(caps)
    PROVE  /\ Len(FlattenSeq(RowsOf(caps))) = Len(caps) * MetadataLen
           /\ \A i \in 1 .. Len(caps) : Offset(RowsOf(caps), i) = (i - 1) * MetadataLen
<1>1. PICK ss : ss = RowsOf(caps)
  OBVIOUS
<1>2. Pieces(ss) /\ Len(ss) = Len(caps) /\ Len(caps) \in Nat
  BY <1>1, AreaPieces
<1>3. ASSUME NEW i \in 1 .. Len(ss)  PROVE Len(ss[i]) = MetadataLen
  <2>1. DOMAIN caps = 1 .. Len(caps)
    BY SeqFacts DEF Storables
  <2>2. ss[i] = Metadata(caps, i)
    BY <1>1, <1>2, <2>1 DEF RowsOf
  <2> QED  BY <2>2, MetadataCells
<1>4. MetadataLen \in Nat
  BY DEF MetadataLen
<1>5. \A n \in 0 .. Len(ss) : Len(FirstPieces(ss, n)) = n * MetadataLen
  BY <1>2, <1>3, <1>4, RowsLength
<1>6. FlattenSeq(ss) = FirstPieces(ss, Len(ss)) /\ Len(ss) \in 0 .. Len(ss)
  BY <1>2, FlattenAll
<1>7. \A i \in 1 .. Len(caps) : Offset(ss, i) = (i - 1) * MetadataLen
  <2> SUFFICES ASSUME NEW i \in 1 .. Len(caps)
               PROVE  Offset(ss, i) = (i - 1) * MetadataLen
    OBVIOUS
  <2>1. i - 1 \in 0 .. Len(ss)
    BY <1>2
  <2> QED  BY <1>5, <2>1 DEF Offset
<1> QED  BY <1>1, <1>2, <1>5, <1>6, <1>7

SummaryOf(caps) == <<IndexMark, Len(caps)>>

\* Where the areas are in a file whose digest is still missing.
Laid(caps, epoch, bytes) ==
    /\ IsSeq(bytes)
    /\ StringsAt(caps) \in Nat /\ RelationsAt(caps) \in Nat /\ IndexAt(caps) \in Nat
    /\ HeaderLen <= StringsAt(caps) /\ StringsAt(caps) <= RelationsAt(caps)
    /\ RelationsAt(caps) <= IndexAt(caps)
    /\ Len(bytes) = IndexAt(caps) + SummaryLen + Len(FlattenSeq(VectorsOf(caps)))
    /\ Inside(bytes, 0, HeaderOf(caps, epoch))
    /\ Inside(bytes, HeaderLen, FlattenSeq(RowsOf(caps)))
    /\ Inside(bytes, StringsAt(caps), FlattenSeq(TextsOf(caps)))
    /\ Inside(bytes, RelationsAt(caps), FlattenSeq(RelationsOf(caps)))
    /\ Inside(bytes, IndexAt(caps), SummaryOf(caps))
    /\ Inside(bytes, IndexAt(caps) + SummaryLen, FlattenSeq(VectorsOf(caps)))

LEMMA UnhashedIsLaid ==
    ASSUME NEW caps, Storables(caps), NEW epoch
    PROVE  Laid(caps, epoch, Unhashed(caps, epoch))
<1>1. PICK h, r, t, e, m, v :
          /\ h = HeaderOf(caps, epoch) /\ r = FlattenSeq(RowsOf(caps))
          /\ t = FlattenSeq(TextsOf(caps)) /\ e = FlattenSeq(RelationsOf(caps))
          /\ m = SummaryOf(caps) /\ v = FlattenSeq(VectorsOf(caps))
  OBVIOUS
<1>2. PICK a, b, c, d, w :
          /\ a = Joined(h, r) /\ b = Joined(a, t) /\ c = Joined(b, e)
          /\ d = Joined(c, m) /\ w = Joined(d, v)
  OBVIOUS
<1>3. w = Unhashed(caps, epoch)
  BY <1>1, <1>2 DEF Unhashed, ToSummary, ToRelations, ToStrings, ToRows, SummaryOf
<1>4. IsSeq(h) /\ Len(h) = HeaderLen
  BY <1>1, HeaderCells
<1>5. IsSeq(r) /\ IsSeq(t) /\ IsSeq(e) /\ IsSeq(v)
  BY <1>1, AreaPieces, FlattenPieces
<1>6. IsSeq(m) /\ Len(m) = SummaryLen
  BY <1>1, PairSeq DEF SummaryOf, SummaryLen
<1>7. Len(r) = Len(caps) * MetadataLen /\ Len(caps) \in Nat
  BY <1>1, LengthOfRows, AreaPieces
<1>8. /\ Len(h) \in Nat /\ Len(r) \in Nat /\ Len(t) \in Nat /\ Len(e) \in Nat
      /\ Len(m) \in Nat /\ Len(v) \in Nat
  BY <1>4, <1>5, <1>6, SeqFacts
<1>9. IsSeq(a) /\ Len(a) = Len(h) + Len(r)
  BY <1>2, <1>4, <1>5, JoinedSeq
<1>10. IsSeq(b) /\ Len(b) = Len(a) + Len(t)
  BY <1>2, <1>5, <1>9, JoinedSeq
<1>11. IsSeq(c) /\ Len(c) = Len(b) + Len(e)
  BY <1>2, <1>5, <1>10, JoinedSeq
<1>12. IsSeq(d) /\ Len(d) = Len(c) + Len(m)
  BY <1>2, <1>6, <1>11, JoinedSeq
<1>13. IsSeq(w) /\ Len(w) = Len(d) + Len(v)
  BY <1>2, <1>5, <1>12, JoinedSeq
<1>14. /\ Len(a) = StringsAt(caps) /\ Len(b) = RelationsAt(caps) /\ Len(c) = IndexAt(caps)
       /\ Len(d) = IndexAt(caps) + SummaryLen
  BY <1>1, <1>4, <1>6, <1>7, <1>9, <1>10, <1>11, <1>12
     DEF StringsAt, RelationsAt, IndexAt
<1>15. Len(a) \in Nat /\ Len(b) \in Nat /\ Len(c) \in Nat /\ Len(d) \in Nat
  BY <1>9, <1>10, <1>11, <1>12, SeqFacts
\* What is inside stays inside.
<1>16. ASSUME NEW p, IsSeq(p), NEW at \in Nat
       PROVE  /\ Inside(a, at, p) => Inside(b, at, p)
              /\ Inside(b, at, p) => Inside(c, at, p)
              /\ Inside(c, at, p) => Inside(d, at, p)
              /\ Inside(d, at, p) => Inside(w, at, p)
  <2>1. Inside(a, at, p) => Inside(b, at, p)
    BY <1>2, <1>5, <1>9, <1>16, InsideStays
  <2>2. Inside(b, at, p) => Inside(c, at, p)
    BY <1>2, <1>5, <1>10, <1>16, InsideStays
  <2>3. Inside(c, at, p) => Inside(d, at, p)
    BY <1>2, <1>6, <1>11, <1>16, InsideStays
  <2>4. Inside(d, at, p) => Inside(w, at, p)
    BY <1>2, <1>5, <1>12, <1>16, InsideStays
  <2> QED  BY <2>1, <2>2, <2>3, <2>4
<1>17. Inside(w, 0, h)
  <2>1. Inside(a, 0, h)
    BY <1>2, <1>4, <1>5, InsideFirst
  <2> QED  BY <1>4, <1>16, <2>1
<1>18. Inside(w, Len(h), r)
  <2>1. Inside(a, Len(h), r)
    BY <1>2, <1>4, <1>5, InsideLast
  <2> QED  BY <1>5, <1>8, <1>16, <2>1
<1>19. Inside(w, Len(a), t)
  <2>1. Inside(b, Len(a), t)
    BY <1>2, <1>5, <1>9, InsideLast
  <2> QED  BY <1>5, <1>15, <1>16, <2>1
<1>20. Inside(w, Len(b), e)
  <2>1. Inside(c, Len(b), e)
    BY <1>2, <1>5, <1>10, InsideLast
  <2> QED  BY <1>5, <1>15, <1>16, <2>1
<1>21. Inside(w, Len(c), m)
  <2>1. Inside(d, Len(c), m)
    BY <1>2, <1>6, <1>11, InsideLast
  <2> QED  BY <1>6, <1>15, <1>16, <2>1
<1>22. Inside(w, Len(d), v)
  BY <1>2, <1>5, <1>12, InsideLast
<1>23. /\ HeaderLen <= StringsAt(caps) /\ StringsAt(caps) <= RelationsAt(caps)
       /\ RelationsAt(caps) <= IndexAt(caps)
       /\ Len(w) = IndexAt(caps) + SummaryLen + Len(v)
  <2>1. HeaderLen \in Nat
    BY DEF HeaderLen
  <2>2. HeaderLen <= Len(a)
    BY <1>4, <1>8, <1>9, <2>1
  <2>3. Len(a) <= Len(b)
    BY <1>8, <1>10, <1>15
  <2>4. Len(b) <= Len(c)
    BY <1>8, <1>11, <1>15
  <2> QED  BY <1>13, <1>14, <2>2, <2>3, <2>4
<1> QED  BY <1>1, <1>3, <1>4, <1>13, <1>14, <1>15, <1>17, <1>18, <1>19, <1>20, <1>21,
            <1>22, <1>23 DEF Laid

\* The file as it is written: the digest covers everything else.
Filed(caps, epoch, bytes) ==
    /\ IsSeq(bytes)
    /\ StringsAt(caps) \in Nat /\ RelationsAt(caps) \in Nat /\ IndexAt(caps) \in Nat
    /\ HeaderLen <= StringsAt(caps) /\ StringsAt(caps) <= RelationsAt(caps)
    /\ RelationsAt(caps) <= IndexAt(caps)
    /\ Len(bytes) = IndexAt(caps) + SummaryLen + Len(FlattenSeq(VectorsOf(caps)))
    /\ HeaderLen <= Len(bytes)
    /\ \A k \in 1 .. HeaderLen : k # HashOffset => bytes[k] = HeaderOf(caps, epoch)[k]
    /\ bytes[HashOffset] = SegmentHash(bytes)
    /\ Inside(bytes, HeaderLen, FlattenSeq(RowsOf(caps)))
    /\ Inside(bytes, StringsAt(caps), FlattenSeq(TextsOf(caps)))
    /\ Inside(bytes, RelationsAt(caps), FlattenSeq(RelationsOf(caps)))
    /\ Inside(bytes, IndexAt(caps), SummaryOf(caps))
    /\ Inside(bytes, IndexAt(caps) + SummaryLen, FlattenSeq(VectorsOf(caps)))

\* Writing the digest disturbs nothing else, nor the digest itself.
LEMMA HashedCells ==
    ASSUME NEW u, IsSeq(u), HashOffset <= Len(u)
    PROVE  /\ IsSeq(Hashed(u)) /\ Len(Hashed(u)) = Len(u)
           /\ \A k \in 1 .. Len(u) : k # HashOffset => Hashed(u)[k] = u[k]
           /\ Hashed(u)[HashOffset] = SegmentHash(Hashed(u))
<1>1. Len(u) \in Nat /\ DOMAIN u = 1 .. Len(u) /\ u = [k \in 1 .. Len(u) |-> u[k]]
  BY SeqFacts
<1>2. HashOffset \in 1 .. Len(u)
  BY <1>1 DEF HashOffset
<1>3. PICK w : w = Hashed(u)
  OBVIOUS
<1>4. w = [k \in 1 .. Len(u) |-> IF k = HashOffset THEN SegmentHash(u) ELSE u[k]]
  BY <1>1, <1>3 DEF Hashed
<1>5. w = [k \in 1 .. Len(u) |-> w[k]]
  BY <1>4
<1>6. IsSeq(w) /\ Len(w) = Len(u) /\ DOMAIN w = 1 .. Len(u)
  BY <1>1, <1>5, SeqFrom, SeqFacts
<1>7. [w EXCEPT ![HashOffset] = 0] = [u EXCEPT ![HashOffset] = 0]
  <2>1. [w EXCEPT ![HashOffset] = 0] = [k \in 1 .. Len(u) |-> IF k = HashOffset THEN 0 ELSE w[k]]
    BY <1>6
  <2>2. [u EXCEPT ![HashOffset] = 0] = [k \in 1 .. Len(u) |-> IF k = HashOffset THEN 0 ELSE u[k]]
    BY <1>1
  <2>3. \A k \in 1 .. Len(u) : (IF k = HashOffset THEN 0 ELSE w[k])
                                 = IF k = HashOffset THEN 0 ELSE u[k]
    BY <1>4
  <2> QED  BY <2>1, <2>2, <2>3
<1>8. SegmentHash(w) = SegmentHash(u)
  BY <1>7 DEF SegmentHash
<1> QED  BY <1>2, <1>3, <1>4, <1>6, <1>8

LEMMA InsideHashed ==
    ASSUME NEW u, IsSeq(u), NEW w, Len(w) = Len(u),
           \A k \in 1 .. Len(u) : k # HashOffset => w[k] = u[k],
           NEW at \in Nat, HashOffset <= at, NEW part, IsSeq(part), Inside(u, at, part)
    PROVE  Inside(w, at, part)
<1>1. Len(u) \in Nat /\ Len(part) \in Nat /\ HashOffset \in Nat
  BY SeqFacts DEF HashOffset
<1>2. ASSUME NEW k \in 1 .. Len(part)  PROVE w[at + k] = part[k]
  <2>1. at + k \in 1 .. Len(u) /\ at + k # HashOffset
    BY <1>1 DEF Inside
  <2> QED  BY <2>1 DEF Inside
<1> QED  BY <1>2 DEF Inside

LEMMA HashedIsFiled ==
    ASSUME NEW caps, Storables(caps), NEW epoch, NEW u, Laid(caps, epoch, u)
    PROVE  Filed(caps, epoch, Hashed(u))
<1>1. PICK w, r, t, e, m, v :
          /\ w = Hashed(u) /\ r = FlattenSeq(RowsOf(caps))
          /\ t = FlattenSeq(TextsOf(caps)) /\ e = FlattenSeq(RelationsOf(caps))
          /\ m = SummaryOf(caps) /\ v = FlattenSeq(VectorsOf(caps))
  OBVIOUS
<1>2. IsSeq(r) /\ IsSeq(t) /\ IsSeq(e) /\ IsSeq(v) /\ IsSeq(m)
  BY <1>1, AreaPieces, FlattenPieces, PairSeq DEF SummaryOf
<1>3. /\ IsSeq(u) /\ StringsAt(caps) \in Nat /\ RelationsAt(caps) \in Nat
      /\ IndexAt(caps) \in Nat /\ HeaderLen <= StringsAt(caps)
      /\ StringsAt(caps) <= RelationsAt(caps) /\ RelationsAt(caps) <= IndexAt(caps)
      /\ Len(u) = IndexAt(caps) + SummaryLen + Len(v)
      /\ Inside(u, 0, HeaderOf(caps, epoch)) /\ Inside(u, HeaderLen, r)
      /\ Inside(u, StringsAt(caps), t) /\ Inside(u, RelationsAt(caps), e)
      /\ Inside(u, IndexAt(caps), m) /\ Inside(u, IndexAt(caps) + SummaryLen, v)
  BY <1>1 DEF Laid
<1>4. /\ HeaderLen = 13 /\ HashOffset = 11 /\ SummaryLen = 2
      /\ Len(u) \in Nat /\ Len(v) \in Nat /\ HeaderLen <= Len(u) /\ HashOffset <= Len(u)
  BY <1>2, <1>3, SeqFacts DEF HeaderLen, HashOffset, SummaryLen
<1>5. /\ IsSeq(w) /\ Len(w) = Len(u)
      /\ \A k \in 1 .. Len(u) : k # HashOffset => w[k] = u[k]
      /\ w[HashOffset] = SegmentHash(w)
  BY <1>1, <1>3, <1>4, HashedCells
<1>6. \A k \in 1 .. HeaderLen : k # HashOffset => w[k] = HeaderOf(caps, epoch)[k]
  <2> SUFFICES ASSUME NEW k \in 1 .. HeaderLen, k # HashOffset
               PROVE  w[k] = HeaderOf(caps, epoch)[k]
    OBVIOUS
  <2>1. k \in 1 .. Len(u) /\ 0 + k = k /\ Len(HeaderOf(caps, epoch)) = HeaderLen
    BY <1>4, HeaderCells
  <2>2. u[0 + k] = HeaderOf(caps, epoch)[k]
    BY <1>3, <2>1 DEF Inside
  <2> QED  BY <1>5, <2>1, <2>2
<1>7. ASSUME NEW at \in Nat, HeaderLen <= at, NEW p, IsSeq(p), Inside(u, at, p)
      PROVE  Inside(w, at, p)
  <2>1. HashOffset <= at
    BY <1>4, <1>7
  <2> QED  BY <1>3, <1>5, <1>7, <2>1, InsideHashed
<1>8. /\ HeaderLen \in Nat /\ HeaderLen <= HeaderLen /\ HeaderLen <= RelationsAt(caps)
      /\ HeaderLen <= IndexAt(caps) /\ IndexAt(caps) + SummaryLen \in Nat
      /\ HeaderLen <= IndexAt(caps) + SummaryLen
  BY <1>3, <1>4
<1>9. Inside(w, HeaderLen, r)
  BY <1>2, <1>3, <1>7, <1>8
<1>10. Inside(w, StringsAt(caps), t)
  BY <1>2, <1>3, <1>7, <1>8
<1>11. Inside(w, RelationsAt(caps), e)
  BY <1>2, <1>3, <1>7, <1>8
<1>12. Inside(w, IndexAt(caps), m)
  BY <1>2, <1>3, <1>7, <1>8
<1>13. Inside(w, IndexAt(caps) + SummaryLen, v)
  BY <1>2, <1>3, <1>7, <1>8
<1> QED  BY <1>1, <1>3, <1>4, <1>5, <1>6, <1>9, <1>10, <1>11, <1>12, <1>13 DEF Filed

LEMMA SortedStorables ==
    ASSUME NEW caps, Storables(caps)
    PROVE  /\ Storables(SortedById(caps)) /\ Len(SortedById(caps)) = Len(caps)
           /\ \E order : Reorders(caps, SortedById(caps), order)
<1>1. ASSUME NEW i \in 1 .. Len(caps)  PROVE caps[i].id \in Int
  <2>1. Storable(caps[i])
    BY DEF Storables
  <2>2. caps[i].id \in Nat
    BY <2>1 DEF Storable
  <2> QED  BY <2>2
<1>2. PICK order : Reorders(caps, SortedById(caps), order)
  BY <1>1, SortedByIdReorders DEF Storables
<1>3. PICK s : s = SortedById(caps)
  OBVIOUS
<1>4. s = [i \in 1 .. Len(caps) |-> caps[order[i]]] /\ Len(caps) \in Nat
      /\ \A i \in 1 .. Len(caps) : order[i] \in 1 .. Len(caps)
  BY <1>2, <1>3, SeqFacts DEF Reorders, Storables
<1>5. s = [i \in 1 .. Len(caps) |-> s[i]]
  BY <1>4
<1>6. IsSeq(s) /\ Len(s) = Len(caps)
  BY <1>4, <1>5, SeqFrom
<1>7. Storables(s)
  BY <1>4, <1>6 DEF Storables
<1> QED  BY <1>2, <1>3, <1>6, <1>7

\* What is assembled is laid out, and digested, over the sorted memories.
LEMMA AssembledIsFiled ==
    ASSUME NEW caps, Storables(caps), NEW epoch, Assemble(caps, epoch) # Malformed
    PROVE  /\ Filed(SortedById(caps), epoch, Assemble(caps, epoch))
           /\ SameDimension(SortedById(caps))
<1>1. PICK s : s = SortedById(caps)
  OBVIOUS
<1>2. Storables(s)
  BY <1>1, SortedStorables
<1>3. SameDimension(s) /\ Assemble(caps, epoch) = Hashed(Unhashed(s, epoch))
  BY <1>1, AssembleParts
<1>4. Laid(s, epoch, Unhashed(s, epoch))
  BY <1>2, UnhashedIsLaid
<1>5. Filed(s, epoch, Hashed(Unhashed(s, epoch)))
  BY <1>2, <1>4, HashedIsFiled
<1> QED  BY <1>1, <1>3, <1>5

-----------------------------------------------------------------------------
(* What the views of a product export are made of.                         *)

LEMMA FlattenTyped ==
    ASSUME NEW S, NEW ss, IsSeq(ss), \A i \in 1 .. Len(ss) : ss[i] \in Seq(S)
    PROVE  FlattenSeq(ss) \in Seq(S)
<1>1. Len(ss) \in Nat /\ Pieces(ss)
  BY SeqFacts, TypedIsSeq DEF Pieces
<1> DEFINE H == {n \in Nat : n <= Len(ss) => FirstPieces(ss, n) \in Seq(S)}
<1>2. 0 \in H
  BY DEF FirstPieces
<1>3. \A n \in H : n + 1 \in H
  <2> SUFFICES ASSUME NEW n \in H, n + 1 <= Len(ss)
               PROVE  FirstPieces(ss, n + 1) \in Seq(S)
    OBVIOUS
  <2>1. PICK h \in Nat : h = n + 1
    OBVIOUS
  <2>2. PICK s, t : s = FirstPieces(ss, n) /\ t = ss[h]
    OBVIOUS
  <2>3. h \in 1 .. Len(ss) /\ h - 1 = n /\ s \in Seq(S) /\ t \in Seq(S)
    BY <1>1, <2>1, <2>2
  <2>4. FirstPieces(ss, h) = Joined(s, t)
    BY <1>1, <2>2, <2>3, NextPiece
  <2>5. Joined(s, t) \in Seq(S)
    BY <2>3 DEF Joined
  <2> QED  BY <2>1, <2>4, <2>5
<1>4. H = Nat
  <2>1. H \in SUBSET Nat
    OBVIOUS
  <2> HIDE DEF H
  <2> QED  BY <1>2, <1>3, <2>1, Induction
<1> QED  BY <1>1, <1>4, FlattenAll

\* What is mapped over a sequence is a sequence.
LEMMA MappedSeq ==
    ASSUME NEW s, IsSeq(s), NEW t, t = [i \in DOMAIN s |-> t[i]]
    PROVE  IsSeq(t) /\ Len(t) = Len(s) /\ Len(s) \in Nat /\ DOMAIN s = 1 .. Len(s)
<1>1. Len(s) \in Nat /\ DOMAIN s = 1 .. Len(s)
  BY SeqFacts
<1> QED  BY <1>1, SeqFrom

Short(raw) == raw.uri # None => Len(raw.uri) < MaxI64

\* Each view of a record is JSON that serde would read.
LEMMA ViewIsRaw ==
    ASSUME NEW records \in Exports, NEW v \in DOMAIN Views, NEW record \in Range(records),
           NEW turn \in {SessionTurn} \cup {t.turn : t \in Range(record.turns)},
           NEW text \in Seq(Nat)
    PROVE  /\ RecordToCapsule(record, v, turn, text) \in RawCapsule
           /\ Short(RecordToCapsule(record, v, turn, text))
<1>1. records \in Seq(ProductMemoryRecord)
  BY InputsAssumption
<1>2. record \in ProductMemoryRecord
  BY <1>1 DEF Range
<1>3. /\ record.memory \in Nat /\ record.session \in Nat /\ record.tenant \in Nat
      /\ record.evidence \in Nat /\ record.copied \in Nat
      /\ record.ctx \in Numbers /\ record.policy \in Numbers
      /\ record.from \in Int /\ record.until \in Int \cup {None} /\ record.observed \in Int
      /\ record.turns \in Seq(ProductTurn)
  BY <1>2 DEF ProductMemoryRecord
<1>4. turn \in Nat
  <2>1. \A t \in Range(record.turns) : t \in ProductTurn
    BY <1>3 DEF Range
  <2> QED  BY <2>1 DEF ProductTurn, SessionTurn
<1>5. v \in 1 .. 5
  BY DEF Views
<1>6. PICK id : id = StableId(<<record.memory, record.session, turn, v>>)
  OBVIOUS
<1>7. id \in Nat
  BY <1>6, StableIdAssumption
<1>8. PICK uri : uri = <<record.memory, record.session, turn, record.evidence, v>>
  OBVIOUS
<1>9. uri \in Seq(Nat) /\ Len(uri) = 5
  BY <1>3, <1>4, <1>5, <1>8
<1>10. PICK none, empty : none = <<>> /\ empty = None
  OBVIOUS
<1>11. none \in Seq(RawRelationEdge)
  BY <1>10
<1>12. RecordToCapsule(record, v, turn, text) =
         [id |-> id, tenant |-> record.tenant, ctx |-> record.ctx, policy |-> record.policy,
          copied |-> record.copied, claim |-> text, evidence |-> uri, uri |-> uri,
          from |-> record.from, until |-> record.until,
          observed |-> record.observed, verified |-> record.observed,
          anchors |-> None, entities |-> None, embedding |-> None, edges |-> none]
  BY <1>6, <1>8, <1>10 DEF RecordToCapsule
<1>13. RecordToCapsule(record, v, turn, text) \in RawCapsule
  BY <1>3, <1>7, <1>9, <1>11, <1>12 DEF RawCapsule, Numbers
<1>14. Len(Views) = 5
  BY DEF Views
<1>15. RecordToCapsule(record, v, turn, text).uri = uri
  BY <1>12
<1>16. Len(uri) < MaxI64
  BY <1>9, <1>14, LengthAssumption
<1> QED  BY <1>13, <1>15, <1>16 DEF Short

LEMMA SessionTextType ==
    ASSUME NEW record \in ProductMemoryRecord
    PROVE  SessionText(record) \in Seq(Nat)
<1>1. record.turns \in Seq(ProductTurn)
  BY DEF ProductMemoryRecord
<1>2. PICK turns, ss : /\ turns = record.turns
                       /\ ss = [i \in DOMAIN turns |-> Joined(<<turns[i].role>>, turns[i].text)]
  OBVIOUS
<1>3. turns \in Seq(ProductTurn) /\ IsSeq(turns)
  BY <1>1, <1>2, TypedIsSeq
<1>4. IsSeq(ss) /\ Len(ss) = Len(turns) /\ DOMAIN turns = 1 .. Len(turns)
  BY <1>2, <1>3, MappedSeq
<1>5. ASSUME NEW i \in 1 .. Len(ss)  PROVE ss[i] \in Seq(Nat)
  <2>1. turns[i] \in ProductTurn
    BY <1>3, <1>4
  <2>2. PICK role, text : role = turns[i].role /\ text = turns[i].text
    OBVIOUS
  <2>3. role \in Nat /\ text \in Seq(Nat)
    BY <2>1, <2>2 DEF ProductTurn
  <2>4. <<role>> \o text \in Seq(Nat)
    BY <2>3
  <2> QED  BY <1>2, <1>4, <2>2, <2>4 DEF Joined
<1>6. FlattenSeq(ss) \in Seq(Nat)
  BY <1>4, <1>5, FlattenTyped
<1>7. SessionText(record) = FlattenSeq(ss)
  BY <1>2 DEF SessionText, Joined
<1> QED  BY <1>6, <1>7

Fitting == {raw \in RawCapsule : Short(raw)}

LEMMA AtMostOne ==
    ASSUME NEW S, NEW x \in S
    PROVE  <<x>> \in Seq(S) /\ <<>> \in Seq(S)
OBVIOUS

LEMMA ViewCapsulesType ==
    ASSUME NEW records \in Exports, NEW v \in DOMAIN Views
    PROVE  ViewCapsules(records, v) \in Seq(Fitting)
<1> DEFINE Wanted(turn) == /\ Views[v] = "user-turn" => turn.role = User
                           /\ Views[v] = "assistant-turn" => turn.role = Assistant
           OfTurn(record, turn) ==
               IF Wanted(turn) THEN <<RecordToCapsule(record, v, turn.turn, turn.text)>>
               ELSE <<>>
           Turns(record) == [i \in DOMAIN record.turns |-> OfTurn(record, record.turns[i])]
           Of(record) ==
               IF Views[v] = "session"
               THEN <<RecordToCapsule(record, v, SessionTurn, SessionText(record))>>
               ELSE FlattenSeq(Turns(record))
           Parts == [i \in DOMAIN records |-> Of(records[i])]
<1>1. ViewCapsules(records, v) = FlattenSeq(Parts)
  BY DEF ViewCapsules
<1>2. records \in Seq(ProductMemoryRecord) /\ IsSeq(records)
  BY InputsAssumption, TypedIsSeq
<1>3. ASSUME NEW record \in Range(records)  PROVE Of(record) \in Seq(Fitting)
  <2>1. record \in ProductMemoryRecord
    BY <1>2 DEF Range
  <2>2. CASE Views[v] = "session"
    <3>1. PICK raw : raw = RecordToCapsule(record, v, SessionTurn, SessionText(record))
      OBVIOUS
    <3>2. SessionText(record) \in Seq(Nat)
      BY <2>1, SessionTextType
    <3>3. raw \in Fitting
      BY <3>1, <3>2, ViewIsRaw DEF Fitting
    <3>4. Of(record) = <<raw>>
      BY <2>2, <3>1
    <3>5. <<raw>> \in Seq(Fitting)
      BY <3>3, AtMostOne
    <3> HIDE DEF Of
    <3> QED  BY <3>4, <3>5
  <2>3. CASE Views[v] # "session"
    <3>1. record.turns \in Seq(ProductTurn)
      BY <2>1 DEF ProductMemoryRecord
    <3>2. PICK turns, ss : turns = record.turns /\ ss = Turns(record)
      OBVIOUS
    <3>3. turns \in Seq(ProductTurn) /\ IsSeq(turns)
      BY <3>1, <3>2, TypedIsSeq
    <3>4. /\ ss = [i \in DOMAIN turns |-> ss[i]]
          /\ \A i \in DOMAIN turns : ss[i] = OfTurn(record, turns[i])
      BY <3>2
    <3> HIDE DEF Turns
    <3>5. IsSeq(ss) /\ Len(ss) = Len(turns) /\ DOMAIN turns = 1 .. Len(turns)
      BY <3>3, <3>4, MappedSeq
    <3>6. ASSUME NEW i \in 1 .. Len(ss)  PROVE ss[i] \in Seq(Fitting)
      <4>1. PICK turn : turn = turns[i]
        OBVIOUS
      <4>2. turn \in Range(record.turns) /\ turn \in ProductTurn
        BY <3>2, <3>3, <3>5, <4>1 DEF Range
      <4>3. turn.turn \in {SessionTurn} \cup {t.turn : t \in Range(record.turns)}
        BY <4>2
      <4>4. turn.text \in Seq(Nat)
        BY <4>2 DEF ProductTurn
      <4>5. PICK raw : raw = RecordToCapsule(record, v, turn.turn, turn.text)
        OBVIOUS
      <4>6. raw \in Fitting
        BY <4>3, <4>4, <4>5, ViewIsRaw DEF Fitting
      <4>7. ss[i] = <<raw>> \/ ss[i] = <<>>
        BY <3>4, <3>5, <4>1, <4>5
      <4>8. <<raw>> \in Seq(Fitting) /\ <<>> \in Seq(Fitting)
        BY <4>6, AtMostOne
      <4> QED  BY <4>7, <4>8
    <3>7. FlattenSeq(ss) \in Seq(Fitting)
      BY <3>5, <3>6, FlattenTyped
    <3> QED  BY <2>3, <3>2, <3>7
  <2> QED  BY <2>2, <2>3
<1>4. PICK ss : ss = Parts
  OBVIOUS
<1>5. /\ ss = [i \in DOMAIN records |-> ss[i]]
      /\ \A i \in DOMAIN records : ss[i] = Of(records[i])
  BY <1>4
<1> HIDE DEF Parts, Of
<1>6. IsSeq(ss) /\ Len(ss) = Len(records) /\ DOMAIN records = 1 .. Len(records)
  BY <1>2, <1>5, MappedSeq
<1>7. \A i \in 1 .. Len(ss) : ss[i] \in Seq(Fitting)
  BY <1>3, <1>5, <1>6 DEF Range
<1>8. FlattenSeq(ss) \in Seq(Fitting)
  BY <1>6, <1>7, FlattenTyped
<1> QED  BY <1>1, <1>4, <1>8

-----------------------------------------------------------------------------
(* What the file is, and what may have become of it.                       *)

\* Everything compiled from JSON is a memory.
LEMMA CompiledAreMemories ==
    ASSUME NEW raws \in Seq(Fitting), NEW caps, caps = [i \in DOMAIN raws |-> FromJson(raws[i])],
           Malformed \notin Range(caps)
    PROVE  caps \in Seq(Memories)
<1>1. IsSeq(raws)
  BY TypedIsSeq
<1>2. caps = [i \in DOMAIN raws |-> caps[i]] /\ \A i \in DOMAIN raws : caps[i] = FromJson(raws[i])
  OBVIOUS
<1>3. IsSeq(caps) /\ Len(caps) = Len(raws) /\ DOMAIN raws = 1 .. Len(raws)
  BY <1>1, <1>2, MappedSeq
<1>4. ASSUME NEW i \in 1 .. Len(caps)  PROVE caps[i] \in Memories
  <2>1. PICK raw : raw = raws[i]
    OBVIOUS
  <2>2. raw \in RawCapsule /\ Short(raw)
    BY <1>3, <2>1 DEF Fitting
  <2>3. caps[i] \in Range(caps) /\ caps[i] = FromJson(raw)
    BY <1>2, <1>3, <2>1 DEF Range
  <2>4. FromJson(raw) # Malformed
    BY <2>3
  <2>5. Readable(raw)
    BY <2>4 DEF FromJson
  <2> QED  BY <2>2, <2>3, <2>5 DEF Memories, Raws, Short
<1> QED  BY <1>3, <1>4, SeqInto

LEMMA MemoriesStorable ==
    ASSUME NEW caps \in Seq(Memories)
    PROVE  Storables(caps)
<1>1. IsSeq(caps) /\ \A i \in 1 .. Len(caps) : caps[i] \in Memories
  BY TypedIsSeq
<1> QED  BY <1>1, MemoriesAreStorable DEF Storables

Bytes(s) == Assemble(s.caps, s.epoch)

\* The file as it was written.
Whole(s) == IF s.sealed THEN Seal(Bytes(s), SealKey) ELSE Bytes(s)

\* A proper beginning, or one cell altered.
Spoilt(whole, cells) ==
    \/ \E n \in 0 .. Len(whole) - 1 : cells = SubSeq(whole, 1, n)
    \/ \E i \in 1 .. Len(whole) : whole[i] # Garbage /\ cells = [whole EXCEPT ![i] = Garbage]

Compiled(s) ==
    /\ DOMAIN s = {"caps", "epoch", "sealed", "lines"}
    /\ s.caps \in Seq(Memories)
    /\ s.sealed \in BOOLEAN
    /\ Bytes(s) # Malformed

FileInv ==
    /\ damaged \in BOOLEAN
    /\ file # NoFile =>
        /\ Compiled(source)
        /\ ~damaged => file = Whole(source)
        /\ damaged => Spoilt(Whole(source), file)

LEMMA WholeSeq ==
    ASSUME NEW s, Compiled(s)
    PROVE  IsSeq(Whole(s))
<1>1. CASE s.sealed
  BY <1>1, TripleSeq DEF Whole, Seal
<1>2. CASE ~s.sealed
  <2>1. PICK caps, epoch : caps = s.caps /\ epoch = s.epoch
    OBVIOUS
  <2>2. Storables(caps)
    BY <2>1, MemoriesStorable DEF Compiled
  <2>3. Filed(SortedById(caps), epoch, Assemble(caps, epoch))
    BY <2>1, <2>2, AssembledIsFiled DEF Compiled, Bytes
  <2> QED  BY <1>2, <2>1, <2>3 DEF Whole, Bytes, Filed
<1> QED  BY <1>1, <1>2 DEF Compiled

LEMMA WriteKeeps ==
    ASSUME NEW caps \in Seq(Memories), NEW epoch, NEW sealed \in BOOLEAN,
           Write(caps, epoch, sealed)
    PROVE  FileInv'
<1>1. PICK s : s = [caps |-> caps, epoch |-> epoch, sealed |-> sealed, lines |-> Len(log)]
  OBVIOUS
<1>2. s.caps = caps /\ s.epoch = epoch /\ s.sealed = sealed /\ s.lines = Len(log)
  BY <1>1
<1>3. Bytes(s) = Assemble(caps, epoch)
  BY <1>2 DEF Bytes
<1>4. /\ Bytes(s) # Malformed /\ file' = Whole(s) /\ source' = s /\ damaged' = FALSE
  BY <1>1, <1>2, <1>3 DEF Write, Whole
<1>5. Compiled(s)
  BY <1>1, <1>2, <1>4 DEF Compiled
<1> QED  BY <1>4, <1>5 DEF FileInv

LEMMA FileInvInductive ==
    /\ Init => FileInv
    /\ StoreInv /\ FileInv /\ [Next]_vars => FileInv'
<1>1. Init => FileInv
  BY DEF Init, FileInv
<1>2. ASSUME FileInv, UNCHANGED <<file, source, damaged>>  PROVE FileInv'
  BY <1>2 DEF FileInv
<1>3. ASSUME FileInv, NEW raws \in Seq(Fitting), NEW sealed \in BOOLEAN,
             CompileJson(raws, sealed)
      PROVE  FileInv'
  <2>1. PICK caps : caps = [i \in DOMAIN raws |-> FromJson(raws[i])]
    OBVIOUS
  <2>2. Malformed \notin Range(caps) /\ Write(caps, 1, sealed)
    BY <1>3, <2>1 DEF CompileJson
  <2>3. caps \in Seq(Memories)
    BY <2>1, <2>2, CompiledAreMemories
  <2> QED  BY <2>2, <2>3, WriteKeeps
<1>4. ASSUME NEW raws \in Documents  PROVE raws \in Seq(Fitting)
  <2>1. raws \in Seq(RawCapsule) /\ IsSeq(raws)
    BY InputsAssumption, TypedIsSeq
  <2>2. ASSUME NEW i \in 1 .. Len(raws)  PROVE raws[i] \in Fitting
    <3>1. raws[i] \in RawCapsule /\ raws[i] \in Range(raws)
      BY <2>1 DEF Range
    <3>2. Short(raws[i])
      BY <3>1, LengthAssumption DEF Short
    <3> QED  BY <3>1, <3>2 DEF Fitting
  <2> QED  BY <2>1, <2>2, SeqInto
<1>5. ASSUME StoreInv, Checkpoint  PROVE FileInv'
  <2>1. PICK caps, epoch : caps = live /\ epoch = Len(log) + 1
    OBVIOUS
  <2>2. caps \in Seq(Memories) /\ Write(caps, epoch, FALSE)
    BY <1>5, <2>1 DEF StoreInv, Checkpoint
  <2> QED  BY <2>2, WriteKeeps
<1>6. ASSUME FileInv, SealFile  PROVE FileInv'
  <2>1. PICK s, t : s = source /\ t = [s EXCEPT !.sealed = TRUE]
    OBVIOUS
  <2>2. /\ Compiled(s) /\ ~s.sealed /\ file = Whole(s)
        /\ file' = Seal(file, SealKey) /\ source' = t /\ damaged' = FALSE
    BY <1>6, <2>1 DEF SealFile, FileInv
  <2>3. /\ t.caps = s.caps /\ t.epoch = s.epoch /\ t.sealed = TRUE
        /\ DOMAIN t = {"caps", "epoch", "sealed", "lines"}
    BY <2>1, <2>2 DEF Compiled
  <2>4. Bytes(t) = Bytes(s) /\ file = Bytes(s)
    BY <2>2, <2>3 DEF Bytes, Whole
  <2>5. Compiled(t) /\ file' = Whole(t)
    BY <2>2, <2>3, <2>4 DEF Compiled, Whole
  <2> QED  BY <2>2, <2>5 DEF FileInv
<1>7. ASSUME FileInv, Damageable  PROVE /\ IsSeq(file) /\ file = Whole(source) /\ Compiled(source)
                                        /\ DOMAIN file = 1 .. Len(file)
  <2>1. file = Whole(source) /\ Compiled(source)
    BY <1>7 DEF Damageable, FileInv
  <2>2. PICK s : s = source
    OBVIOUS
  <2>3. IsSeq(Whole(s))
    BY <2>1, <2>2, WholeSeq
  <2> QED  BY <2>1, <2>2, <2>3, SeqFacts
<1>8. ASSUME FileInv, Damageable, NEW n \in 0 .. Len(file) - 1, Cut(n)  PROVE FileInv'
  BY <1>7, <1>8 DEF Cut, FileInv, Spoilt
<1>9. ASSUME FileInv, Damageable, NEW i \in DOMAIN file, Alter(i)  PROVE FileInv'
  BY <1>7, <1>9 DEF Alter, FileInv, Spoilt
<1>10. ASSUME StoreInv, FileInv, Next  PROVE FileInv'
  <2>1. CASE \E raw \in Inserts : Insert(raw)
    BY <1>2, <1>10, <2>1 DEF Insert
  <2>2. CASE Checkpoint
    BY <1>5, <1>10, <2>2
  <2>3. CASE \E raws \in Documents, sealed \in BOOLEAN : CompileJson(raws, sealed)
    BY <1>3, <1>4, <1>10, <2>3
  <2>4. CASE \E records \in Exports, v \in DOMAIN Views : CompileProduct(records, v)
    <3>1. PICK records \in Exports, v \in DOMAIN Views : CompileProduct(records, v)
      BY <2>4
    <3>2. PICK raws : raws = ViewCapsules(records, v)
      OBVIOUS
    <3>3. raws \in Seq(Fitting) /\ CompileJson(raws, FALSE)
      BY <3>1, <3>2, ViewCapsulesType DEF CompileProduct
    <3> QED  BY <1>3, <1>10, <3>3
  <2>5. CASE SealFile
    BY <1>6, <1>10, <2>5
  <2>6. CASE Damageable /\ \E n \in 0 .. Len(file) - 1 : Cut(n)
    BY <1>8, <1>10, <2>6
  <2>7. CASE Damageable /\ \E i \in DOMAIN file : Alter(i)
    BY <1>9, <1>10, <2>7
  <2> QED  BY <1>10, <2>1, <2>2, <2>3, <2>4, <2>5, <2>6, <2>7 DEF Next
<1>11. ASSUME FileInv, UNCHANGED vars  PROVE FileInv'
  BY <1>2, <1>11 DEF vars
<1> QED  BY <1>1, <1>10, <1>11

LEMMA CompiledIsFiled ==
    ASSUME NEW s, Compiled(s)
    PROVE  /\ Storables(s.caps) /\ Storables(SortedById(s.caps))
           /\ Filed(SortedById(s.caps), s.epoch, Bytes(s))
           /\ SameDimension(SortedById(s.caps))
<1>1. PICK caps, epoch : caps = s.caps /\ epoch = s.epoch
  OBVIOUS
<1>2. caps \in Seq(Memories) /\ Assemble(caps, epoch) # Malformed
      /\ Bytes(s) = Assemble(caps, epoch)
  BY <1>1 DEF Compiled, Bytes
<1>3. Storables(caps)
  BY <1>2, MemoriesStorable
<1>4. Storables(SortedById(caps))
  BY <1>3, SortedStorables
<1>5. Filed(SortedById(caps), epoch, Assemble(caps, epoch)) /\ SameDimension(SortedById(caps))
  BY <1>2, <1>3, AssembledIsFiled
<1> QED  BY <1>1, <1>2, <1>3, <1>4, <1>5

LEMMA PlainFile ==
    ASSUME NEW s, Compiled(s)
    PROVE  /\ IsSeq(Bytes(s)) /\ Len(Bytes(s)) >= HeaderLen
           /\ Bytes(s)[1] = Magic /\ Bytes(s)[HashOffset] = SegmentHash(Bytes(s))
<1>1. PICK caps, epoch : caps = SortedById(s.caps) /\ epoch = s.epoch
  OBVIOUS
<1>2. Filed(caps, epoch, Bytes(s))
  BY <1>1, CompiledIsFiled
<1>3. /\ IsSeq(Bytes(s)) /\ HeaderLen <= Len(Bytes(s)) /\ Len(Bytes(s)) \in Nat
      /\ Bytes(s)[HashOffset] = SegmentHash(Bytes(s))
  BY <1>2, SeqFacts DEF Filed
<1>4. 1 \in 1 .. HeaderLen /\ 1 # HashOffset /\ HeaderLen \in Nat
  BY DEF HeaderLen, HashOffset
<1>5. Bytes(s)[1] = HeaderOf(caps, epoch)[1]
  BY <1>2, <1>4 DEF Filed
<1>6. HeaderOf(caps, epoch)[1] = Magic
  BY DEF HeaderOf, Header
<1> QED  BY <1>3, <1>4, <1>5, <1>6

\* No two files have one digest.
LEMMA DigestTells ==
    ASSUME NEW u, NEW w, SegmentHash(u) = SegmentHash(w)
    PROVE  [u EXCEPT ![HashOffset] = 0] = [w EXCEPT ![HashOffset] = 0]
<1>1. PICK a, b : a = [u EXCEPT ![HashOffset] = 0] /\ b = [w EXCEPT ![HashOffset] = 0]
  OBVIOUS
<1>2. <<"blake3", a>> = <<"blake3", b>>
  BY <1>1 DEF SegmentHash, Hash
<1>3. a = b
  BY <1>2
<1> QED  BY <1>1, <1>3

LEMMA SpoiltIsSeq ==
    ASSUME NEW whole, IsSeq(whole), NEW cells, Spoilt(whole, cells)
    PROVE  /\ IsSeq(cells) /\ Len(whole) \in Nat
           /\ \/ /\ Len(cells) < Len(whole) /\ \A k \in 1 .. Len(cells) : cells[k] = whole[k]
              \/ /\ Len(cells) = Len(whole)
                 /\ \E i \in 1 .. Len(whole) :
                        /\ whole[i] # Garbage /\ cells[i] = Garbage
                        /\ \A k \in 1 .. Len(whole) : k # i => cells[k] = whole[k]
<1>1. Len(whole) \in Nat /\ DOMAIN whole = 1 .. Len(whole)
  BY SeqFacts
<1>2. CASE \E n \in 0 .. Len(whole) - 1 : cells = SubSeq(whole, 1, n)
  <2>1. PICK n \in 0 .. Len(whole) - 1 : cells = SubSeq(whole, 1, n)
    BY <1>2
  <2>2. PICK m : m = 1
    OBVIOUS
  <2>3. m \in 1 .. Len(whole) + 1 /\ n \in 0 .. Len(whole) /\ m <= n + 1 /\ n - m + 1 = n
    BY <1>1, <2>2
  <2>4. /\ IsSeq(SubSeq(whole, m, n)) /\ Len(SubSeq(whole, m, n)) = n - m + 1
        /\ \A i \in 1 .. n - m + 1 : SubSeq(whole, m, n)[i] = whole[m + i - 1]
    BY <2>3, PartSeq
  <2>5. \A i \in 1 .. n : m + i - 1 = i
    BY <2>2
  <2>6. cells = SubSeq(whole, m, n)
    BY <2>1, <2>2
  <2>7. IsSeq(cells) /\ Len(cells) = n /\ \A i \in 1 .. n : cells[i] = whole[m + i - 1]
    BY <2>3, <2>4, <2>6
  <2>8. \A i \in 1 .. n : cells[i] = whole[i]
    BY <2>5, <2>7
  <2>9. Len(cells) < Len(whole) /\ \A k \in 1 .. Len(cells) : cells[k] = whole[k]
    BY <1>1, <2>7, <2>8
  <2> QED  BY <1>1, <2>7, <2>9
<1>3. CASE \E i \in 1 .. Len(whole) : whole[i] # Garbage /\ cells = [whole EXCEPT ![i] = Garbage]
  <2>1. PICK i \in 1 .. Len(whole) :
            whole[i] # Garbage /\ cells = [whole EXCEPT ![i] = Garbage]
    BY <1>3
  <2>2. cells = [k \in 1 .. Len(whole) |-> IF k = i THEN Garbage ELSE whole[k]]
    BY <1>1, <2>1
  <2>3. cells = [k \in 1 .. Len(whole) |-> cells[k]]
    BY <2>2
  <2>4. IsSeq(cells) /\ Len(cells) = Len(whole)
    BY <1>1, <2>3, SeqFrom
  <2> QED  BY <1>1, <2>1, <2>2, <2>4
<1> QED  BY <1>2, <1>3 DEF Spoilt

LEMMA SpoiltPlainRefused ==
    ASSUME NEW s, Compiled(s), NEW cells, Spoilt(Bytes(s), cells)
    PROVE  /\ FromBytes(cells) = Malformed
           /\ ~(Len(cells) = 3 /\ Head(cells) = SealMagic)
<1>1. PICK w : w = Bytes(s)
  OBVIOUS
<1>2. /\ IsSeq(w) /\ Len(w) >= HeaderLen /\ w[1] = Magic /\ w[HashOffset] = SegmentHash(w)
  BY <1>1, PlainFile
<1>3. /\ Len(w) \in Nat /\ DOMAIN w = 1 .. Len(w) /\ HeaderLen = 13 /\ HashOffset = 11
  BY <1>2, SeqFacts DEF HeaderLen, HashOffset
<1>4. /\ IsSeq(cells)
      /\ \/ /\ Len(cells) < Len(w) /\ \A k \in 1 .. Len(cells) : cells[k] = w[k]
         \/ /\ Len(cells) = Len(w)
            /\ \E i \in 1 .. Len(w) :
                   /\ w[i] # Garbage /\ cells[i] = Garbage
                   /\ \A k \in 1 .. Len(w) : k # i => cells[k] = w[k]
  BY <1>1, <1>2, SpoiltIsSeq
<1>5. Len(cells) \in Nat /\ DOMAIN cells = 1 .. Len(cells)
  BY <1>4, SeqFacts
<1>6. SUFFICES ASSUME Len(cells) >= HeaderLen, cells[HashOffset] = SegmentHash(cells)
               PROVE  FALSE
  <2>1. FromBytes(cells) = Malformed
    BY <1>6 DEF FromBytes, ValidHeader
  <2>2. Len(cells) = 3 => Head(cells) # SealMagic
    <3>1. Len(cells) = 3 => Len(cells) < Len(w) /\ 1 \in 1 .. Len(cells)
      BY <1>2, <1>3
    <3>2. Len(cells) = 3 => cells[1] = Magic
      BY <1>2, <1>3, <1>4, <3>1
    <3>3. cells \in Seq(Range(cells))
      BY <1>4 DEF IsSeq
    <3>4. Len(cells) = 3 => Head(cells) = cells[1]
      BY <3>3
    <3> QED  BY <3>2, <3>4, MagicAssumption
  <2> QED  BY <2>1, <2>2
<1>7. PICK a, b : a = [w EXCEPT ![HashOffset] = 0] /\ b = [cells EXCEPT ![HashOffset] = 0]
  OBVIOUS
<1>8. /\ DOMAIN a = 1 .. Len(w) /\ DOMAIN b = 1 .. Len(cells)
      /\ \A k \in 1 .. Len(w) : a[k] = IF k = HashOffset THEN 0 ELSE w[k]
      /\ \A k \in 1 .. Len(cells) : b[k] = IF k = HashOffset THEN 0 ELSE cells[k]
  BY <1>3, <1>5, <1>7
<1>9. SegmentHash(w) = SegmentHash(cells) => a = b
  BY <1>7, DigestTells
<1>10. CASE Len(cells) < Len(w) /\ \A k \in 1 .. Len(cells) : cells[k] = w[k]
  <2>1. HashOffset \in 1 .. Len(cells)
    BY <1>3, <1>5, <1>6
  <2>2. SegmentHash(w) = SegmentHash(cells)
    BY <1>2, <1>6, <1>10, <2>1
  <2>3. 1 .. Len(w) = 1 .. Len(cells)
    BY <1>8, <1>9, <2>2
  <2>4. Len(w) \in 1 .. Len(w) /\ Len(w) \notin 1 .. Len(cells)
    BY <1>3, <1>5, <1>10
  <2> QED  BY <2>3, <2>4
<1>11. CASE /\ Len(cells) = Len(w)
            /\ \E i \in 1 .. Len(w) :
                   /\ w[i] # Garbage /\ cells[i] = Garbage
                   /\ \A k \in 1 .. Len(w) : k # i => cells[k] = w[k]
  <2>1. PICK i \in 1 .. Len(w) :
            /\ w[i] # Garbage /\ cells[i] = Garbage
            /\ \A k \in 1 .. Len(w) : k # i => cells[k] = w[k]
    BY <1>11
  <2>2. HashOffset \in 1 .. Len(w)
    BY <1>2, <1>3
  <2>3. CASE i = HashOffset
    <3>1. \A k \in 1 .. Len(w) : a[k] = b[k]
      BY <1>8, <1>11, <2>1, <2>3
    <3>2. a = b
      <4>1. a = [k \in 1 .. Len(w) |-> a[k]] /\ b = [k \in 1 .. Len(w) |-> b[k]]
        BY <1>3, <1>5, <1>7, <1>11
      <4>2. [k \in 1 .. Len(w) |-> a[k]] = [k \in 1 .. Len(w) |-> b[k]]
        BY <3>1
      <4> QED  BY <4>1, <4>2
    <3>3. SegmentHash(w) = SegmentHash(cells)
      BY <1>7, <3>2 DEF SegmentHash
    <3> QED  BY <1>2, <1>6, <2>1, <2>3, <3>3
  <2>4. CASE i # HashOffset
    <3>1. cells[HashOffset] = w[HashOffset]
      BY <2>1, <2>2, <2>4
    <3>2. a = b
      BY <1>2, <1>6, <1>9, <3>1
    <3>3. a[i] = w[i] /\ b[i] = Garbage
      BY <1>8, <1>11, <2>1, <2>4
    <3> QED  BY <2>1, <3>2, <3>3
  <2> QED  BY <2>3, <2>4
<1> QED  BY <1>4, <1>10, <1>11

LEMMA SealedCells ==
    ASSUME NEW plain
    PROVE  /\ IsSeq(Seal(plain, SealKey)) /\ Len(Seal(plain, SealKey)) = 3
           /\ Seal(plain, SealKey)[1] = SealMagic /\ Seal(plain, SealKey)[2] = Nonce
           /\ Seal(plain, SealKey)[3] = Encrypt(SealKey, Nonce, plain)
<1>1. PICK body : body = Encrypt(SealKey, Nonce, plain)
  OBVIOUS
<1>2. Seal(plain, SealKey) = <<SealMagic, Nonce, body>>
  BY <1>1 DEF Seal
<1>3. IsSeq(<<SealMagic, Nonce, body>>) /\ Len(<<SealMagic, Nonce, body>>) = 3
  BY TripleSeq
<1> QED  BY <1>1, <1>2, <1>3

LEMMA SpoiltSealRefused ==
    ASSUME NEW plain, NEW cells, Spoilt(Seal(plain, SealKey), cells), NEW key
    PROVE  OpenSealed(cells, key) = Malformed /\ Len(cells) <= 3 /\ Len(cells) \in Nat
<1>1. PICK w : w = Seal(plain, SealKey)
  OBVIOUS
<1>2. IsSeq(w) /\ Len(w) = 3 /\ w[1] = SealMagic /\ w[2] = Nonce
      /\ w[3] = Encrypt(SealKey, Nonce, plain)
  BY <1>1, SealedCells
<1>3. /\ IsSeq(cells)
      /\ \/ /\ Len(cells) < Len(w) /\ \A k \in 1 .. Len(cells) : cells[k] = w[k]
         \/ /\ Len(cells) = Len(w)
            /\ \E i \in 1 .. Len(w) :
                   /\ w[i] # Garbage /\ cells[i] = Garbage
                   /\ \A k \in 1 .. Len(w) : k # i => cells[k] = w[k]
  BY <1>1, <1>2, SpoiltIsSeq
<1>4. Len(cells) \in Nat
  BY <1>3, SeqFacts
<1>5. Unseal(cells, key) = Malformed
  <2> SUFFICES ASSUME Len(cells) = 3, Head(cells) = SealMagic
               PROVE  Decrypt(key, cells[2], cells[3]) = Malformed
    BY DEF Unseal
  <2>1. PICK i \in 1 .. 3 : /\ w[i] # Garbage /\ cells[i] = Garbage
                            /\ \A k \in 1 .. 3 : k # i => cells[k] = w[k]
    BY <1>2, <1>3
  <2>2. Head(cells) = cells[1]
    <3>1. cells \in Seq(Range(cells))
      BY <1>3 DEF IsSeq
    <3> QED  BY <3>1
  <2>3. i = 2 \/ i = 3
    BY <1>2, <2>1, <2>2
  <2>4. CASE i = 3
    BY <2>1, <2>4 DEF Decrypt
  <2>5. CASE i = 2
    <3>1. cells[2] = Garbage /\ cells[3] = w[3] /\ Nonce # Garbage
      BY <1>2, <2>1, <2>5
    <3>2. PICK body : body = Encrypt(SealKey, Nonce, plain)
      OBVIOUS
    <3>3. body.nonce = Nonce
      BY <3>2 DEF Encrypt
    <3> QED  BY <1>2, <3>1, <3>2, <3>3 DEF Decrypt
  <2> QED  BY <2>3, <2>4, <2>5
<1>6. Len(cells) <= 3
  <2>1. Len(cells) < Len(w) \/ Len(cells) = Len(w)
    BY <1>3
  <2>2. PICK n \in Nat : n = Len(cells)
    BY <1>4
  <2>3. n < 3 \/ n = 3
    BY <1>2, <2>1, <2>2
  <2>4. n <= 3
    BY <2>3
  <2> QED  BY <2>2, <2>4
<1>7. OpenSealed(cells, key) = Malformed
  BY <1>5 DEF OpenSealed
<1> QED  BY <1>4, <1>6, <1>7

\* No damaged file opens, a sealed one opens by no other key, and neither kind
\* of file passes for the other (segment.rs from_bytes, crypto.rs unseal).
THEOREM DamageIsRefused == Spec => []DamageRefused
<1>1. StoreInv /\ FileInv => DamageRefused
  <2> SUFFICES ASSUME FileInv, file # NoFile
               PROVE  /\ \A key \in Keys : damaged \/ ~source.sealed \/ key # SealKey
                                             => OpenSealed(file, key) = Malformed
                      /\ damaged \/ source.sealed => FromBytes(file) = Malformed
    BY DEF DamageRefused
  <2>1. PICK s, cells, plain : s = source /\ cells = file /\ plain = Bytes(s)
    OBVIOUS
  <2>2. /\ Compiled(s) /\ (~damaged => cells = Whole(s)) /\ (damaged => Spoilt(Whole(s), cells))
        /\ s.sealed \in BOOLEAN
    BY <2>1 DEF FileInv, Compiled
  <2>3. \A u : Len(u) < HeaderLen => FromBytes(u) = Malformed
    <3> TAKE u
    <3>1. Len(u) < HeaderLen => ~(Len(u) >= HeaderLen)
      <4>1. \E n \in Nat : HeaderLen = n
        BY DEF HeaderLen
      <4> QED  BY SMT, <4>1
    <3> QED  BY <3>1 DEF FromBytes, ValidHeader
  <2>4. HeaderLen = 13
    BY DEF HeaderLen
  <2>5. CASE ~s.sealed
    <3>1. Whole(s) = plain
      BY <2>1, <2>5 DEF Whole
    <3>2. CASE damaged
      <4>1. FromBytes(cells) = Malformed /\ ~(Len(cells) = 3 /\ Head(cells) = SealMagic)
        BY <2>1, <2>2, <3>1, <3>2, SpoiltPlainRefused
      <4>2. \A key : OpenSealed(cells, key) = Malformed
        BY <4>1 DEF OpenSealed, Unseal
      <4> QED  BY <2>1, <4>1, <4>2
    <3>3. CASE ~damaged
      <4>1. cells = plain /\ Len(plain) >= HeaderLen /\ Len(plain) \in Nat
        BY <2>1, <2>2, <3>1, <3>3, PlainFile, SeqFacts
      <4>2. Len(cells) # 3
        <5>1. PICK n \in Nat : n = Len(plain) /\ n >= HeaderLen
          BY <4>1
        <5>2. n >= 13
          BY <5>1 DEF HeaderLen
        <5> QED  BY <4>1, <5>1, <5>2
      <4>3. \A key : OpenSealed(cells, key) = Malformed
        BY <4>2 DEF OpenSealed, Unseal
      <4> QED  BY <2>1, <2>5, <3>3, <4>3
    <3> QED  BY <3>2, <3>3
  <2>6. CASE s.sealed
    <3>1. Whole(s) = Seal(plain, SealKey)
      BY <2>1, <2>6 DEF Whole
    <3>2. CASE damaged
      <4>1. \A key : OpenSealed(cells, key) = Malformed
        BY <2>2, <3>1, <3>2, SpoiltSealRefused
      <4>2. Len(cells) <= 3 /\ Len(cells) \in Nat
        BY <2>2, <3>1, <3>2, SpoiltSealRefused
      <4>3. FromBytes(cells) = Malformed
        BY <2>3, <2>4, <4>2
      <4> QED  BY <2>1, <4>1, <4>3
    <3>3. CASE ~damaged
      <4>1. PICK body : body = Encrypt(SealKey, Nonce, plain)
        OBVIOUS
      <4>2. Len(cells) = 3 /\ cells[2] = Nonce /\ cells[3] = body
        BY <2>2, <3>1, <3>3, <4>1, SealedCells
      <4>3. FromBytes(cells) = Malformed
        BY <2>3, <2>4, <4>2
      <4>4. body.key = SealKey
        BY <4>1 DEF Encrypt
      <4>5. ASSUME NEW key, key # SealKey  PROVE OpenSealed(cells, key) = Malformed
        BY <4>2, <4>4, <4>5 DEF OpenSealed, Unseal, Decrypt
      <4> QED  BY <2>1, <2>6, <3>3, <4>3, <4>5
    <3> QED  BY <3>2, <3>3
  <2> QED  BY <2>2, <2>5, <2>6
<1> QED  BY <1>1, StoreInvInductive, FileInvInductive, PTL DEF Spec

-----------------------------------------------------------------------------
(* What is read back.                                                      *)

\* How a piece of a piece of an area is found from the start of the file.
LEMMA PieceInFile ==
    ASSUME NEW bytes, IsSeq(bytes), NEW at \in Nat, NEW ss, Pieces(ss),
           Inside(bytes, at, FlattenSeq(ss)), NEW i \in 1 .. Len(ss)
    PROVE  /\ Offset(ss, i) \in Nat /\ IsSeq(ss[i])
           /\ Inside(bytes, at + Offset(ss, i), ss[i])
           /\ Offset(ss, i) + Len(ss[i]) <= Len(FlattenSeq(ss))
<1>1. Offset(ss, i) \in Nat /\ IsSeq(ss[i])
  BY OffsetType DEF Pieces
<1>2. IsSeq(FlattenSeq(ss)) /\ Inside(FlattenSeq(ss), Offset(ss, i), ss[i])
  BY FlattenPieces, PieceIsInside
<1>3. Len(bytes) \in Nat
  BY SeqFacts
<1>4. PICK w, b, p : w = FlattenSeq(ss) /\ b = Offset(ss, i) /\ p = ss[i]
  OBVIOUS
<1>5. Inside(bytes, at + b, p)
  BY <1>1, <1>2, <1>3, <1>4, InsideInside
<1> QED  BY <1>1, <1>2, <1>4, <1>5 DEF Inside

LEMMA HeaderFields ==
    ASSUME NEW caps, NEW epoch, NEW bytes, Filed(caps, epoch, bytes)
    PROVE  /\ bytes[1] = Magic /\ bytes[2] = Version /\ bytes[3] = HeaderLen
           /\ bytes[4] = epoch /\ bytes[5] = TenantOf(caps) /\ bytes[6] = Len(caps)
           /\ bytes[7] = HeaderLen /\ bytes[8] = StringsAt(caps)
           /\ bytes[9] = RelationsAt(caps) /\ bytes[10] = IndexAt(caps)
           /\ bytes[12] = EmbeddingDim(caps) /\ bytes[13] = IndexAt(caps) + SummaryLen
<1>1. HeaderLen = 13 /\ HashOffset = 11
  BY DEF HeaderLen, HashOffset
<1>2. PICK h : h = HeaderOf(caps, epoch)
  OBVIOUS
<1>3. \A k \in 1 .. 13 : k # 11 => bytes[k] = h[k]
  BY <1>1, <1>2 DEF Filed
<1>4. /\ bytes[1] = h[1] /\ bytes[2] = h[2] /\ bytes[3] = h[3] /\ bytes[4] = h[4]
      /\ bytes[5] = h[5] /\ bytes[6] = h[6] /\ bytes[7] = h[7] /\ bytes[8] = h[8]
      /\ bytes[9] = h[9] /\ bytes[10] = h[10] /\ bytes[12] = h[12] /\ bytes[13] = h[13]
  BY <1>3
<1>5. PICK m, v, n, t, c, p, q, r, d, e :
          /\ m = Magic /\ v = Version /\ n = HeaderLen /\ t = TenantOf(caps) /\ c = Len(caps)
          /\ p = StringsAt(caps) /\ q = RelationsAt(caps) /\ r = IndexAt(caps)
          /\ d = EmbeddingDim(caps) /\ e = IndexAt(caps) + SummaryLen
  OBVIOUS
<1>6. h = <<m, v, n, epoch, t, c, n, p, q, r, 0, d, e>>
  BY <1>2, <1>5 DEF HeaderOf, Header
<1>7. /\ h[1] = m /\ h[2] = v /\ h[3] = n /\ h[4] = epoch /\ h[5] = t /\ h[6] = c
      /\ h[7] = n /\ h[8] = p /\ h[9] = q /\ h[10] = r /\ h[12] = d /\ h[13] = e
  BY <1>6
<1> QED  BY <1>4, <1>5, <1>7

LEMMA RowRead ==
    ASSUME NEW caps, Storables(caps), NEW epoch, NEW bytes, Filed(caps, epoch, bytes),
           NEW o \in 1 .. Len(caps)
    PROVE  Cells(bytes, HeaderLen + (o - 1) * MetadataLen, MetadataLen) = Metadata(caps, o)
<1>1. PICK ss, w : ss = RowsOf(caps) /\ w = Metadata(caps, o)
  OBVIOUS
<1>2. Pieces(ss) /\ Len(ss) = Len(caps) /\ Len(caps) \in Nat
  BY <1>1, AreaPieces
<1>3. ss[o] = w /\ IsSeq(w) /\ Len(w) = MetadataLen
  <2>1. DOMAIN caps = 1 .. Len(caps)
    BY SeqFacts DEF Storables
  <2> QED  BY <1>1, <2>1, MetadataCells DEF RowsOf
<1>4. IsSeq(bytes) /\ Inside(bytes, HeaderLen, FlattenSeq(ss)) /\ HeaderLen \in Nat
  BY <1>1 DEF Filed, HeaderLen
<1>5. Offset(ss, o) = (o - 1) * MetadataLen
  BY <1>1, LengthOfRows
<1>6. PICK at : at = HeaderLen + Offset(ss, o)
  OBVIOUS
<1>7. Offset(ss, o) \in Nat /\ Inside(bytes, at, w)
  BY <1>2, <1>3, <1>4, <1>6, PieceInFile
<1>8. at \in Nat
  BY <1>4, <1>6, <1>7
<1>9. Cells(bytes, at, Len(w)) = w
  BY <1>3, <1>4, <1>7, <1>8, CellsInside
<1> QED  BY <1>1, <1>3, <1>5, <1>6, <1>9

\* How many cells come before the i-th memory's.
LEMMA BeforeIsOffset ==
    ASSUME NEW caps, Storables(caps), NEW o \in 1 .. Len(caps)
    PROVE  /\ Before(caps, o, StringsOf) = Offset(TextsOf(caps), o)
           /\ Before(caps, o, EdgesOf) = Offset(RelationsOf(caps), o)
<1>1. Len(caps) \in Nat /\ DOMAIN caps = 1 .. Len(caps)
  BY SeqFacts DEF Storables
<1>2. PICK n \in Nat : n = o - 1
  BY <1>1
<1>3. PICK ss, es, tt, ff :
          /\ ss = TextsOf(caps) /\ es = RelationsOf(caps)
          /\ tt = [j \in 1 .. o - 1 |-> StringsOf(caps[j])]
          /\ ff = [j \in 1 .. o - 1 |-> EdgesOf(caps[j])]
  OBVIOUS
<1>4. /\ Pieces(ss) /\ Len(ss) = Len(caps) /\ Pieces(es) /\ Len(es) = Len(caps)
  BY <1>3, AreaPieces
<1>5. /\ tt = [j \in 1 .. n |-> tt[j]] /\ ff = [j \in 1 .. n |-> ff[j]]
      /\ \A j \in 1 .. n : tt[j] = ss[j] /\ ff[j] = es[j] /\ j \in 1 .. Len(ss)
  BY <1>1, <1>2, <1>3, <1>4 DEF TextsOf, RelationsOf
<1>6. IsSeq(tt) /\ Len(tt) = n /\ IsSeq(ff) /\ Len(ff) = n
  BY <1>2, <1>5, SeqFrom
<1>7. Pieces(tt) /\ Pieces(ff)
  BY <1>4, <1>5, <1>6 DEF Pieces
<1>8. Len(FlattenSeq(tt)) = Offset(ss, o)
  BY <1>2, <1>4, <1>5, <1>6, <1>7, OffsetIsLength
<1>9. Len(FlattenSeq(ff)) = Offset(es, o)
  BY <1>2, <1>4, <1>5, <1>6, <1>7, OffsetIsLength
<1> QED  BY <1>3, <1>8, <1>9 DEF Before

\* The k-th string of the o-th memory.
LEMMA StringRead ==
    ASSUME NEW caps, Storables(caps), NEW epoch, NEW bytes, Filed(caps, epoch, bytes),
           NEW o \in 1 .. Len(caps), NEW k \in 1 .. 5, ~(k = 3 /\ caps[o].uri = None)
    PROVE  /\ ReadString(bytes, StringsAt(caps), RelationsAt(caps), BlobRefs(caps, o)[k])
                  = Strings(caps[o])[k]
           /\ BlobRefs(caps, o)[k].len = Len(Strings(caps[o])[k])
<1>1. PICK c, ss, ps, p : /\ c = caps[o] /\ ss = TextsOf(caps) /\ ps = Strings(c) /\ p = ps[k]
  OBVIOUS
<1>2. Storable(c) /\ Pieces(ps) /\ Len(ps) = 5
  BY <1>1, StringsPieces DEF Storables
<1>3. Pieces(ss) /\ Len(ss) = Len(caps) /\ ss[o] = FlattenSeq(ps)
  <2>1. DOMAIN caps = 1 .. Len(caps)
    BY SeqFacts DEF Storables
  <2> QED  BY <1>1, <2>1, AreaPieces DEF TextsOf, StringsOf
<1>4. PICK i, j : i = Offset(ss, o) /\ j = Offset(ps, k)
  OBVIOUS
<1>5. /\ IsSeq(bytes) /\ StringsAt(caps) \in Nat /\ Inside(bytes, StringsAt(caps), FlattenSeq(ss))
      /\ RelationsAt(caps) = StringsAt(caps) + Len(FlattenSeq(ss))
      /\ Len(FlattenSeq(ss)) \in Nat
  BY <1>1, <1>3, FlattenPieces, SeqFacts DEF Filed, RelationsAt
<1>6. /\ i \in Nat /\ Inside(bytes, StringsAt(caps) + i, FlattenSeq(ps))
      /\ i + Len(FlattenSeq(ps)) <= Len(FlattenSeq(ss))
  BY <1>3, <1>4, <1>5, PieceInFile
<1>7. PICK at \in Nat : at = StringsAt(caps) + i
  BY <1>5, <1>6
<1>8. k \in 1 .. Len(ps)
  BY <1>2
<1>9. /\ j \in Nat /\ IsSeq(p) /\ Inside(bytes, at + j, p)
      /\ j + Len(p) <= Len(FlattenSeq(ps))
  BY <1>1, <1>2, <1>4, <1>5, <1>6, <1>7, <1>8, PieceInFile
<1>10. Len(p) \in Nat /\ Len(FlattenSeq(ps)) \in Nat
  BY <1>2, <1>9, FlattenPieces, SeqFacts
<1>11. Len(FlattenSeq(SubSeq(ps, 1, k - 1))) = j
  <2>1. PICK m, n : m = 1 /\ n = k - 1
    OBVIOUS
  <2>2. m \in 1 .. Len(ps) + 1 /\ n \in 0 .. Len(ps) /\ m <= n + 1 /\ n - m + 1 = k - 1
    BY <1>2, <2>1
  <2>3. IsSeq(ps)
    BY <1>2 DEF Pieces
  <2>4. PICK tt : tt = SubSeq(ps, m, n)
    OBVIOUS
  <2>5. /\ IsSeq(tt) /\ Len(tt) = n - m + 1
        /\ \A h \in 1 .. n - m + 1 : tt[h] = ps[m + h - 1]
    BY <2>2, <2>3, <2>4, PartSeq
  <2>6. \A h \in 1 .. k - 1 : tt[h] = ps[h] /\ h \in 1 .. Len(ps)
    <3>1. \A h \in 1 .. k - 1 : m + h - 1 = h /\ h \in 1 .. Len(ps)
      BY <1>2, <2>1
    <3> QED  BY <2>2, <2>5, <3>1
  <2>7. Len(tt) = k - 1
    BY <2>2, <2>5
  <2>8. Pieces(tt)
    BY <1>2, <2>5, <2>6, <2>7 DEF Pieces
  <2>9. Len(FlattenSeq(tt)) = Offset(ps, k)
    BY <1>2, <1>8, <2>6, <2>7, <2>8, OffsetIsLength
  <2> QED  BY <1>4, <2>1, <2>4, <2>9
<1>12. PICK ref : ref = BlobRefs(caps, o)[k]
  OBVIOUS
<1>13. Before(caps, o, StringsOf) = i
  BY <1>1, <1>4, BeforeIsOffset
<1>14. ref = [offset |-> i + j, len |-> Len(p)]
  BY <1>1, <1>11, <1>12, <1>13 DEF BlobRefs
<1>15. ref.offset = i + j /\ ref.len = Len(p)
  BY <1>14
<1>16. PICK start \in Nat : start = at + j
  BY <1>9
<1>17. start = StringsAt(caps) + ref.offset
  BY <1>5, <1>6, <1>7, <1>9, <1>15, <1>16
<1>18. InRange(start, Len(p), RelationsAt(caps))
  <2>1. PICK y, z, whole, strings :
            /\ y = Len(p) /\ z = Len(FlattenSeq(ps)) /\ whole = Len(FlattenSeq(ss))
            /\ strings = StringsAt(caps)
    OBVIOUS
  <2>2. y \in Nat /\ z \in Nat /\ whole \in Nat /\ strings \in Nat /\ i \in Nat /\ j \in Nat
    BY <1>5, <1>6, <1>9, <1>10, <2>1
  <2>3. /\ j + y <= z /\ i + z <= whole /\ start = strings + i + j
        /\ RelationsAt(caps) = strings + whole
    BY <1>5, <1>6, <1>7, <1>9, <1>16, <2>1
  <2>4. start + y <= strings + whole
    BY <2>2, <2>3
  <2> QED  BY <2>1, <2>3, <2>4 DEF InRange
<1>19. Cells(bytes, start, Len(p)) = p
  BY <1>5, <1>9, <1>16, CellsInside
<1>20. ReadString(bytes, StringsAt(caps), RelationsAt(caps), ref) = p
  BY <1>15, <1>17, <1>18, <1>19 DEF ReadString
<1> QED  BY <1>1, <1>12, <1>15, <1>20

\* A string list is numbers, so it is no error, and it reads as its terms.
LEMMA StringListType ==
    ASSUME NEW terms \in Seq(Nat)
    PROVE  StringList(terms) \in Seq(Nat) /\ StringList(terms) # Malformed
<1>1. PICK es, count, body : /\ es = Entries(terms) /\ count = <<Len(terms)>>
                             /\ body = FlattenSeq(es)
  OBVIOUS
<1>2. IsSeq(terms) /\ Len(terms) \in Nat /\ \A i \in 1 .. Len(terms) : terms[i] \in Nat
  BY TypedIsSeq
<1>3. /\ IsSeq(es) /\ Len(es) = Len(terms)
      /\ \A i \in 1 .. Len(terms) : es[i] = <<1, terms[i]>>
  BY <1>1, <1>2, EntriesPieces DEF Pieces
<1>4. ASSUME NEW i \in 1 .. Len(es)  PROVE es[i] \in Seq(Nat)
  <2>1. PICK t : t = terms[i]
    OBVIOUS
  <2>2. t \in Nat
    BY <1>2, <1>3, <2>1
  <2>3. <<1, t>> \in Seq(Nat)
    BY <2>2
  <2> QED  BY <1>3, <2>1, <2>3
<1>5. body \in Seq(Nat)
  BY <1>1, <1>3, <1>4, FlattenTyped
<1>6. count \in Seq(Nat)
  BY <1>1, <1>2
<1>7. StringList(terms) = count \o body
  BY <1>1 DEF StringList, Entries
<1>8. count \o body \in Seq(Nat)
  BY <1>5, <1>6
<1>9. StringList(terms) \in Seq(Nat)
  BY <1>7, <1>8
<1>10. Malformed \notin Seq(Nat)
  BY MalformedAssumption
<1> QED  BY <1>9, <1>10

LEMMA ListRead ==
    ASSUME NEW terms \in Seq(Nat), NEW bytes, NEW from, NEW to, NEW ref,
           ReadString(bytes, from, to, ref) = StringList(terms)
    PROVE  ReadStringList(bytes, from, to, ref) = terms
<1>1. PICK list : list = StringList(terms)
  OBVIOUS
<1>2. IsSeq(terms)
  BY TypedIsSeq
<1>3. /\ Len(list) = 2 * Len(terms) + 1 /\ list[1] = Len(terms) /\ list # Malformed
      /\ \A i \in 1 .. Len(terms) : list[2 * i + 1] = terms[i]
  BY <1>1, <1>2, StringListCells, StringListType
<1>4. ReadStringList(bytes, from, to, ref) = [i \in 1 .. list[1] |-> list[2 * i + 1]]
  BY <1>1, <1>3 DEF ReadStringList
<1>5. [i \in 1 .. list[1] |-> list[2 * i + 1]] = [i \in 1 .. Len(terms) |-> terms[i]]
  BY <1>3
<1>6. terms = [i \in 1 .. Len(terms) |-> terms[i]]
  BY <1>2, SeqFacts
<1> QED  BY <1>4, <1>5, <1>6

\* The texts of the o-th memory, by what its row says of them.
LEMMA TextsRead ==
    ASSUME NEW caps, Storables(caps), NEW epoch, NEW bytes, Filed(caps, epoch, bytes),
           NEW o \in 1 .. Len(caps), NEW p, p = StringsAt(caps), NEW q, q = RelationsAt(caps),
           NEW ref, ref = BlobRefs(caps, o)
    PROVE  /\ ReadString(bytes, p, q, ref[1]) = caps[o].claim
           /\ ReadString(bytes, p, q, ref[2]) = caps[o].evidence
           /\ ReadOptionalString(bytes, p, q, ref[3]) = caps[o].uri
           /\ ReadStringList(bytes, p, q, ref[4]) = caps[o].anchors
           /\ ReadStringList(bytes, p, q, ref[5]) = caps[o].entities
<1>1. PICK c, ps : c = caps[o] /\ ps = Strings(c)
  OBVIOUS
<1>2. Storable(c)
  BY <1>1 DEF Storables
<1>3. /\ ps[1] = c.claim /\ ps[2] = c.evidence /\ ps[3] = Default(c.uri, <<>>)
      /\ ps[4] = StringList(c.anchors) /\ ps[5] = StringList(c.entities)
  BY <1>1, <1>2, StringsPieces
<1>4. ASSUME NEW k \in 1 .. 5, ~(k = 3 /\ c.uri = None)
      PROVE  ReadString(bytes, p, q, ref[k]) = ps[k] /\ ref[k].len = Len(ps[k])
  BY <1>1, <1>4, StringRead
<1>5. /\ ReadString(bytes, p, q, ref[1]) = ps[1] /\ ReadString(bytes, p, q, ref[2]) = ps[2]
      /\ ReadString(bytes, p, q, ref[4]) = ps[4] /\ ReadString(bytes, p, q, ref[5]) = ps[5]
  BY <1>4
<1>6. ReadOptionalString(bytes, p, q, ref[3]) = c.uri
  <2>1. CASE c.uri = None
    <3>1. ref[3] = NoBlob
      BY <1>1, <2>1 DEF BlobRefs
    <3> QED  BY <2>1, <3>1 DEF ReadOptionalString
  <2>2. CASE c.uri # None
    <3>1. ReadString(bytes, p, q, ref[3]) = ps[3] /\ ref[3].len = Len(ps[3])
      BY <1>4, <2>2
    <3>2. ps[3] = c.uri
      BY <1>3, <2>2 DEF Default
    <3>3. c.uri \in Seq(Nat) /\ Len(c.uri) < MaxI64
      BY <1>2, <2>2 DEF Storable
    <3>4. Len(c.uri) \in Nat /\ MaxI64 \in Nat
      BY <3>3, LengthAssumption
    <3>5. ref[3].len # MaxI64
      BY <3>1, <3>2, <3>3, <3>4
    <3>6. ref[3] # NoBlob
      BY <3>5 DEF NoBlob
    <3> QED  BY <3>1, <3>2, <3>6 DEF ReadOptionalString
  <2> QED  BY <2>1, <2>2
<1>7. c.anchors \in Seq(Nat) /\ c.entities \in Seq(Nat)
  BY <1>2 DEF Storable
<1>8. ReadStringList(bytes, p, q, ref[4]) = c.anchors
  BY <1>3, <1>5, <1>7, ListRead
<1>9. ReadStringList(bytes, p, q, ref[5]) = c.entities
  BY <1>3, <1>5, <1>7, ListRead
<1> QED  BY <1>1, <1>3, <1>5, <1>6, <1>8, <1>9

\* The k-th edge of the o-th memory.
LEMMA RelationRead ==
    ASSUME NEW caps, Storables(caps), NEW epoch, NEW bytes, Filed(caps, epoch, bytes),
           NEW o \in 1 .. Len(caps), NEW at, at = RelationsAt(caps) + Before(caps, o, EdgesOf),
           NEW n, n = Len(caps[o].edges)
    PROVE  /\ n \in Nat /\ InRange(at, n * RelationLen, IndexAt(caps))
           /\ \A k \in 1 .. n : Cells(bytes, at + (k - 1) * RelationLen, RelationLen)
                                    = Relations(caps[o])[k]
<1>1. PICK c, ss, es : /\ c = caps[o] /\ ss = RelationsOf(caps) /\ es = Relations(c)
  OBVIOUS
<1>2. Storable(c)
  BY <1>1 DEF Storables
<1>3. /\ IsSeq(c.edges) /\ EdgesOf(c) = FlattenSeq(es)
      /\ Pieces(es) /\ Len(es) = n /\ n \in Nat
      /\ \A k \in 1 .. n : Len(es[k]) = 3
  BY <1>1, <1>2, AreasOfMemory, RelationsPieces, SeqFacts
<1>4. Pieces(ss) /\ Len(ss) = Len(caps) /\ ss[o] = FlattenSeq(es)
  <2>1. DOMAIN caps = 1 .. Len(caps)
    BY SeqFacts DEF Storables
  <2> QED  BY <1>1, <1>3, <2>1, AreaPieces DEF RelationsOf
<1>5. PICK i : i = Offset(ss, o)
  OBVIOUS
<1>6. /\ IsSeq(bytes) /\ RelationsAt(caps) \in Nat
      /\ Inside(bytes, RelationsAt(caps), FlattenSeq(ss))
      /\ IndexAt(caps) = RelationsAt(caps) + Len(FlattenSeq(ss))
      /\ Len(FlattenSeq(ss)) \in Nat
  BY <1>1, <1>4, FlattenPieces, SeqFacts DEF Filed, IndexAt
<1>7. /\ i \in Nat /\ Inside(bytes, RelationsAt(caps) + i, FlattenSeq(es))
      /\ i + Len(FlattenSeq(es)) <= Len(FlattenSeq(ss))
  BY <1>4, <1>5, <1>6, PieceInFile
<1>8. at = RelationsAt(caps) + i
  BY <1>1, <1>5, BeforeIsOffset
<1>9. at \in Nat /\ Inside(bytes, at, FlattenSeq(es))
  BY <1>6, <1>7, <1>8
<1>10. RelationLen = 3 /\ RelationLen \in Nat
  BY DEF RelationLen
<1>11. \A m \in 0 .. Len(es) : Len(FirstPieces(es, m)) = m * 3
  BY <1>3, RowsLength
<1>12. Len(FlattenSeq(es)) = n * 3
  <2>1. FlattenSeq(es) = FirstPieces(es, Len(es)) /\ Len(es) \in 0 .. Len(es)
    BY <1>3, FlattenAll
  <2> QED  BY <1>3, <1>11, <2>1
<1>13. InRange(at, n * RelationLen, IndexAt(caps))
  BY <1>3, <1>6, <1>7, <1>8, <1>10, <1>12 DEF InRange
<1>14. ASSUME NEW k \in 1 .. n
       PROVE  Cells(bytes, at + (k - 1) * RelationLen, RelationLen) = es[k]
  <2>1. k - 1 \in 0 .. Len(es) /\ k \in 1 .. Len(es)
    BY <1>3
  <2>2. Offset(es, k) = (k - 1) * RelationLen
    BY <1>10, <1>11, <2>1 DEF Offset
  <2>3. PICK b, e : b = at + Offset(es, k) /\ e = es[k]
    OBVIOUS
  <2>4. Offset(es, k) \in Nat /\ IsSeq(e) /\ Inside(bytes, b, e)
    BY <1>3, <1>6, <1>9, <2>1, <2>3, PieceInFile
  <2>5. b \in Nat /\ Len(e) = RelationLen
    BY <1>3, <1>9, <1>10, <2>3, <2>4
  <2>6. Cells(bytes, b, Len(e)) = e
    BY <1>6, <2>4, <2>5, CellsInside
  <2> QED  BY <2>2, <2>3, <2>5, <2>6
<1> QED  BY <1>1, <1>3, <1>13, <1>14

\* The embeddings of a segment have one dimension; so the o-th row is where
\* the reader looks for it.
LEMMA DimensionOf ==
    ASSUME NEW caps, Storables(caps), SameDimension(caps), NEW dim, dim = EmbeddingDim(caps)
    PROVE  /\ Len(caps) > 0 => dim \in Nat
           /\ \A i \in 1 .. Len(caps) : Len(caps[i].embedding) = dim
           /\ Len(caps) = 0 => Max({0}) = dim
<1>1. IsSeq(caps) /\ DOMAIN caps = 1 .. Len(caps) /\ Len(caps) \in Nat
  BY SeqFacts DEF Storables
<1>2. ASSUME NEW i \in 1 .. Len(caps)
      PROVE  Len(caps[i].embedding) = dim /\ dim \in Nat
  <2>1. caps[i] \in Range(caps)
    BY <1>1 DEF Range
  <2>2. Len(caps[i].embedding) = dim
    BY <2>1 DEF SameDimension
  <2>3. IsSeq(caps[i].embedding)
    BY DEF Storables, Storable
  <2> QED  BY <2>2, <2>3, SeqFacts
<1>3. Len(caps) > 0 => dim \in Nat
  <2>1. SUFFICES ASSUME Len(caps) > 0  PROVE dim \in Nat
    OBVIOUS
  <2>2. 1 \in 1 .. Len(caps)
    BY <1>1, <2>1
  <2> QED  BY <1>2, <2>2
<1>4. Len(caps) = 0 => Range(caps) = {}
  BY <1>1 DEF Range
<1>5. Len(caps) = 0 => Max({0}) = dim
  BY <1>4 DEF EmbeddingDim
<1> QED  BY <1>2, <1>3, <1>5

LEMMA MaxOfZero == Max({0}) = 0
BY DEF Max

LEMMA DimensionType ==
    ASSUME NEW caps, Storables(caps), SameDimension(caps)
    PROVE  /\ EmbeddingDim(caps) \in Nat
           /\ \A i \in 1 .. Len(caps) : Len(caps[i].embedding) = EmbeddingDim(caps)
<1>1. PICK dim : dim = EmbeddingDim(caps)
  OBVIOUS
<1>2. Len(caps) \in Nat
  BY SeqFacts DEF Storables
<1>3. /\ Len(caps) > 0 => dim \in Nat
      /\ \A i \in 1 .. Len(caps) : Len(caps[i].embedding) = dim
      /\ Len(caps) = 0 => Max({0}) = dim
  BY <1>1, DimensionOf
<1>4. dim \in Nat
  BY <1>2, <1>3, MaxOfZero
<1> QED  BY <1>1, <1>3, <1>4

LEMMA VectorRead ==
    ASSUME NEW caps, Storables(caps), SameDimension(caps),
           NEW epoch, NEW bytes, Filed(caps, epoch, bytes),
           NEW dim, dim = EmbeddingDim(caps), NEW at, at = IndexAt(caps) + SummaryLen
    PROVE  /\ InRange(at, Len(caps) * dim, Len(bytes))
           /\ \A o \in 1 .. Len(caps) :
                  Cells(bytes, at + (o - 1) * dim, dim) = caps[o].embedding
<1>1. PICK ss : ss = VectorsOf(caps)
  OBVIOUS
<1>2. Pieces(ss) /\ Len(ss) = Len(caps) /\ Len(caps) \in Nat
  BY <1>1, AreaPieces
<1>3. \A i \in 1 .. Len(caps) : ss[i] = caps[i].embedding
  <2>1. DOMAIN caps = 1 .. Len(caps)
    BY SeqFacts DEF Storables
  <2> QED  BY <1>1, <2>1 DEF VectorsOf
<1>4. dim \in Nat /\ \A i \in 1 .. Len(ss) : Len(ss[i]) = dim
  BY <1>2, <1>3, DimensionType
<1>5. \A m \in 0 .. Len(ss) : Len(FirstPieces(ss, m)) = m * dim
  BY <1>2, <1>4, RowsLength
<1>6. Len(FlattenSeq(ss)) = Len(caps) * dim
  <2>1. FlattenSeq(ss) = FirstPieces(ss, Len(ss)) /\ Len(ss) \in 0 .. Len(ss)
    BY <1>2, FlattenAll
  <2> QED  BY <1>2, <1>5, <2>1
<1>7. /\ IsSeq(bytes) /\ at \in Nat /\ Inside(bytes, at, FlattenSeq(ss))
      /\ Len(bytes) = at + Len(FlattenSeq(ss))
  BY <1>1 DEF Filed, SummaryLen
<1>8. InRange(at, Len(caps) * dim, Len(bytes))
  <2>1. PICK n : n = Len(caps) * dim
    OBVIOUS
  <2>2. n \in Nat
    BY <1>2, <1>4, <2>1
  <2>3. Len(bytes) = at + n
    BY <1>6, <1>7, <2>1
  <2> QED  BY <1>7, <2>1, <2>2, <2>3 DEF InRange
<1>9. ASSUME NEW o \in 1 .. Len(caps)
      PROVE  Cells(bytes, at + (o - 1) * dim, dim) = caps[o].embedding
  <2>1. o - 1 \in 0 .. Len(ss) /\ o \in 1 .. Len(ss)
    BY <1>2
  <2>2. Offset(ss, o) = (o - 1) * dim
    BY <1>5, <2>1 DEF Offset
  <2>3. PICK b, e : b = at + Offset(ss, o) /\ e = ss[o]
    OBVIOUS
  <2>4. Offset(ss, o) \in Nat /\ IsSeq(e) /\ Inside(bytes, b, e)
    BY <1>2, <1>7, <2>1, <2>3, PieceInFile
  <2>5. b \in Nat
    BY <1>7, <2>3, <2>4
  <2>6. Len(e) = dim
    BY <1>4, <2>1, <2>3
  <2>7. Cells(bytes, b, Len(e)) = e
    BY <1>7, <2>4, <2>5, CellsInside
  <2> QED  BY <1>3, <2>2, <2>3, <2>6, <2>7
<1> QED  BY <1>8, <1>9

\* A memory with another end.
Until(c, x) ==
    [id |-> c.id, tenant |-> c.tenant, copied |-> c.copied, source_hash |-> c.source_hash,
     bits |-> c.bits, residual |-> c.residual, from |-> c.from, until |-> x,
     observed |-> c.observed, verified |-> c.verified, ctx |-> c.ctx, policy |-> c.policy,
     claim |-> c.claim, evidence |-> c.evidence, uri |-> c.uri,
     anchors |-> c.anchors, entities |-> c.entities, edges |-> c.edges,
     content_hash |-> c.content_hash, embedding |-> c.embedding]

LEMMA CanonicalIsUntil ==
    ASSUME NEW c, Storable(c)
    PROVE  Canonical(c) = Until(c, IF c.until = MaxI64 THEN None ELSE c.until)
<1>1. PICK x : x = IF c.until = MaxI64 THEN None ELSE c.until
  OBVIOUS
<1>2. PICK e, w : e = [c EXCEPT !.until = x] /\ w = Until(c, x)
  OBVIOUS
<1> DEFINE Names == {"id", "tenant", "ctx", "policy", "copied", "claim", "evidence", "uri",
                     "source_hash", "content_hash", "bits", "residual", "embedding",
                     "anchors", "entities", "from", "until", "observed", "verified", "edges"}
<1>3. DOMAIN c = Names
  BY DEF Storable
<1>4. e = [n \in Names |-> IF n = "until" THEN x ELSE c[n]]
  BY <1>2, <1>3
<1>5. w = [n \in Names |-> IF n = "until" THEN x ELSE c[n]]
  BY <1>2 DEF Until
<1>6. Canonical(c) = [c EXCEPT !.until = x]
  BY <1>1, <1>3 DEF Canonical
<1> QED  BY <1>1, <1>2, <1>4, <1>5, <1>6

\* The edges that are read are those that were written.
LEMMA EdgesRead ==
    ASSUME NEW c, Storable(c), NEW read,
           \A k \in 1 .. Len(c.edges) : read[k] = Relations(c)[k]
    PROVE  [k \in 1 .. Len(c.edges) |->
               [from |-> read[k][1], to |-> read[k][2],
                kind |-> read[k][3].kind, weight |-> read[k][3].weight]] = c.edges
<1>1. PICK es, n : es = c.edges /\ n = Len(c.edges)
  OBVIOUS
<1>2. es \in Seq(RelationEdge) /\ IsSeq(es)
  BY <1>1, TypedIsSeq DEF Storable
<1>3. es = [k \in 1 .. n |-> es[k]] /\ \A k \in 1 .. n : es[k] \in RelationEdge
  BY <1>1, <1>2, SeqFacts
<1>4. ASSUME NEW k \in 1 .. n
      PROVE  [from |-> read[k][1], to |-> read[k][2],
              kind |-> read[k][3].kind, weight |-> read[k][3].weight] = es[k]
  <2>1. PICK e : e = es[k]
    OBVIOUS
  <2>2. e \in RelationEdge
    BY <1>3, <2>1
  <2>3. e = [from |-> e.from, to |-> e.to, kind |-> e.kind, weight |-> e.weight]
    BY <2>2 DEF RelationEdge
  <2>4. read[k] = <<e.from, e.to, [kind |-> e.kind, weight |-> e.weight]>>
    BY <1>1, <1>2, <2>1, RelationsPieces
  <2>5. PICK a, b, d, f : a = e.from /\ b = e.to /\ d = e.kind /\ f = e.weight
    OBVIOUS
  <2>6. /\ read[k][1] = a /\ read[k][2] = b
        /\ read[k][3].kind = d /\ read[k][3].weight = f
    BY <2>4, <2>5
  <2>7. e = [from |-> a, to |-> b, kind |-> d, weight |-> f]
    BY <2>3, <2>5
  <2> QED  BY <2>1, <2>6, <2>7
<1> QED  BY <1>1, <1>3, <1>4

\* A memory is read as it was written, but for the last instant as its end.
LEMMA CapsuleRead ==
    ASSUME NEW caps, Storables(caps), SameDimension(caps),
           NEW epoch, NEW bytes, Filed(caps, epoch, bytes), NEW o \in 1 .. Len(caps)
    PROVE  ReadCapsule(bytes, o) = Canonical(caps[o])
<1>1. PICK row, p, q, r, dim, vectors :
          /\ row = Cells(bytes, HeaderLen + (o - 1) * MetadataLen, MetadataLen)
          /\ p = bytes[8] /\ q = bytes[9] /\ r = bytes[10]
          /\ dim = bytes[12] /\ vectors = bytes[13]
  OBVIOUS
<1>2. PICK c, ref, at, n, es :
          /\ c = caps[o] /\ ref = BlobRefs(caps, o)
          /\ at = RelationsAt(caps) + Before(caps, o, EdgesOf)
          /\ n = Len(caps[o].edges) /\ es = Relations(c)
  OBVIOUS
<1>3. Storable(c)
  BY <1>2 DEF Storables
<1>4. /\ p = StringsAt(caps) /\ q = RelationsAt(caps) /\ r = IndexAt(caps)
      /\ dim = EmbeddingDim(caps) /\ vectors = IndexAt(caps) + SummaryLen
  BY <1>1, HeaderFields
<1>5. row = Metadata(caps, o)
  BY <1>1, RowRead
<1>6. /\ \A k \in 1 .. 12 : row[k] = Fields(c)[k]
      /\ \A k \in 1 .. 5 : row[12 + k] = ref[k]
      /\ row[18] = Before(caps, o, EdgesOf) /\ row[19] = n
      /\ row[20] = c.content_hash
  <2>1. RowOf(Metadata(caps, o), caps[o], BlobRefs(caps, o), Before(caps, o, EdgesOf))
    BY MetadataCells
  <2>2. PICK before : before = Before(caps, o, EdgesOf)
    OBVIOUS
  <2>3. RowOf(row, c, ref, before)
    BY <1>2, <1>5, <2>1, <2>2
  <2> QED  BY <1>2, <2>2, <2>3 DEF RowOf
<1>7. q + row[18] = at
  BY <1>2, <1>4, <1>6
<1> DEFINE Cell(k) == Cells(bytes, at + (k - 1) * RelationLen, RelationLen)
           Edges == IF InRange(at, n * RelationLen, r)
                    THEN [k \in 1 .. n |->
                             [from |-> Cell(k)[1], to |-> Cell(k)[2],
                              kind |-> Cell(k)[3].kind, weight |-> Cell(k)[3].weight]]
                    ELSE Malformed
<1>8. Edges = c.edges
  <2>1. /\ n \in Nat /\ InRange(at, n * RelationLen, r)
        /\ \A k \in 1 .. n : Cell(k) = es[k]
    BY <1>2, <1>4, RelationRead
  <2>2. PICK read : read = [k \in 1 .. n |-> Cell(k)]
    OBVIOUS
  <2>3. \A k \in 1 .. Len(c.edges) : read[k] = Relations(c)[k]
    BY <1>2, <2>1, <2>2
  <2>4. [k \in 1 .. Len(c.edges) |->
            [from |-> read[k][1], to |-> read[k][2],
             kind |-> read[k][3].kind, weight |-> read[k][3].weight]] = c.edges
    BY <1>3, <2>3, EdgesRead
  <2>5. \A k \in 1 .. n : read[k] = Cell(k)
    BY <2>2
  <2> HIDE DEF Cell
  <2>6. Edges = [k \in 1 .. Len(c.edges) |->
                    [from |-> read[k][1], to |-> read[k][2],
                     kind |-> read[k][3].kind, weight |-> read[k][3].weight]]
    BY <1>2, <2>1, <2>5
  <2> QED  BY <2>4, <2>6
<1>9. PICK edges : edges = Edges
  OBVIOUS
<1>10. PICK embedding : embedding = Cells(bytes, vectors + (o - 1) * dim, dim)
  OBVIOUS
<1>11. embedding = c.embedding
  BY <1>2, <1>4, <1>10, VectorRead
<1>12. /\ ReadString(bytes, p, q, ref[1]) = c.claim
       /\ ReadString(bytes, p, q, ref[2]) = c.evidence
       /\ ReadOptionalString(bytes, p, q, ref[3]) = c.uri
       /\ ReadStringList(bytes, p, q, ref[4]) = c.anchors
       /\ ReadStringList(bytes, p, q, ref[5]) = c.entities
  BY <1>2, <1>4, TextsRead
<1>13. row[13] = ref[1] /\ row[14] = ref[2] /\ row[15] = ref[3] /\ row[16] = ref[4] /\ row[17] = ref[5]
  <2>1. \A k \in 1 .. 5 : row[12 + k] = ref[k]
    BY <1>6
  <2> QED  BY <2>1
<1>14. /\ row[1] = c.id /\ row[2] = c.tenant /\ row[3] = c.copied /\ row[4] = c.source_hash
       /\ row[5] = c.bits /\ row[6] = c.residual /\ row[7] = c.from
       /\ row[8] = Default(c.until, MaxI64) /\ row[9] = c.observed /\ row[10] = c.verified
       /\ row[11] = c.ctx /\ row[12] = c.policy
  <2>1. PICK fields : fields = Fields(c)
    OBVIOUS
  <2>2. /\ fields[1] = c.id /\ fields[2] = c.tenant /\ fields[3] = c.copied
        /\ fields[4] = c.source_hash /\ fields[5] = c.bits /\ fields[6] = c.residual
        /\ fields[7] = c.from /\ fields[8] = Default(c.until, MaxI64)
        /\ fields[9] = c.observed /\ fields[10] = c.verified
        /\ fields[11] = c.ctx /\ fields[12] = c.policy
    BY <2>1 DEF Fields
  <2>3. \A k \in 1 .. 12 : row[k] = fields[k]
    BY <1>6, <2>1
  <2> QED  BY <2>2, <2>3
<1>15. (IF row[8] = MaxI64 THEN None ELSE row[8]) = IF c.until = MaxI64 THEN None ELSE c.until
  BY <1>14 DEF Default
<1>16. PICK x : x = IF row[8] = MaxI64 THEN None ELSE row[8]
  OBVIOUS
<1> HIDE DEF Edges
<1> DEFINE Row == Cells(bytes, HeaderLen + (o - 1) * MetadataLen, MetadataLen)
           Relation(k) == Cells(bytes, bytes[9] + Row[18] + (k - 1) * RelationLen, RelationLen)
           ReadEdges == IF InRange(bytes[9] + Row[18], Row[19] * RelationLen, bytes[10])
                        THEN [k \in 1 .. Row[19] |->
                                 [from |-> Relation(k)[1], to |-> Relation(k)[2],
                                  kind |-> Relation(k)[3].kind,
                                  weight |-> Relation(k)[3].weight]]
                        ELSE Malformed
<1>17. edges = ReadEdges
  <2>1. Row = row /\ bytes[9] + Row[18] = at /\ Row[19] = n /\ bytes[10] = r
    BY <1>1, <1>6, <1>7
  <2>2. \A k : Relation(k) = Cell(k)
    BY <2>1
  <2> HIDE DEF Relation, Cell, Row
  <2> QED  BY <1>9, <2>1, <2>2 DEF Edges
<1>18. ReadCapsule(bytes, o) =
          [id |-> row[1], tenant |-> row[2], copied |-> row[3], source_hash |-> row[4],
           bits |-> row[5], residual |-> row[6], from |-> row[7], until |-> x,
           observed |-> row[9], verified |-> row[10], ctx |-> row[11], policy |-> row[12],
           claim |-> ReadString(bytes, p, q, row[13]),
           evidence |-> ReadString(bytes, p, q, row[14]),
           uri |-> ReadOptionalString(bytes, p, q, row[15]),
           anchors |-> ReadStringList(bytes, p, q, row[16]),
           entities |-> ReadStringList(bytes, p, q, row[17]),
           edges |-> edges, content_hash |-> row[20], embedding |-> embedding]
  BY <1>1, <1>10, <1>16, <1>17 DEF ReadCapsule, EmbedDimOffset, VectorAreaOffset
<1>19. ReadCapsule(bytes, o) = Until(c, x)
  BY <1>6, <1>8, <1>9, <1>11, <1>12, <1>13, <1>14, <1>18 DEF Until
<1>20. Canonical(c) = Until(c, x)
  BY <1>3, <1>15, <1>16, CanonicalIsUntil
<1> QED  BY <1>2, <1>19, <1>20

\* What is read of a memory is in order, unless one of its edges starts
\* elsewhere (read_capsule).
OwnEdges(c) == \A e \in Range(c.edges) : e.from = c.id

LEMMA ReadIsValid ==
    ASSUME NEW c, Storable(c)
    PROVE  ValidCapsule(Canonical(c)) <=> OwnEdges(c)
<1>1. PICK d, x : d = Canonical(c) /\ x = IF c.until = MaxI64 THEN None ELSE c.until
  OBVIOUS
<1>2. d = Until(c, x)
  BY <1>1, CanonicalIsUntil
<1>3. /\ d.claim = c.claim /\ d.evidence = c.evidence /\ d.uri = c.uri
      /\ d.anchors = c.anchors /\ d.entities = c.entities /\ d.edges = c.edges
      /\ d.id = c.id /\ d.source_hash = c.source_hash /\ d.content_hash = c.content_hash
  BY <1>2 DEF Until
<1>4. /\ c.claim \in Seq(Nat) /\ c.evidence \in Seq(Nat) /\ c.uri \in Seq(Nat) \cup {None}
      /\ c.anchors \in Seq(Nat) /\ c.entities \in Seq(Nat) /\ c.edges \in Seq(RelationEdge)
  BY DEF Storable
<1>5. /\ Malformed # None /\ Malformed \notin Seq(Nat) /\ Malformed \notin Seq(RelationEdge)
  BY MalformedAssumption
<1>6. /\ d.claim # Malformed /\ d.evidence # Malformed /\ d.uri # Malformed
      /\ d.anchors # Malformed /\ d.entities # Malformed /\ d.edges # Malformed
  BY <1>3, <1>4, <1>5
<1>7. /\ d.content_hash = ContentHash(d.claim, d.evidence)
      /\ d.source_hash = SourceHash(d.uri, d.evidence)
  BY <1>3 DEF Storable
<1>8. (\A e \in Range(d.edges) : e.from = d.id) <=> OwnEdges(c)
  BY <1>3 DEF OwnEdges
<1> QED  BY <1>1, <1>6, <1>7, <1>8 DEF ValidCapsule

-----------------------------------------------------------------------------
(* The whole file.                                                         *)

LEMMA WholeHeader ==
    ASSUME NEW caps, Storables(caps), NEW epoch, NEW bytes, Filed(caps, epoch, bytes)
    PROVE  /\ ValidHeader(bytes) /\ bytes[HashOffset] = SegmentHash(bytes)
           /\ ValidSections(bytes)
<1>1. /\ bytes[1] = Magic /\ bytes[2] = Version /\ bytes[3] = HeaderLen
      /\ bytes[6] = Len(caps)
      /\ bytes[7] = HeaderLen /\ bytes[8] = StringsAt(caps)
      /\ bytes[9] = RelationsAt(caps) /\ bytes[10] = IndexAt(caps)
  BY HeaderFields
<1>2. /\ IsSeq(bytes) /\ HeaderLen <= Len(bytes)
      /\ bytes[HashOffset] = SegmentHash(bytes)
      /\ StringsAt(caps) \in Nat /\ RelationsAt(caps) \in Nat /\ IndexAt(caps) \in Nat
      /\ StringsAt(caps) <= RelationsAt(caps) /\ RelationsAt(caps) <= IndexAt(caps)
      /\ Inside(bytes, IndexAt(caps), SummaryOf(caps))
  BY DEF Filed
<1>3. ValidHeader(bytes)
  <2>1. Len(bytes) >= HeaderLen
    BY <1>2, SeqFacts DEF HeaderLen
  <2> QED  BY <1>1, <2>1 DEF ValidHeader
<1>4. PICK at, summary : at = IndexAt(caps) /\ summary = SummaryOf(caps)
  OBVIOUS
<1>5. IsSeq(summary) /\ Len(summary) = SummaryLen
  BY <1>4, PairSeq DEF SummaryOf, SummaryLen
<1>6. Inside(bytes, at, summary) /\ at \in Nat
  BY <1>2, <1>4
<1>7. Cells(bytes, at, Len(summary)) = summary
  BY <1>2, <1>5, <1>6, CellsInside
<1>8. InRange(at, SummaryLen, Len(bytes))
  BY <1>5, <1>6 DEF InRange, Inside
<1>9. /\ InRange(bytes[10], SummaryLen, Len(bytes))
      /\ Cells(bytes, bytes[10], SummaryLen) = <<IndexMark, bytes[6]>>
  BY <1>1, <1>4, <1>5, <1>7, <1>8 DEF SummaryOf
<1>10. ValidSections(bytes)
  BY <1>1, <1>2, <1>9 DEF ValidSections, StringsAt
<1> QED  BY <1>2, <1>3, <1>10

Read(caps) == [o \in 1 .. Len(caps) |-> Canonical(caps[o])]

LEMMA ReadType ==
    ASSUME NEW caps, Storables(caps), NEW read, read = Read(caps)
    PROVE  /\ IsSeq(read) /\ Len(read) = Len(caps) /\ Len(caps) \in Nat
           /\ \A o \in 1 .. Len(caps) : /\ Storable(caps[o])
                                        /\ read[o] = Canonical(caps[o])
                                        /\ read[o].id = caps[o].id
<1>1. PICK n \in Nat : n = Len(caps)
  BY SeqFacts DEF Storables
<1>2. read = [o \in 1 .. n |-> read[o]] /\ \A o \in 1 .. n : read[o] = Canonical(caps[o])
  BY <1>1 DEF Read
<1>3. IsSeq(read) /\ Len(read) = n
  BY <1>2, SeqFrom
<1>4. ASSUME NEW o \in 1 .. n
      PROVE  Storable(caps[o]) /\ Canonical(caps[o]).id = caps[o].id
  <2>1. PICK c, x : c = caps[o] /\ x = IF c.until = MaxI64 THEN None ELSE c.until
    OBVIOUS
  <2>2. Storable(c)
    BY <1>1, <2>1 DEF Storables
  <2>3. Canonical(c) = Until(c, x)
    BY <2>1, <2>2, CanonicalIsUntil
  <2>4. Canonical(c).id = c.id
    BY <2>3 DEF Until
  <2> QED  BY <2>1, <2>2, <2>4
<1> QED  BY <1>1, <1>2, <1>3, <1>4

\* There are as many ids as memories unless two memories share one.
LEMMA IdsTell ==
    ASSUME NEW caps, IsSeq(caps)
    PROVE  Cardinality(DOMAIN ById(caps)) = Len(caps) <=> UniqueIds(caps)
<1>1. PICK n \in Nat : n = Len(caps)
  BY SeqFacts
<1>2. DOMAIN caps = 1 .. n
  BY <1>1, SeqFacts
<1>3. PICK T : T = {c.id : c \in Range(caps)}
  OBVIOUS
<1>4. DOMAIN ById(caps) = T
  BY <1>3 DEF ById
<1>5. PICK f : f = [i \in 1 .. n |-> caps[i].id]
  OBVIOUS
<1>6. \A x : x \in T <=> \E i \in 1 .. n : x = f[i]
  BY <1>2, <1>3, <1>5 DEF Range
<1>7. f \in [1 .. n -> T]
  BY <1>5, <1>6
<1>8. f \in Surjection(1 .. n, T)
  BY <1>6, <1>7 DEF Surjection
<1>9. IsFiniteSet(1 .. n) /\ Cardinality(1 .. n) = n
  BY UpToFinite
<1>10. Cardinality(T) = Cardinality(1 .. n) <=> f \in Injection(1 .. n, T)
  BY <1>8, <1>9, FS_Surjection
<1>11. f \in Injection(1 .. n, T) <=> UniqueIds(caps)
  <2>1. UniqueIds(caps) <=> \A i, j \in 1 .. n : f[i] = f[j] => i = j
    BY <1>1, <1>5 DEF UniqueIds
  <2> QED  BY <1>7, <2>1 DEF Injection, IsInjective
<1> QED  BY <1>1, <1>4, <1>9, <1>10, <1>11

\* Err is no segment, and what becomes of an altered cell is no ciphertext.
ErrIsNoSegment ==
    \A epoch, tenant, caps, index :
        Malformed # [epoch |-> epoch, tenant |-> tenant, caps |-> caps, index |-> index]

GarbageIsNoSeal == \A key, nonce, plain : Garbage # Encrypt(key, nonce, plain)

Admitted(caps) == UniqueIds(caps) /\ \A i \in 1 .. Len(caps) : OwnEdges(caps[i])

LEMMA FiledOpens ==
    ASSUME NEW caps, Storables(caps), SameDimension(caps),
           NEW epoch, NEW bytes, Filed(caps, epoch, bytes)
    PROVE  FromBytes(bytes) =
              IF Admitted(caps)
              THEN [epoch |-> epoch, tenant |-> TenantOf(caps), caps |-> Read(caps),
                    index |-> Index(Read(caps))]
              ELSE Malformed
<1>1. PICK read, n : read = Read(caps) /\ n = Len(caps)
  OBVIOUS
<1>2. /\ IsSeq(read) /\ Len(read) = n /\ n \in Nat
      /\ \A o \in 1 .. n : /\ Storable(caps[o])
                           /\ read[o] = Canonical(caps[o])
                           /\ read[o].id = caps[o].id
  BY <1>1, ReadType
<1>3. /\ bytes[4] = epoch /\ bytes[5] = TenantOf(caps) /\ bytes[6] = n
      /\ bytes[12] = EmbeddingDim(caps) /\ bytes[13] = IndexAt(caps) + SummaryLen
  BY <1>1, HeaderFields
<1>4. ValidHeader(bytes) /\ bytes[HashOffset] = SegmentHash(bytes) /\ ValidSections(bytes)
  BY WholeHeader
<1>5. [o \in 1 .. bytes[6] |-> ReadCapsule(bytes, o)] = read
  <2>1. \A o \in 1 .. n : ReadCapsule(bytes, o) = Canonical(caps[o])
    BY <1>1, CapsuleRead
  <2> QED  BY <1>1, <1>3, <2>1 DEF Read
<1>6. InRange(bytes[VectorAreaOffset], bytes[6] * bytes[EmbedDimOffset], Len(bytes))
  <2>1. PICK dim, at : dim = EmbeddingDim(caps) /\ at = IndexAt(caps) + SummaryLen
    OBVIOUS
  <2>2. InRange(at, Len(caps) * dim, Len(bytes))
    BY <2>1, VectorRead
  <2> QED  BY <1>1, <1>3, <2>1, <2>2 DEF VectorAreaOffset, EmbedDimOffset
<1>7. (\A c \in Range(read) : ValidCapsule(c)) <=> \A i \in 1 .. n : OwnEdges(caps[i])
  <2>1. \A i \in 1 .. n : ValidCapsule(read[i]) <=> OwnEdges(caps[i])
    BY <1>2, ReadIsValid
  <2>2. DOMAIN read = 1 .. n
    BY <1>2, SeqFacts
  <2> QED  BY <2>1, <2>2 DEF Range
<1>8. FromBytes(bytes) = IF \A c \in Range(read) : ValidCapsule(c)
                         THEN Indexed(read, epoch, TenantOf(caps)) ELSE Malformed
  BY <1>3, <1>4, <1>5, <1>6 DEF FromBytes
<1>9. Cardinality(DOMAIN Index(read).by_id) = Len(read) <=> UniqueIds(read)
  <2>1. Index(read).by_id = ById(read)
    BY DEF Index
  <2> QED  BY <1>2, <2>1, IdsTell
<1>10. UniqueIds(read) <=> UniqueIds(caps)
  BY <1>1, <1>2 DEF UniqueIds
<1>11. Indexed(read, epoch, TenantOf(caps)) =
          IF UniqueIds(caps)
          THEN [epoch |-> epoch, tenant |-> TenantOf(caps), caps |-> read,
                index |-> Index(read)]
          ELSE Malformed
  BY <1>9, <1>10 DEF Indexed
<1> QED  BY <1>1, <1>7, <1>8, <1>11 DEF Admitted

\* Sorting changes neither ids nor edges.
LEMMA SortedIsReadmissible ==
    ASSUME NEW caps, Storables(caps), NEW sorted, sorted = SortedById(caps)
    PROVE  Readmissible(caps) <=> Admitted(sorted)
<1>1. PICK n \in Nat : n = Len(caps)
  BY SeqFacts DEF Storables
<1>2. Len(sorted) = n /\ \E order : Reorders(caps, sorted, order)
  BY <1>1, SortedStorables
<1>3. PICK order : Reorders(caps, sorted, order)
  BY <1>2
<1>4. /\ order \in [1 .. n -> 1 .. n]
      /\ \A i, j \in 1 .. n : order[i] = order[j] => i = j
      /\ \A j \in 1 .. n : \E i \in 1 .. n : order[i] = j
      /\ \A i \in 1 .. n : sorted[i] = caps[order[i]]
  BY <1>1, <1>3 DEF Reorders
<1>5. UniqueIds(caps) <=> UniqueIds(sorted)
  <2>1. ASSUME UniqueIds(caps), NEW i \in 1 .. n, NEW j \in 1 .. n,
               sorted[i].id = sorted[j].id
        PROVE  i = j
    <3>1. order[i] \in 1 .. n /\ order[j] \in 1 .. n
      BY <1>4
    <3>2. caps[order[i]].id = caps[order[j]].id
      BY <1>4, <2>1
    <3>3. order[i] = order[j]
      BY <1>1, <2>1, <3>1, <3>2 DEF UniqueIds
    <3> QED  BY <1>4, <3>3
  <2>2. ASSUME UniqueIds(sorted), NEW i \in 1 .. n, NEW j \in 1 .. n,
               caps[i].id = caps[j].id
        PROVE  i = j
    <3>1. PICK a \in 1 .. n : order[a] = i
      BY <1>4
    <3>2. PICK b \in 1 .. n : order[b] = j
      BY <1>4
    <3>3. sorted[a].id = sorted[b].id
      BY <1>4, <2>2, <3>1, <3>2
    <3>4. a = b
      BY <1>2, <2>2, <3>3 DEF UniqueIds
    <3> QED  BY <3>1, <3>2, <3>4
  <2> QED  BY <1>1, <1>2, <2>1, <2>2 DEF UniqueIds
<1>6. (\A i \in 1 .. n : OwnEdges(caps[i])) <=> (\A i \in 1 .. n : OwnEdges(sorted[i]))
  <2>1. ASSUME \A i \in 1 .. n : OwnEdges(caps[i]), NEW i \in 1 .. n
        PROVE  OwnEdges(sorted[i])
    <3>1. order[i] \in 1 .. n /\ sorted[i] = caps[order[i]]
      BY <1>4
    <3> QED  BY <2>1, <3>1
  <2>2. ASSUME \A i \in 1 .. n : OwnEdges(sorted[i]), NEW i \in 1 .. n
        PROVE  OwnEdges(caps[i])
    <3>1. PICK a \in 1 .. n : order[a] = i
      BY <1>4
    <3> QED  BY <1>4, <2>2, <3>1
  <2> QED  BY <2>1, <2>2
<1>7. DOMAIN caps = 1 .. n
  BY <1>1, SeqFacts DEF Storables
<1>8. Readmissible(caps) <=> UniqueIds(caps) /\ \A i \in 1 .. n : OwnEdges(caps[i])
  BY <1>1, <1>7 DEF Readmissible, UniqueIds, OwnEdges, Range
<1> QED  BY <1>2, <1>5, <1>6, <1>8 DEF Admitted

\* What an undamaged file opens to.
LEMMA WholeOpens ==
    ASSUME GarbageIsNoSeal, NEW s, Compiled(s)
    PROVE  (IF s.sealed THEN OpenSealed(Whole(s), SealKey) ELSE FromBytes(Whole(s)))
              = FromBytes(Bytes(s))
<1>1. PICK plain, cells : plain = Bytes(s) /\ cells = Whole(s)
  OBVIOUS
<1>2. CASE ~s.sealed
  BY <1>2 DEF Whole
<1>3. CASE s.sealed
  <2>1. cells = Seal(plain, SealKey)
    BY <1>1, <1>3 DEF Whole
  <2>2. PICK body : body = Encrypt(SealKey, Nonce, plain)
    OBVIOUS
  <2>3. /\ IsSeq(cells) /\ Len(cells) = 3 /\ cells[1] = SealMagic
        /\ cells[2] = Nonce /\ cells[3] = body
    BY <2>1, <2>2, SealedCells
  <2>4. Head(cells) = SealMagic
    BY <2>1 DEF Seal
  <2>5. body # Garbage /\ body.key = SealKey /\ body.nonce = Nonce /\ body.plain = plain
    BY <2>2 DEF GarbageIsNoSeal, Encrypt
  <2>6. Unseal(cells, SealKey) = plain
    BY <2>3, <2>4, <2>5 DEF Unseal, Decrypt
  <2>7. plain # Malformed
    BY <1>1 DEF Compiled
  <2>8. OpenSealed(cells, SealKey) = FromBytes(plain)
    BY <2>6, <2>7 DEF OpenSealed
  <2> QED  BY <1>1, <1>3, <2>8
<1> QED  BY <1>2, <1>3

\* An undamaged file opens to the memories it was compiled from, in the order of
\* their ids, or is refused when two share an id or an edge starts at another
\* memory (compiler.rs assemble_segment, segment.rs from_bytes, read_capsule).
THEOREM FilesOpen ==
    ASSUME ErrIsNoSegment, GarbageIsNoSeal
    PROVE  Spec => []FileOutcome
<1>1. FileInv => FileOutcome
  <2> SUFFICES ASSUME FileInv, file # NoFile, ~damaged
               PROVE  IF Readmissible(source.caps)
                      THEN /\ Opened # Malformed
                           /\ Opened.epoch = source.epoch
                           /\ Opened.caps = [i \in DOMAIN source.caps |->
                                                Canonical(SortedById(source.caps)[i])]
                      ELSE Opened = Malformed
    BY DEF FileOutcome
  <2>1. PICK s, caps, sorted, bytes, opened, n :
            /\ s = source /\ caps = s.caps /\ sorted = SortedById(caps)
            /\ bytes = Bytes(s) /\ opened = Opened /\ n = Len(caps)
    OBVIOUS
  <2>2. Compiled(s) /\ file = Whole(s)
    BY <2>1 DEF FileInv
  <2>3. opened = FromBytes(bytes)
    BY <2>1, <2>2, WholeOpens DEF Opened
  <2>4. Storables(caps) /\ Storables(sorted) /\ Filed(sorted, s.epoch, bytes) /\ SameDimension(sorted)
    BY <2>1, <2>2, CompiledIsFiled
  <2>5. opened = IF Admitted(sorted)
                 THEN [epoch |-> s.epoch, tenant |-> TenantOf(sorted), caps |-> Read(sorted),
                       index |-> Index(Read(sorted))]
                 ELSE Malformed
    BY <2>3, <2>4, FiledOpens
  <2>6. Readmissible(caps) <=> Admitted(sorted)
    BY <2>1, <2>4, SortedIsReadmissible
  <2>7. DOMAIN caps = 1 .. n /\ Len(sorted) = n
    BY <2>1, <2>4, SortedStorables, SeqFacts DEF Storables
  <2>8. Read(sorted) = [i \in DOMAIN caps |-> Canonical(sorted[i])]
    BY <2>7 DEF Read
  <2>9. Admitted(sorted) => /\ opened # Malformed
                            /\ opened.epoch = s.epoch
                            /\ opened.caps = Read(sorted)
    BY <2>5 DEF ErrIsNoSegment
  <2> QED  BY <2>1, <2>5, <2>6, <2>8, <2>9
<1> QED  BY <1>1, StoreInvInductive, FileInvInductive, PTL DEF Spec

-----------------------------------------------------------------------------
(* Bit sets.                                                               *)

\* How many words hold n bits.
WordCount(n) == (n + WordBits - 1) \div WordBits

\* The bits that hold the ordinals of S.
Held(n, S) ==
    [w \in 1 .. WordCount(n) |->
        {b \in 0 .. WordBits - 1 : (w - 1) * WordBits + b + 1 \in S}]

Holding(n, S) == [size |-> n, words |-> Held(n, S)]

LEMMA WordOf ==
    ASSUME NEW i \in Nat, NEW q, NEW r, q = i \div WordBits, r = i % WordBits
    PROVE  q \in Nat /\ r \in 0 .. WordBits - 1 /\ i = q * WordBits + r
<1>1. WordBits \in Nat \ {0}
  BY SizesAssumption
<1> QED  BY <1>1

\* A word and a place in it are one bit's only.
LEMMA OnePlace ==
    ASSUME NEW u \in Nat, NEW v \in Nat, NEW b \in 0 .. WordBits - 1, NEW c \in 0 .. WordBits - 1,
           u * WordBits + b = v * WordBits + c
    PROVE  u = v /\ b = c
<1>1. WordBits \in Nat /\ WordBits > 0
  BY SizesAssumption
<1>2. ASSUME NEW x \in Nat, NEW y \in Nat, x < y, NEW d \in 0 .. WordBits - 1
      PROVE  x * WordBits + d < y * WordBits
  <2>1. PICK e \in Nat : y = x + 1 + e
    <3>1. y - x - 1 \in Nat /\ y = x + 1 + (y - x - 1)
      BY <1>2
    <3> QED  BY <3>1
  <2>2. y * WordBits = x * WordBits + WordBits + e * WordBits
    BY <1>1, <2>1
  <2>3. x * WordBits \in Nat /\ e * WordBits \in Nat
    BY <1>1
  <2> QED  BY <1>1, <2>2, <2>3
<1>3. u * WordBits \in Nat /\ v * WordBits \in Nat
  BY <1>1
<1>4. ~(u < v)
  <2> SUFFICES ASSUME u < v  PROVE FALSE
    OBVIOUS
  <2>1. u * WordBits + b < v * WordBits
    BY <1>2
  <2> QED  BY <1>3, <2>1
<1>5. ~(v < u)
  <2> SUFFICES ASSUME v < u  PROVE FALSE
    OBVIOUS
  <2>1. v * WordBits + c < u * WordBits
    BY <1>2
  <2> QED  BY <1>3, <2>1
<1>6. u = v
  BY <1>4, <1>5
<1> QED  BY <1>3, <1>6

\* Every bit below the size has its word.
LEMMA WordIsThere ==
    ASSUME NEW n \in Nat, NEW i \in 0 .. n - 1
    PROVE  WordCount(n) \in Nat /\ (i \div WordBits) + 1 \in 1 .. WordCount(n)
<1>1. WordBits \in Nat /\ WordBits > 0
  BY SizesAssumption
<1>2. PICK k \in Nat : k = n + WordBits - 1
  BY <1>1
<1>3. PICK m, s : m = k \div WordBits /\ s = k % WordBits
  OBVIOUS
<1>4. m \in Nat /\ s \in 0 .. WordBits - 1 /\ k = m * WordBits + s
  BY <1>3, WordOf
<1>5. PICK q, r : q = i \div WordBits /\ r = i % WordBits
  OBVIOUS
<1>6. q \in Nat /\ r \in 0 .. WordBits - 1 /\ i = q * WordBits + r
  BY <1>5, WordOf
<1>7. m > q
  <2> SUFFICES ASSUME m <= q  PROVE FALSE
    BY <1>4, <1>6
  <2>1. PICK d \in Nat : q = m + d
    <3>1. q - m \in Nat /\ q = m + (q - m)
      BY <1>4, <1>6
    <3> QED  BY <3>1
  <2>2. q * WordBits = m * WordBits + d * WordBits
    BY <1>1, <1>4, <2>1
  <2>3. m * WordBits \in Nat /\ d * WordBits \in Nat
    BY <1>1, <1>4
  <2> QED  BY <1>1, <1>2, <1>4, <1>6, <2>2, <2>3
<1>8. WordCount(n) = m
  BY <1>2, <1>3 DEF WordCount
<1> QED  BY <1>4, <1>5, <1>6, <1>7, <1>8

LEMMA NewHoldsNone ==
    ASSUME NEW n \in Nat
    PROVE  NewBits(n) = Holding(n, {})
<1>1. \A w : {b \in 0 .. WordBits - 1 : (w - 1) * WordBits + b + 1 \in {}} = {}
  OBVIOUS
<1>2. Held(n, {}) = [w \in 1 .. WordCount(n) |-> {}]
  BY <1>1 DEF Held
<1> QED  BY <1>2 DEF NewBits, Holding, WordCount

\* Setting the bit of an ordinal.
LEMMA SetHolds ==
    ASSUME NEW n \in Nat, NEW S \in SUBSET (1 .. n), NEW x \in 1 .. n
    PROVE  SetBit(Holding(n, S), x - 1) = Holding(n, S \cup {x})
<1>1. PICK i \in 0 .. n - 1 : i = x - 1
  OBVIOUS
<1>2. PICK q, r, h, T : /\ q = i \div WordBits /\ r = i % WordBits
                        /\ h = Held(n, S) /\ T = S \cup {x}
  OBVIOUS
<1>3. q \in Nat /\ r \in 0 .. WordBits - 1 /\ i = q * WordBits + r
  BY <1>2, WordOf
<1>4. q + 1 \in 1 .. WordCount(n) /\ WordCount(n) \in Nat
  BY <1>2, WordIsThere
<1>5. PICK p : p = q + 1
  OBVIOUS
<1>6. SetBit(Holding(n, S), i) = [size |-> n, words |-> [h EXCEPT ![p] = @ \cup {r}]]
  <2>1. Holding(n, S) = [size |-> n, words |-> h]
    BY <1>2 DEF Holding
  <2>2. PICK set : set = Holding(n, S)
    OBVIOUS
  <2>3. SetBit(set, i) = [set EXCEPT !.words[p] = @ \cup {r}]
    BY <1>2, <1>5 DEF SetBit
  <2>4. set = [size |-> n, words |-> h]
    BY <2>1, <2>2
  <2> QED  BY <2>2, <2>3, <2>4
<1>7. PICK g : g = [h EXCEPT ![p] = @ \cup {r}]
  OBVIOUS
<1>8. /\ h = [w \in 1 .. WordCount(n) |-> h[w]]
      /\ \A w \in 1 .. WordCount(n) :
             h[w] = {b \in 0 .. WordBits - 1 : (w - 1) * WordBits + b + 1 \in S}
  BY <1>2 DEF Held
<1>9. g = [w \in 1 .. WordCount(n) |-> IF w = p THEN h[w] \cup {r} ELSE h[w]]
  BY <1>4, <1>5, <1>7, <1>8
<1>10. ASSUME NEW w \in 1 .. WordCount(n)
       PROVE  (IF w = p THEN h[w] \cup {r} ELSE h[w])
                 = {b \in 0 .. WordBits - 1 : (w - 1) * WordBits + b + 1 \in T}
  <2>1. PICK v \in Nat : v = w - 1
    BY <1>4
  <2>2. v * WordBits \in Nat /\ WordBits \in Nat
    BY SizesAssumption
  <2>3. ASSUME NEW b \in 0 .. WordBits - 1
        PROVE  v * WordBits + b + 1 = x <=> w = p /\ b = r
    <3>1. v * WordBits + b + 1 = x <=> v * WordBits + b = q * WordBits + r
      BY <1>1, <1>3, <2>2
    <3>2. v * WordBits + b = q * WordBits + r => v = q /\ b = r
      BY <1>3, OnePlace
    <3>3. v = q /\ b = r => v * WordBits + b = q * WordBits + r
      OBVIOUS
    <3>4. v = q <=> w = p
      BY <1>3, <1>4, <1>5, <2>1
    <3> QED  BY <3>1, <3>2, <3>3, <3>4
  <2>4. h[w] = {b \in 0 .. WordBits - 1 : v * WordBits + b + 1 \in S}
    BY <1>8, <2>1
  <2>5. \A b \in 0 .. WordBits - 1 :
            v * WordBits + b + 1 \in T <=> v * WordBits + b + 1 \in S \/ (w = p /\ b = r)
    BY <1>2, <2>3
  <2>6. {b \in 0 .. WordBits - 1 : v * WordBits + b + 1 \in T}
           = IF w = p THEN h[w] \cup {r} ELSE h[w]
    BY <1>3, <2>4, <2>5
  <2> QED  BY <2>1, <2>6
<1>11. g = Held(n, T)
  BY <1>9, <1>10 DEF Held
<1> QED  BY <1>1, <1>2, <1>6, <1>7, <1>11 DEF Holding

Chosen(s) == CHOOSE x \in s : TRUE

\* Bits, in Narrow.
BitsOf(n, S) == FoldSet(LAMBDA o, set : SetBit(set, o - 1), NewBits(n), S)

\* One ordinal less.
LEMMA OrdinalLess ==
    ASSUME NEW s, IsFiniteSet(s), NEW x \in s, NEW t, t = s \ {x}
    PROVE  /\ IsFiniteSet(t) /\ t \in SUBSET s /\ t \cup {x} = s
           /\ Cardinality(s) = Cardinality(t) + 1 /\ Cardinality(t) \in Nat
<1>1. IsFiniteSet(t) /\ Cardinality(t) = Cardinality(s) - 1
  BY FS_RemoveElement
<1>2. Cardinality(s) \in Nat /\ Cardinality(t) \in Nat
  BY <1>1, FS_CardinalityType
<1> QED  BY <1>1, <1>2

\* Setting the bits of a set's ordinals, one after the other.
LEMMA BitsHold ==
    ASSUME NEW n \in Nat, NEW S \in SUBSET (1 .. n)
    PROVE  BitsOf(n, S) = Holding(n, S)
<1> DEFINE F(g, s) == IF s = {} THEN NewBits(n) ELSE SetBit(g[s \ {Chosen(s)}], Chosen(s) - 1)
           G == CHOOSE g : g = [s \in SUBSET S |-> F(g, s)]
           h == [s \in SUBSET S |-> Holding(n, s)]
           H == {k \in Nat : \A s \in SUBSET S : Cardinality(s) = k => G[s] = Holding(n, s)}
<1>1. BitsOf(n, S) = G[S]
  BY Zenon DEF BitsOf, FoldSet, MapThenFoldSet, Chosen
<1>2. IsFiniteSet(S)
  <2>1. IsFiniteSet(1 .. n)
    BY UpToFinite
  <2> QED  BY <2>1, FS_Subset
<1>3. ASSUME NEW g, NEW s \in SUBSET S, s # {}, NEW t, t = s \ {Chosen(s)},
             g[t] = Holding(n, t)
      PROVE  F(g, s) = Holding(n, s)
  <2>1. PICK x : x = Chosen(s)
    OBVIOUS
  <2>2. x \in s
    BY <1>3, <2>1 DEF Chosen
  <2>3. t = s \ {x} /\ t \cup {x} = s /\ t \in SUBSET (1 .. n) /\ x \in 1 .. n
    BY <1>3, <2>1, <2>2
  <2>4. SetBit(Holding(n, t), x - 1) = Holding(n, t \cup {x})
    BY <2>3, SetHolds
  <2>5. F(g, s) = SetBit(g[t], x - 1)
    BY <1>3, <2>1
  <2> QED  BY <1>3, <2>3, <2>4, <2>5
<1>4. \A g : F(g, {}) = Holding(n, {})
  BY NewHoldsNone
<1>5. h = [s \in SUBSET S |-> F(h, s)]
  <2>1. ASSUME NEW s \in SUBSET S  PROVE F(h, s) = Holding(n, s)
    <3>1. CASE s = {}
      BY <1>4, <3>1
    <3>2. CASE s # {}
      <4>1. PICK t : t = s \ {Chosen(s)}
        OBVIOUS
      <4>2. h[t] = Holding(n, t)
        BY <4>1
      <4> HIDE DEF h, F
      <4> QED  BY <1>3, <3>2, <4>1, <4>2
    <3> QED  BY <3>1, <3>2
  <2> HIDE DEF F
  <2> QED  BY <2>1
<1> HIDE DEF F, h
<1>6. G = [s \in SUBSET S |-> F(G, s)]
  BY <1>5, Zenon
<1> HIDE DEF G
<1>7. \A s \in SUBSET S : G[s] = F(G, s)
  BY <1>6
<1>8. \A s \in SUBSET S : IsFiniteSet(s) /\ Cardinality(s) \in Nat
  BY <1>2, FS_Subset, FS_CardinalityType
<1>9. 0 \in H
  <2>1. ASSUME NEW s \in SUBSET S, Cardinality(s) = 0  PROVE G[s] = Holding(n, s)
    <3>1. s = {}
      BY <1>8, <2>1, FS_EmptySet
    <3> QED  BY <1>4, <1>7, <3>1
  <2> QED  BY <2>1
<1>10. \A k \in H : k + 1 \in H
  <2> TAKE k \in H
  <2>1. ASSUME NEW s \in SUBSET S, Cardinality(s) = k + 1  PROVE G[s] = Holding(n, s)
    <3>1. s # {}
      <4>1. Cardinality({}) = 0
        BY FS_EmptySet
      <4>2. k + 1 # 0
        OBVIOUS
      <4>3. Cardinality(s) # Cardinality({})
        BY <2>1, <4>1, <4>2
      <4> QED  BY <4>3
    <3>2. PICK x, t : x = Chosen(s) /\ t = s \ {x}
      OBVIOUS
    <3>3. x \in s
      BY <3>1, <3>2 DEF Chosen
    <3>4. Cardinality(s) = Cardinality(t) + 1 /\ Cardinality(t) \in Nat
      <4>1. IsFiniteSet(s)
        BY <1>8
      <4> QED  BY <3>2, <3>3, <4>1, OrdinalLess
    <3>5. Cardinality(t) = k /\ t \in SUBSET S
      <4>1. k \in Nat
        OBVIOUS
      <4>2. Cardinality(t) = k
        BY <2>1, <3>4, <4>1
      <4>3. t \in SUBSET S
        BY <3>2
      <4> QED  BY <4>2, <4>3
    <3>6. G[t] = Holding(n, t)
      BY <3>5
    <3>7. F(G, s) = Holding(n, s)
      BY <1>3, <3>1, <3>2, <3>6
    <3> QED  BY <1>7, <3>7
  <2> QED  BY <2>1
<1>11. H = Nat
  <2>1. H \in SUBSET Nat
    OBVIOUS
  <2> HIDE DEF H
  <2> QED  BY <1>9, <1>10, <2>1, Induction
<1> QED  BY <1>1, <1>8, <1>11

LEMMA HeldAt ==
    ASSUME NEW n, NEW S, NEW h, h = Held(n, S)
    PROVE  /\ h = [w \in 1 .. WordCount(n) |-> h[w]]
           /\ \A w \in 1 .. WordCount(n) :
                  h[w] = {b \in 0 .. WordBits - 1 : (w - 1) * WordBits + b + 1 \in S}
BY DEF Held

\* iter_ones gives the ordinals that are held, from 0.
LEMMA OnesOfHolding ==
    ASSUME NEW n \in Nat, NEW S \in SUBSET (1 .. n)
    PROVE  /\ IsSeq(Ones(Holding(n, S)))
           /\ Range(Ones(Holding(n, S))) = {x - 1 : x \in S}
<1>1. PICK set, h : set = Holding(n, S) /\ h = Held(n, S)
  OBVIOUS
<1>2. set.size = n /\ set.words = h
  BY <1>1 DEF Holding
<1>3. ASSUME NEW i \in 0 .. n - 1  PROVE GetBit(set, i) <=> i + 1 \in S
  <2>1. PICK q, r : q = i \div WordBits /\ r = i % WordBits
    OBVIOUS
  <2>2. q \in Nat /\ r \in 0 .. WordBits - 1 /\ i = q * WordBits + r
    BY <2>1, WordOf
  <2>3. PICK w : w = q + 1
    OBVIOUS
  <2>4. w \in 1 .. WordCount(n) /\ w - 1 = q
    <3>1. (i \div WordBits) + 1 \in 1 .. WordCount(n)
      BY WordIsThere
    <3>2. w = (i \div WordBits) + 1
      BY <2>1, <2>3
    <3>3. w - 1 = q
      BY <2>2, <2>3
    <3> QED  BY <3>1, <3>2, <3>3
  <2>5. h[w] = {b \in 0 .. WordBits - 1 : (w - 1) * WordBits + b + 1 \in S}
    BY <1>1, <2>4, HeldAt
  <2>6. r \in h[w] <=> q * WordBits + r + 1 \in S
    BY <2>2, <2>4, <2>5
  <2> QED  BY <1>2, <2>1, <2>2, <2>3, <2>6 DEF GetBit
<1>4. PICK T : T = {i \in 0 .. n - 1 : i + 1 \in S}
  OBVIOUS
<1>5. Ones(set) = Ascending(T)
  <2>1. {i \in 0 .. set.size - 1 : GetBit(set, i)} = T
    BY <1>2, <1>3, <1>4
  <2> QED  BY <2>1 DEF Ones
<1>6. T = {x - 1 : x \in S}
  <2>1. \A x \in S : x - 1 \in 0 .. n - 1 /\ (x - 1) + 1 = x
    OBVIOUS
  <2>2. \A i \in T : i + 1 \in S /\ i = (i + 1) - 1
    BY <1>4
  <2> QED  BY <1>4, <2>1, <2>2
<1>7. T \in SUBSET Int /\ T \in SUBSET (0 .. n - 1)
  BY <1>4
<1>8. IsFiniteSet(T)
  <2>1. \A a, b \in Int : IsFiniteSet(a .. b)
    BY FS_Interval
  <2>2. IsFiniteSet(0 .. n - 1)
    BY <2>1
  <2> QED  BY <1>7, <2>2, FS_Subset
<1> QED  BY <1>1, <1>5, <1>6, <1>7, <1>8, AscendingLists

LEMMA OrHolds ==
    ASSUME NEW n \in Nat, NEW A \in SUBSET (1 .. n), NEW B \in SUBSET (1 .. n)
    PROVE  OrAssign(Holding(n, A), Holding(n, B)) = Holding(n, A \cup B)
<1>1. PICK a, b, set, other, T : /\ a = Held(n, A) /\ b = Held(n, B)
                                 /\ set = Holding(n, A) /\ other = Holding(n, B)
                                 /\ T = A \cup B
  OBVIOUS
<1>2. set = [size |-> n, words |-> a] /\ other = [size |-> n, words |-> b]
  BY <1>1 DEF Holding
<1> DEFINE g == [w \in DOMAIN a |->
                    {k \in a[w] \cup b[w] : (w - 1) * WordBits + k < n}]
<1>3. OrAssign(set, other) = [size |-> n, words |-> g]
  <2>1. set.words = a /\ other.words = b /\ set.size = n
    BY <1>2
  <2>2. OrAssign(set, other) = [set EXCEPT !.words = g]
    BY <2>1 DEF OrAssign
  <2>3. PICK f : f = g
    OBVIOUS
  <2>4. [set EXCEPT !.words = f] = [size |-> n, words |-> f]
    BY <1>2
  <2> QED  BY <2>2, <2>3, <2>4
<1>4. DOMAIN a = 1 .. WordCount(n)
  BY <1>1 DEF Held
<1>5. ASSUME NEW w \in 1 .. WordCount(n)
      PROVE  {k \in a[w] \cup b[w] : (w - 1) * WordBits + k < n}
                = {k \in 0 .. WordBits - 1 : (w - 1) * WordBits + k + 1 \in T}
  <2>1. a[w] = {k \in 0 .. WordBits - 1 : (w - 1) * WordBits + k + 1 \in A}
    BY <1>1, HeldAt
  <2>2. b[w] = {k \in 0 .. WordBits - 1 : (w - 1) * WordBits + k + 1 \in B}
    BY <1>1, HeldAt
  <2>3. (w - 1) * WordBits \in Int
    BY SizesAssumption
  <2>4. ASSUME NEW k \in 0 .. WordBits - 1, (w - 1) * WordBits + k + 1 \in A \cup B
        PROVE  (w - 1) * WordBits + k < n
    <3>1. (w - 1) * WordBits + k + 1 \in 1 .. n
      BY <2>4
    <3> QED  BY <2>3, <3>1
  <2> QED  BY <1>1, <2>1, <2>2, <2>4
<1>6. g = Held(n, T)
  BY <1>4, <1>5 DEF Held
<1> QED  BY <1>1, <1>3, <1>6 DEF Holding

LEMMA AndHolds ==
    ASSUME NEW n \in Nat, NEW A \in SUBSET (1 .. n), NEW B \in SUBSET (1 .. n)
    PROVE  AndAssign(Holding(n, A), Holding(n, B)) = Holding(n, A \cap B)
<1>1. PICK a, b, set, other, T : /\ a = Held(n, A) /\ b = Held(n, B)
                                 /\ set = Holding(n, A) /\ other = Holding(n, B)
                                 /\ T = A \cap B
  OBVIOUS
<1>2. set = [size |-> n, words |-> a] /\ other = [size |-> n, words |-> b]
  BY <1>1 DEF Holding
<1> DEFINE g == [w \in DOMAIN a |-> a[w] \cap b[w]]
<1>3. AndAssign(set, other) = [size |-> n, words |-> g]
  <2>1. set.words = a /\ other.words = b /\ set.size = n
    BY <1>2
  <2>2. AndAssign(set, other) = [set EXCEPT !.words = g]
    BY <2>1 DEF AndAssign
  <2>3. PICK f : f = g
    OBVIOUS
  <2>4. [set EXCEPT !.words = f] = [size |-> n, words |-> f]
    BY <1>2
  <2> QED  BY <2>2, <2>3, <2>4
<1>4. DOMAIN a = 1 .. WordCount(n)
  BY <1>1 DEF Held
<1>5. ASSUME NEW w \in 1 .. WordCount(n)
      PROVE  a[w] \cap b[w] = {k \in 0 .. WordBits - 1 : (w - 1) * WordBits + k + 1 \in T}
  <2>1. a[w] = {k \in 0 .. WordBits - 1 : (w - 1) * WordBits + k + 1 \in A}
    BY <1>1, HeldAt
  <2>2. b[w] = {k \in 0 .. WordBits - 1 : (w - 1) * WordBits + k + 1 \in B}
    BY <1>1, HeldAt
  <2> QED  BY <1>1, <2>1, <2>2
<1>6. g = Held(n, T)
  BY <1>4, <1>5 DEF Held
<1> QED  BY <1>1, <1>3, <1>6 DEF Holding

-----------------------------------------------------------------------------
(* Bands.                                                                  *)

Slice(band) == band * BandWidth .. band * BandWidth + BandWidth - 1

\* Equal bits in a slice are an equal key.
LEMMA SameSlice ==
    ASSUME NEW x, NEW y, NEW band,
           \A b \in Slice(band) : b \in x <=> b \in y
    PROVE  BandKey(x, band) = BandKey(y, band)
<1>1. x \cap Slice(band) = y \cap Slice(band)
  OBVIOUS
<1> QED  BY <1>1, Zenon DEF BandKey, Slice

\* The slices of two bands have no bit in common.
LEMMA SlicesDiffer ==
    ASSUME NEW u \in Nat, NEW v \in Nat, NEW b \in Slice(u), b \in Slice(v)
    PROVE  u = v
<1>1. BandWidth \in Nat \ {0}
  BY SizesAssumption
<1>2. ASSUME NEW x \in Nat, NEW y \in Nat, x < y, NEW d \in Slice(x)
      PROVE  d < y * BandWidth
  <2>1. PICK e \in Nat : y = x + 1 + e
    <3>1. y - x - 1 \in Nat /\ y = x + 1 + (y - x - 1)
      BY <1>2
    <3> QED  BY <3>1
  <2>2. y * BandWidth = x * BandWidth + BandWidth + e * BandWidth
    BY <1>1, <2>1
  <2>3. x * BandWidth \in Nat /\ e * BandWidth \in Nat
    BY <1>1
  <2>4. d \in x * BandWidth .. x * BandWidth + BandWidth - 1
    BY DEF Slice
  <2> QED  BY <1>1, <2>2, <2>3, <2>4
<1>3. u * BandWidth \in Nat /\ v * BandWidth \in Nat
  BY <1>1
<1>4. /\ b \in u * BandWidth .. u * BandWidth + BandWidth - 1
      /\ b \in v * BandWidth .. v * BandWidth + BandWidth - 1
  BY DEF Slice
<1>5. ~(u < v)
  <2> SUFFICES ASSUME u < v  PROVE FALSE
    OBVIOUS
  <2>1. b < v * BandWidth
    BY <1>2
  <2> QED  BY <1>3, <1>4, <2>1
<1>6. ~(v < u)
  <2> SUFFICES ASSUME v < u  PROVE FALSE
    OBVIOUS
  <2>1. b < u * BandWidth
    BY <1>2
  <2> QED  BY <1>3, <1>4, <2>1
<1> QED  BY <1>5, <1>6

\* The bits of a fingerprint.
Fingerprint == 0 .. LshBands * BandWidth - 1

\* Fingerprints that differ in fewer bits than there are bands agree in one.
LEMMA CommonBand ==
    ASSUME NEW x \in SUBSET Fingerprint, NEW y \in SUBSET Fingerprint,
           Distance(x, y) < LshBands
    PROVE  \E band \in 0 .. LshBands - 1 : BandKey(x, band) = BandKey(y, band)
<1> SUFFICES ASSUME \A band \in 0 .. LshBands - 1 : BandKey(x, band) # BandKey(y, band)
             PROVE  FALSE
  OBVIOUS
<1>1. LshBands \in Nat \ {0} /\ BandWidth \in Nat \ {0}
  BY SizesAssumption
<1>2. PICK D : D = (x \ y) \cup (y \ x)
  OBVIOUS
<1>3. IsFiniteSet(D) /\ Cardinality(D) \in Nat
  <2>1. \A a, b \in Int : IsFiniteSet(a .. b)
    BY FS_Interval
  <2>2. PICK last \in Int : last = LshBands * BandWidth - 1
    BY <1>1
  <2>3. Fingerprint = 0 .. last
    BY <2>2 DEF Fingerprint
  <2>4. IsFiniteSet(Fingerprint)
    BY <2>1, <2>3
  <2>5. D \in SUBSET Fingerprint
    BY <1>2
  <2> QED  BY <2>4, <2>5, FS_Subset, FS_CardinalityType
<1> DEFINE Bands == 0 .. LshBands - 1
           f == [band \in Bands |-> CHOOSE b \in D : b \in Slice(band)]
<1>4. ASSUME NEW band \in Bands  PROVE f[band] \in D /\ f[band] \in Slice(band)
  <2>1. BandKey(x, band) # BandKey(y, band)
    OBVIOUS
  <2>2. \E b \in Slice(band) : ~(b \in x <=> b \in y)
    BY <2>1, SameSlice
  <2>3. \E b \in D : b \in Slice(band)
    BY <1>2, <2>2
  <2> QED  BY <2>3
<1> HIDE DEF f
<1>5. f \in [Bands -> D]
  <2>1. f = [band \in Bands |-> f[band]]
    BY DEF f
  <2> QED  BY <1>4, <2>1
<1>6. \A u, v \in Bands : f[u] = f[v] => u = v
  BY <1>1, <1>4, SlicesDiffer
<1>7. f \in Injection(Bands, D)
  BY <1>5, <1>6 DEF Injection, IsInjective
<1>8. Cardinality(Bands) <= Cardinality(D)
  BY <1>3, <1>7, FS_Injection
<1>9. Cardinality(Bands) = LshBands
  <2>1. \A a, b \in Int : Cardinality(a .. b) = IF a > b THEN 0 ELSE b - a + 1
    BY FS_Interval
  <2>2. PICK last \in Nat : last = LshBands - 1
    BY <1>1
  <2>3. Cardinality(0 .. last) = last + 1
    BY <2>1
  <2> QED  BY <1>1, <2>2, <2>3
<1>10. Cardinality(D) < LshBands
  BY <1>2 DEF Distance
<1> QED  BY <1>1, <1>3, <1>8, <1>9, <1>10

\* The tables over the bits of the ordinals of dom.
TablesOf(dom, bands, bits) ==
    [band \in 0 .. bands - 1 |->
        [k \in {BandKey(bits[o], band) : o \in dom} |->
            Ascending({o \in dom : BandKey(bits[o], band) = k})]]

\* What has a band's key is found under it.
LEMMA InTables ==
    ASSUME NEW n \in Nat, NEW dom \in SUBSET (1 .. n), NEW bands, NEW bits,
           NEW tables, tables = TablesOf(dom, bands, bits),
           NEW x, NEW p \in dom, NEW band \in 0 .. bands - 1,
           BandKey(x, band) = BandKey(bits[p], band)
    PROVE  p \in SharingABand(tables, x)
<1>1. PICK k, table, S : /\ k = BandKey(x, band) /\ table = tables[band]
                         /\ S = {o \in dom : BandKey(bits[o], band) = k}
  OBVIOUS
<1>2. DOMAIN tables = 0 .. bands - 1
  BY DEF TablesOf
<1>3. table = [j \in {BandKey(bits[o], band) : o \in dom} |->
                  Ascending({o \in dom : BandKey(bits[o], band) = j})]
  BY <1>1 DEF TablesOf
<1>4. k \in DOMAIN table /\ table[k] = Ascending(S)
  BY <1>1, <1>3
<1>5. S \in SUBSET Int /\ S \in SUBSET (1 .. n) /\ p \in S
  <2>1. S \in SUBSET (1 .. n)
    BY <1>1
  <2>2. p \in S
    BY <1>1
  <2> QED  BY <2>1, <2>2
<1>6. IsFiniteSet(S)
  BY <1>5, UpToFinite, FS_Subset
<1>7. p \in Range(table[k])
  BY <1>4, <1>5, <1>6, AscendingLists
<1>8. p \in (IF BandKey(x, band) \in DOMAIN tables[band]
             THEN Range(tables[band][BandKey(x, band)]) ELSE {})
  BY <1>1, <1>4, <1>7
<1> QED  BY <1>2, <1>8, Zenon DEF SharingABand

-----------------------------------------------------------------------------
(* The index.                                                              *)

\* What by_id gives, when no two share an id.
LEMMA FoundById ==
    ASSUME NEW caps, IsSeq(caps), UniqueIds(caps), NEW o \in 1 .. Len(caps)
    PROVE  caps[o].id \in DOMAIN ById(caps) /\ ById(caps)[caps[o].id] = o
<1>1. PICK n \in Nat : n = Len(caps)
  BY SeqFacts
<1>2. DOMAIN caps = 1 .. n /\ o \in 1 .. n
  BY <1>1, SeqFacts
<1>3. PICK id : id = caps[o].id
  OBVIOUS
<1>4. id \in {c.id : c \in Range(caps)}
  BY <1>2, <1>3 DEF Range
<1>5. {p \in 1 .. n : caps[p].id = id} = {o}
  BY <1>1, <1>2, <1>3 DEF UniqueIds
<1>6. ById(caps)[id] = Max({o}) /\ id \in DOMAIN ById(caps)
  BY <1>2, <1>4, <1>5 DEF ById
<1>7. Max({o}) = o
  BY <1>2 DEF Max
<1> QED  BY <1>3, <1>6, <1>7

\* An edge that supersedes the memory o.
SupersededIn(caps, o) ==
    \E c \in Range(caps), e \in UNION {Range(d.edges) : d \in Range(caps)} :
        e \in Range(c.edges) /\ e.kind = "Supersedes" /\ e.to = caps[o].id

LEMMA TargetsAgree ==
    ASSUME NEW caps, IsSeq(caps), UniqueIds(caps), NEW o \in 1 .. Len(caps)
    PROVE  SupersedeTargets(caps)[o] <=> SupersededIn(caps, o)
<1>1. DOMAIN caps = 1 .. Len(caps)
  BY SeqFacts
<1>2. PICK id : id = caps[o].id
  OBVIOUS
<1>3. \A p \in 1 .. Len(caps) : caps[p].id \in DOMAIN ById(caps) /\ ById(caps)[caps[p].id] = p
  BY FoundById
<1>4. \A t : t \in DOMAIN ById(caps) => \E p \in 1 .. Len(caps) : t = caps[p].id
  BY <1>1 DEF ById, Range
<1>5. \A t : (t \in DOMAIN ById(caps) /\ ById(caps)[t] = o) <=> t = id
  <2>1. ASSUME NEW t, t \in DOMAIN ById(caps), ById(caps)[t] = o  PROVE t = id
    <3>1. PICK p \in 1 .. Len(caps) : t = caps[p].id
      BY <1>4, <2>1
    <3>2. p = o
      BY <1>3, <2>1, <3>1
    <3> QED  BY <1>2, <3>1, <3>2
  <2>2. id \in DOMAIN ById(caps) /\ ById(caps)[id] = o
    BY <1>2, <1>3
  <2> QED  BY <2>1, <2>2
<1>6. PICK T : T = UNION {Superseded(c) : c \in Range(caps)}
  OBVIOUS
<1>7. SupersedeTargets(caps)[o] <=> \E t \in T : t \in DOMAIN ById(caps) /\ ById(caps)[t] = o
  BY <1>1, <1>6 DEF SupersedeTargets
<1>8. SupersedeTargets(caps)[o] <=> id \in T
  BY <1>5, <1>7
<1>9. id \in T <=> \E c \in Range(caps) : id \in Superseded(c)
  BY <1>6
<1>10. \A c : id \in Superseded(c)
                 <=> \E e \in Range(c.edges) : e.kind = "Supersedes" /\ e.to = id
  BY DEF Superseded
<1>11. \A c \in Range(caps) : \A e \in Range(c.edges) :
           e \in UNION {Range(d.edges) : d \in Range(caps)}
  OBVIOUS
<1>12. SupersededIn(caps, o) <=> \E c \in Range(caps) : \E e \in Range(c.edges) :
                                     e.kind = "Supersedes" /\ e.to = id
  BY <1>2, <1>11 DEF SupersededIn
<1> QED  BY <1>8, <1>9, <1>10, <1>12

\* Narrow, with its parts named.
FoundUnder(postings, terms) ==
    UNION {Range(postings[t]) : t \in Range(terms) \cap DOMAIN postings}

Looked(index, probe) ==
    FoundUnder(index.entities, probe.entities) \cup FoundUnder(index.anchors, probe.anchors)

Near(index, probe, gated) ==
    FoundUnder(index.semantic_buckets, <<SemanticBucket(probe.bits)>>)
        \cup {o \in gated : Distance(index.fingerprints[o], probe.bits) <= HammingThreshold}

Narrowed(index, probe, gated) ==
    OrAssign(BitsOf(Len(index.fingerprints), Looked(index, probe) \cap gated),
             BitsOf(Len(index.fingerprints), Near(index, probe, gated) \cap gated))

LEMMA NarrowParts ==
    ASSUME NEW index, NEW probe, NEW gated
    PROVE  Narrow(index, probe, gated) =
              IF Ones(Narrowed(index, probe, gated)) = <<>>
              THEN Ones(BitsOf(Len(index.fingerprints), gated \cap gated))
              ELSE Ones(AndAssign(BitsOf(Len(index.fingerprints), gated \cap gated),
                                  Narrowed(index, probe, gated)))
BY Zenon DEF Narrow, Narrowed, Looked, Near, FoundUnder, BitsOf

\* Of the gated, the narrowing leaves what a lookup, the bucket or the distance
\* picks, or all of them.
LEMMA NarrowIs ==
    ASSUME NEW n \in Nat, NEW index, Len(index.fingerprints) = n, NEW probe,
           NEW gated \in SUBSET (1 .. n), NEW picked,
           picked = (Looked(index, probe) \cup Near(index, probe, gated)) \cap gated
    PROVE  Range(Narrow(index, probe, gated)) =
               {o - 1 : o \in IF picked = {} THEN gated ELSE picked}
<1>1. PICK A, B : /\ A = Looked(index, probe) \cap gated
                  /\ B = Near(index, probe, gated) \cap gated
  OBVIOUS
<1>2. /\ A \in SUBSET (1 .. n) /\ B \in SUBSET (1 .. n) /\ picked \in SUBSET (1 .. n)
      /\ picked = A \cup B /\ gated \cap picked = picked
  BY <1>1
<1>3. Narrowed(index, probe, gated) = Holding(n, picked)
  <2>1. BitsOf(n, A) = Holding(n, A)
    BY <1>2, BitsHold
  <2>2. BitsOf(n, B) = Holding(n, B)
    BY <1>2, BitsHold
  <2>3. OrAssign(Holding(n, A), Holding(n, B)) = Holding(n, A \cup B)
    BY <1>2, OrHolds
  <2> QED  BY <1>1, <1>2, <2>1, <2>2, <2>3 DEF Narrowed
<1>4. BitsOf(n, gated \cap gated) = Holding(n, gated)
  <2>1. gated \cap gated = gated
    OBVIOUS
  <2> QED  BY <2>1, BitsHold
<1>5. PICK found : found = Ones(Holding(n, picked))
  OBVIOUS
<1>6. IsSeq(found) /\ Range(found) = {x - 1 : x \in picked}
  BY <1>2, <1>5, OnesOfHolding
<1>7. AndAssign(Holding(n, gated), Holding(n, picked)) = Holding(n, picked)
  BY <1>2, AndHolds
<1>8. Narrow(index, probe, gated) =
          IF found = <<>> THEN Ones(Holding(n, gated)) ELSE found
  <2>1. Narrow(index, probe, gated) =
            IF Ones(Narrowed(index, probe, gated)) = <<>>
            THEN Ones(BitsOf(n, gated \cap gated))
            ELSE Ones(AndAssign(BitsOf(n, gated \cap gated), Narrowed(index, probe, gated)))
    BY NarrowParts, Zenon
  <2>2. Narrow(index, probe, gated) =
            IF Ones(Holding(n, picked)) = <<>> THEN Ones(Holding(n, gated))
            ELSE Ones(AndAssign(Holding(n, gated), Holding(n, picked)))
    BY <1>3, <1>4, <2>1
  <2> QED  BY <1>5, <1>7, <2>2
<1>9. found = <<>> <=> picked = {}
  <2>1. Range(<<>>) = {}
    BY DEF Range
  <2>2. picked # {} => found # <<>>
    BY <1>6, <2>1
  <2>3. ASSUME picked = {}  PROVE found = <<>>
    <3>1. Range(found) = {}
      BY <1>6, <2>3
    <3>2. DOMAIN found = 1 .. Len(found) /\ Len(found) \in Nat
      BY <1>6, SeqFacts
    <3>3. DOMAIN found = {}
      BY <3>1 DEF Range
    <3>4. Len(found) = 0
      BY <3>2, <3>3
    <3>5. found \in Seq(Range(found))
      BY <1>6 DEF IsSeq
    <3> QED  BY <3>4, <3>5
  <2> QED  BY <2>2, <2>3
<1>10. Range(Ones(Holding(n, gated))) = {x - 1 : x \in gated}
  BY OnesOfHolding
<1>11. CASE picked = {}
  BY <1>8, <1>9, <1>10, <1>11
<1>12. CASE picked # {}
  BY <1>6, <1>8, <1>9, <1>12
<1> QED  BY <1>11, <1>12

\* What is found under terms: the ordinals that have one of them.
LEMMA Posted ==
    ASSUME NEW n \in Nat, NEW values, NEW postings,
           \A v : v \in DOMAIN postings <=> \E p \in 1 .. n : v \in values[p],
           \A v \in DOMAIN postings : postings[v] = Ascending({p \in 1 .. n : v \in values[p]}),
           NEW terms, NEW o
    PROVE  o \in FoundUnder(postings, terms)
               <=> o \in 1 .. n /\ \E t \in Range(terms) : t \in values[o]
<1>1. ASSUME NEW t \in DOMAIN postings
      PROVE  o \in Range(postings[t]) <=> o \in 1 .. n /\ t \in values[o]
  <2>1. PICK S : S = {p \in 1 .. n : t \in values[p]}
    OBVIOUS
  <2>2. S \in SUBSET Int /\ S \in SUBSET (1 .. n)
    BY <2>1
  <2>3. IsFiniteSet(S)
    BY <2>2, UpToFinite, FS_Subset
  <2>4. Range(Ascending(S)) = S
    BY <2>2, <2>3, AscendingLists
  <2>5. postings[t] = Ascending(S)
    BY <2>1
  <2> QED  BY <2>1, <2>4, <2>5
<1>2. o \in FoundUnder(postings, terms)
         <=> \E t \in Range(terms) : t \in DOMAIN postings /\ o \in Range(postings[t])
  BY DEF FoundUnder
<1>3. \A t : o \in 1 .. n /\ t \in values[o] => t \in DOMAIN postings
  OBVIOUS
<1> QED  BY <1>1, <1>2, <1>3

\* What a lookup finds, in the words of the memories.
LEMMA LookupIs ==
    ASSUME NEW caps, IsSeq(caps), NEW terms, NEW o
    PROVE  /\ o \in FoundUnder(Index(caps).anchors, terms)
                  <=> o \in 1 .. Len(caps) /\ Range(caps[o].anchors) \cap Range(terms) # {}
           /\ o \in FoundUnder(Index(caps).entities, terms)
                  <=> o \in 1 .. Len(caps) /\ Range(caps[o].entities) \cap Range(terms) # {}
           /\ \A x : o \in FoundUnder(Index(caps).semantic_buckets, <<SemanticBucket(x)>>)
                  <=> o \in 1 .. Len(caps) /\ SemanticBucket(caps[o].bits) = SemanticBucket(x)
<1>1. PICK n \in Nat : n = Len(caps) /\ DOMAIN caps = 1 .. n
  BY SeqFacts
<1>2. PICK anchors, entities, buckets :
          /\ anchors = Index(caps).anchors /\ entities = Index(caps).entities
          /\ buckets = Index(caps).semantic_buckets
  OBVIOUS
<1>3. o \in FoundUnder(anchors, terms)
         <=> o \in 1 .. n /\ Range(caps[o].anchors) \cap Range(terms) # {}
  <2>1. PICK values : values = [p \in 1 .. n |-> Range(caps[p].anchors)]
    OBVIOUS
  <2>2. anchors = [v \in UNION {Range(caps[p].anchors) : p \in 1 .. n} |->
                      Ascending({p \in 1 .. n : v \in Range(caps[p].anchors)})]
    BY <1>1, <1>2 DEF Index, Postings
  <2>3. \A v : v \in DOMAIN anchors <=> \E p \in 1 .. n : v \in values[p]
    BY <2>1, <2>2
  <2>4. \A v \in DOMAIN anchors : anchors[v] = Ascending({p \in 1 .. n : v \in values[p]})
    <3> TAKE v \in DOMAIN anchors
    <3>1. {p \in 1 .. n : v \in Range(caps[p].anchors)} = {p \in 1 .. n : v \in values[p]}
      BY <2>1
    <3> QED  BY <2>2, <3>1
  <2>5. o \in FoundUnder(anchors, terms)
           <=> o \in 1 .. n /\ \E t \in Range(terms) : t \in values[o]
    BY <2>3, <2>4, Posted
  <2> QED  BY <2>1, <2>5
<1>4. o \in FoundUnder(entities, terms)
         <=> o \in 1 .. n /\ Range(caps[o].entities) \cap Range(terms) # {}
  <2>1. PICK values : values = [p \in 1 .. n |-> Range(caps[p].entities)]
    OBVIOUS
  <2>2. entities = [v \in UNION {Range(caps[p].entities) : p \in 1 .. n} |->
                       Ascending({p \in 1 .. n : v \in Range(caps[p].entities)})]
    BY <1>1, <1>2 DEF Index, Postings
  <2>3. \A v : v \in DOMAIN entities <=> \E p \in 1 .. n : v \in values[p]
    BY <2>1, <2>2
  <2>4. \A v \in DOMAIN entities : entities[v] = Ascending({p \in 1 .. n : v \in values[p]})
    <3> TAKE v \in DOMAIN entities
    <3>1. {p \in 1 .. n : v \in Range(caps[p].entities)} = {p \in 1 .. n : v \in values[p]}
      BY <2>1
    <3> QED  BY <2>2, <3>1
  <2>5. o \in FoundUnder(entities, terms)
           <=> o \in 1 .. n /\ \E t \in Range(terms) : t \in values[o]
    BY <2>3, <2>4, Posted
  <2> QED  BY <2>1, <2>5
<1>5. ASSUME NEW x
      PROVE  o \in FoundUnder(buckets, <<SemanticBucket(x)>>)
                <=> o \in 1 .. n /\ SemanticBucket(caps[o].bits) = SemanticBucket(x)
  <2>1. PICK values, wanted : /\ values = [p \in 1 .. n |-> {SemanticBucket(caps[p].bits)}]
                              /\ wanted = <<SemanticBucket(x)>>
    OBVIOUS
  <2>2. buckets = [v \in {SemanticBucket(caps[p].bits) : p \in 1 .. n} |->
                      Ascending({p \in 1 .. n : SemanticBucket(caps[p].bits) = v})]
    BY <1>1, <1>2 DEF Index, Grouped
  <2>3. \A v : v \in DOMAIN buckets <=> \E p \in 1 .. n : v \in values[p]
    BY <2>1, <2>2
  <2>4. \A v \in DOMAIN buckets : buckets[v] = Ascending({p \in 1 .. n : v \in values[p]})
    <3> TAKE v \in DOMAIN buckets
    <3>1. {p \in 1 .. n : SemanticBucket(caps[p].bits) = v} = {p \in 1 .. n : v \in values[p]}
      BY <2>1
    <3> QED  BY <2>2, <3>1
  <2>5. o \in FoundUnder(buckets, wanted)
           <=> o \in 1 .. n /\ \E t \in Range(wanted) : t \in values[o]
    BY <2>3, <2>4, Posted
  <2>6. Range(wanted) = {SemanticBucket(x)}
    BY <2>1 DEF Range
  <2> QED  BY <2>1, <2>5, <2>6
<1> QED  BY <1>1, <1>2, <1>3, <1>4, <1>5

\* What the narrowing leaves of the memories.
LEMMA NarrowMeets ==
    ASSUME NEW caps, IsSeq(caps), NEW gated \in SUBSET (1 .. Len(caps)), NEW probe,
           NEW terms, probe.anchors = terms, probe.entities = terms,
           NEW met, met = {o \in gated : Meets(caps[o], probe)}
    PROVE  Range(Narrow(Index(caps), probe, gated)) =
               {o - 1 : o \in IF met = {} THEN gated ELSE met}
<1>1. PICK n \in Nat : n = Len(caps) /\ DOMAIN caps = 1 .. n
  BY SeqFacts
<1>2. PICK index, fingerprints : index = Index(caps) /\ fingerprints = index.fingerprints
  OBVIOUS
<1>3. fingerprints = [o \in 1 .. n |-> caps[o].bits]
  BY <1>1, <1>2 DEF Index
<1>4. Len(fingerprints) = n
  <2>1. fingerprints = [o \in 1 .. n |-> fingerprints[o]]
    BY <1>3
  <2> QED  BY <2>1, SeqFrom
<1>5. PICK picked : picked = (Looked(index, probe) \cup Near(index, probe, gated)) \cap gated
  OBVIOUS
<1>6. ASSUME NEW o \in gated  PROVE o \in picked <=> Meets(caps[o], probe)
  <2>1. PICK c, x : c = caps[o] /\ x = probe.bits
    OBVIOUS
  <2>2. o \in 1 .. n /\ fingerprints[o] = c.bits
    BY <1>1, <1>3, <2>1
  <2>3. o \in FoundUnder(index.anchors, terms) <=> Range(c.anchors) \cap Range(terms) # {}
    BY <1>1, <1>2, <2>1, <2>2, LookupIs
  <2>4. o \in FoundUnder(index.entities, terms) <=> Range(c.entities) \cap Range(terms) # {}
    BY <1>1, <1>2, <2>1, <2>2, LookupIs
  <2>5. o \in FoundUnder(index.semantic_buckets, <<SemanticBucket(x)>>)
           <=> SemanticBucket(c.bits) = SemanticBucket(x)
    <3>1. o \in FoundUnder(Index(caps).semantic_buckets, <<SemanticBucket(x)>>)
             <=> o \in 1 .. Len(caps) /\ SemanticBucket(caps[o].bits) = SemanticBucket(x)
      BY LookupIs, Zenon
    <3> QED  BY <1>1, <1>2, <2>1, <2>2, <3>1, Zenon
  <2>6. o \in Looked(index, probe)
           <=> \/ Range(c.anchors) \cap Range(terms) # {}
               \/ Range(c.entities) \cap Range(terms) # {}
    BY <2>3, <2>4 DEF Looked
  <2>7. o \in Near(index, probe, gated)
           <=> \/ SemanticBucket(c.bits) = SemanticBucket(x)
               \/ Distance(c.bits, x) <= HammingThreshold
    BY <1>2, <2>1, <2>2, <2>5 DEF Near
  <2> QED  BY <1>5, <2>1, <2>6, <2>7 DEF Meets
<1>7. picked = met
  BY <1>5, <1>6
<1>8. gated \in SUBSET (1 .. n) /\ Len(index.fingerprints) = n
  BY <1>1, <1>2, <1>4
<1>9. Range(Narrow(index, probe, gated)) =
          {o - 1 : o \in IF picked = {} THEN gated ELSE picked}
  BY <1>5, <1>8, NarrowIs
<1> QED  BY <1>2, <1>7, <1>9

\* No feature sets a bit beyond the fingerprint's.
FeaturesFit == \A f \in Seq(Nat) \ {<<>>} : FeatureBits(f) \subseteq Fingerprint

LEMMA MinOfTwo ==
    ASSUME NEW a \in Int, NEW b \in Int
    PROVE  Min({a, b}) \in Int /\ Min({a, b}) <= b
<1>1. \E x \in {a, b} : \A y \in {a, b} : x <= y
  BY DEF Min
<1> QED  BY <1>1 DEF Min

LEMMA BitsFit ==
    ASSUME FeaturesFit, NEW terms \in Seq(Nat)
    PROVE  SemanticBits(terms) \in SUBSET Fingerprint
<1>1. ASSUME NEW f \in SemanticFeatures(terms)  PROVE f \in Seq(Nat) \ {<<>>}
  <2>1. DOMAIN terms = 1 .. Len(terms) /\ Len(terms) \in Nat
    OBVIOUS
  <2>2. PICK i \in 1 .. Len(terms) :
            \E j \in i .. Min({i + 2, Len(terms)}) : f = SubSeq(terms, i, j)
    BY <2>1 DEF SemanticFeatures
  <2>3. PICK j \in i .. Min({i + 2, Len(terms)}) : f = SubSeq(terms, i, j)
    BY <2>2
  <2>4. PICK k \in Int, n \in Int : k = i + 2 /\ n = Len(terms)
    <3>1. i + 2 \in Int /\ Len(terms) \in Int
      BY <2>1
    <3> QED  BY <3>1
  <2>5. Min({k, n}) \in Int /\ Min({k, n}) <= n
    BY MinOfTwo
  <2>6. j \in i .. Len(terms)
    BY <2>1, <2>4, <2>5
  <2>7. f \in Seq(Nat) /\ Len(f) = j - i + 1
    BY <2>1, <2>3, <2>6
  <2>8. Len(f) # 0
    BY <2>6, <2>7
  <2> QED  BY <2>7, <2>8
<1>2. \A f \in SemanticFeatures(terms) : FeatureBits(f) \subseteq Fingerprint
  BY <1>1 DEF FeaturesFit
<1> QED  BY <1>2 DEF SemanticBits

\* What the index needs of the memories.
Indexable(caps) ==
    /\ IsSeq(caps) /\ UniqueIds(caps)
    /\ \A o \in 1 .. Len(caps) : caps[o].bits \in SUBSET Fingerprint

\* The fingerprints' tables.
LEMMA BandsFind ==
    ASSUME NEW caps, Indexable(caps), NEW o \in 1 .. Len(caps), NEW p \in 1 .. Len(caps),
           Distance(caps[o].bits, caps[p].bits) < LshBands
    PROVE  p \in SharingABand(Index(caps).lsh, caps[o].bits)
<1>1. PICK n \in Nat : n = Len(caps)
  BY SeqFacts DEF Indexable
<1>2. DOMAIN caps = 1 .. n
  BY <1>1, SeqFacts DEF Indexable
<1>3. PICK bits, tables : bits = [i \in 1 .. n |-> caps[i].bits] /\ tables = Index(caps).lsh
  OBVIOUS
<1>4. tables = [band \in 0 .. LshBands - 1 |->
                   [k \in {BandKey(caps[i].bits, band) : i \in 1 .. n} |->
                       Ascending({i \in 1 .. n : BandKey(caps[i].bits, band) = k})]]
  BY <1>2, <1>3 DEF Index, Tables, Grouped
<1>5. tables = TablesOf(1 .. n, LshBands, bits)
  <2>1. \A i \in 1 .. n : bits[i] = caps[i].bits
    BY <1>3
  <2> DEFINE K(band) == {BandKey(bits[i], band) : i \in 1 .. n}
             L(band) == {BandKey(caps[i].bits, band) : i \in 1 .. n}
             A(band, k) == Ascending({i \in 1 .. n : BandKey(bits[i], band) = k})
             B(band, k) == Ascending({i \in 1 .. n : BandKey(caps[i].bits, band) = k})
  <2>2. \A band : K(band) = L(band)
    BY <2>1
  <2>3. \A band, k : A(band, k) = B(band, k)
    <3> TAKE band, k
    <3>1. {i \in 1 .. n : BandKey(bits[i], band) = k} = {i \in 1 .. n : BandKey(caps[i].bits, band) = k}
      BY <2>1
    <3> QED  BY <3>1
  <2>4. TablesOf(1 .. n, LshBands, bits) = [band \in 0 .. LshBands - 1 |-> [k \in K(band) |-> A(band, k)]]
    BY DEF TablesOf
  <2>5. tables = [band \in 0 .. LshBands - 1 |-> [k \in L(band) |-> B(band, k)]]
    BY <1>4
  <2> HIDE DEF K, L, A, B
  <2>6. \A band : [k \in K(band) |-> A(band, k)] = [k \in L(band) |-> B(band, k)]
    BY <2>2, <2>3
  <2> QED  BY <2>4, <2>5, <2>6
<1>6. PICK x, y : x = bits[o] /\ y = bits[p]
  OBVIOUS
<1>7. x = caps[o].bits /\ y = caps[p].bits
  BY <1>1, <1>3, <1>6
<1>8. x \in SUBSET Fingerprint /\ y \in SUBSET Fingerprint
  BY <1>7 DEF Indexable
<1>9. PICK band \in 0 .. LshBands - 1 : BandKey(x, band) = BandKey(y, band)
  BY <1>7, <1>8, CommonBand
<1>10. p \in SharingABand(tables, x)
  BY <1>1, <1>5, <1>6, <1>9, InTables
<1> QED  BY <1>3, <1>7, <1>10

LEMMA IndexAgreesHere ==
    ASSUME NEW caps, Indexable(caps),
           NEW segment, segment.caps = caps, segment.index = Index(caps)
    PROVE  IndexAgrees(segment)
<1>0. PICK n \in Nat : n = Len(caps)
  BY SeqFacts DEF Indexable
<1>1. PICK index : n = Len(caps) /\ index = Index(caps)
  BY <1>0
<1>2. DOMAIN caps = 1 .. n /\ IsSeq(caps) /\ UniqueIds(caps)
  BY <1>1, SeqFacts DEF Indexable
<1>3. ASSUME NEW o \in 1 .. n
      PROVE  index.supersede_target[o] <=>
                \E c \in Range(caps), e \in UNION {Range(d.edges) : d \in Range(caps)} :
                    e \in Range(c.edges) /\ e.kind = "Supersedes" /\ e.to = caps[o].id
  <2>1. index.supersede_target = SupersedeTargets(caps)
    BY <1>1 DEF Index
  <2>2. SupersedeTargets(caps)[o] <=> SupersededIn(caps, o)
    BY <1>1, <1>2, TargetsAgree
  <2> QED  BY <2>1, <2>2 DEF SupersededIn
<1>4. ASSUME NEW o \in 1 .. n, NEW p \in 1 .. n,
             Distance(caps[o].bits, caps[p].bits) < LshBands
      PROVE  p \in SharingABand(index.lsh, caps[o].bits)
  BY <1>1, <1>4, BandsFind
<1> DEFINE Probe(p) == BuildProbe(caps[p].claim)
           Met(p, gated) == {o \in gated : Meets(caps[o], Probe(p))}
           Left(p, gated) == {o - 1 : o \in IF Met(p, gated) = {} THEN gated ELSE Met(p, gated)}
<1>5. ASSUME NEW p \in 1 .. n, NEW gated \in SUBSET (1 .. n)
      PROVE  Range(Narrow(index, Probe(p), gated)) = Left(p, gated)
  <2>1. PICK terms, probe, met : /\ terms = ExtractTerms(caps[p].claim)
                                 /\ probe = Probe(p) /\ met = Met(p, gated)
    OBVIOUS
  <2>2. probe.anchors = terms /\ probe.entities = terms
    BY <2>1 DEF BuildProbe
  <2>3. met = {o \in gated : Meets(caps[o], probe)}
    BY <2>1
  <2> HIDE DEF Probe, Met
  <2>4. Range(Narrow(index, probe, gated)) =
            {o - 1 : o \in IF met = {} THEN gated ELSE met}
    <3>1. gated \in SUBSET (1 .. Len(caps)) /\ IsSeq(caps)
      BY <1>1, <1>2
    <3>2. Range(Narrow(Index(caps), probe, gated)) =
              {o - 1 : o \in IF met = {} THEN gated ELSE met}
      BY <2>2, <2>3, <3>1, NarrowMeets
    <3> QED  BY <1>1, <3>2
  <2> QED  BY <2>1, <2>4
<1>6. segment.caps = caps /\ segment.index = index
  BY <1>1
<1>7. DOMAIN segment.caps = 1 .. n
  BY <1>2, <1>6
<1>8. IndexAgrees(segment) <=>
         /\ \A o \in 1 .. n :
                index.supersede_target[o] <=>
                    \E c \in Range(caps), e \in UNION {Range(d.edges) : d \in Range(caps)} :
                        e \in Range(c.edges) /\ e.kind = "Supersedes" /\ e.to = caps[o].id
         /\ \A o, p \in 1 .. n :
                Distance(caps[o].bits, caps[p].bits) < LshBands
                    => p \in SharingABand(index.lsh, caps[o].bits)
         /\ \A p \in 1 .. n, gated \in SUBSET (1 .. n) :
                Range(Narrow(index, Probe(p), gated)) = Left(p, gated)
  BY <1>6, <1>7 DEF IndexAgrees
<1> HIDE DEF Probe, Met, Left
<1> QED  BY <1>3, <1>4, <1>5, <1>8

\* A least number.
LEMMA MinIsIn ==
    ASSUME NEW S \in SUBSET Nat, S # {}
    PROVE  Min(S) \in S
<1> DEFINE R == OpToRel(<, Nat)
<1>1. \E m \in S : \A n \in S : ~(<<n, m>> \in R)
  BY NatLessThanWellFounded, WFMin
<1>2. \A m, n \in Nat : <<n, m>> \in R <=> n < m
  BY DEF OpToRel
<1> HIDE DEF R
<1>3. PICK m \in S : \A n \in S : ~(<<n, m>> \in R)
  BY <1>1
<1>4. ASSUME NEW n \in S  PROVE m <= n
  <2>1. m \in Nat /\ n \in Nat
    OBVIOUS
  <2>2. ~(n < m)
    BY <1>2, <1>3, <2>1
  <2> QED  BY <2>1, <2>2
<1> QED  BY <1>4 DEF Min

\* None is no Some.
NoneIsNoTable == \A dim, tables : None # [dim |-> dim, tables |-> tables]

\* Every embedding of the common dimension is found by itself.
LEMMA DenseFinds ==
    ASSUME NoneIsNoTable, NEW caps, IsSeq(caps), NEW dim,
           \A i \in 1 .. Len(caps) : Len(caps[i].embedding) = dim,
           NEW o \in 1 .. Len(caps), caps[o].embedding # <<>>
    PROVE  o \in DenseCandidates(EmbeddingLsh(caps), caps[o].embedding)
<1>1. PICK n \in Nat : n = Len(caps)
  BY SeqFacts
<1>2. DOMAIN caps = 1 .. n
  BY <1>1, SeqFacts
<1>3. PICK embedded : embedded = {i \in 1 .. n : caps[i].embedding # <<>>}
  OBVIOUS
<1>4. o \in embedded /\ embedded \in SUBSET Nat /\ embedded # {}
  BY <1>1, <1>3
<1>5. PICK m : m = Min(embedded)
  OBVIOUS
<1>6. Len(caps[m].embedding) = dim
  <2>1. m \in embedded
    BY <1>4, <1>5, MinIsIn
  <2> QED  BY <1>1, <1>3, <2>1
<1>7. PICK dom : dom = {i \in embedded : Len(caps[i].embedding) = dim}
  OBVIOUS
<1> DEFINE T == [band \in 0 .. SigBands - 1 |->
                    [k \in {BandKey(Signature(caps[i].embedding), band) : i \in dom} |->
                        Ascending({i \in dom : BandKey(Signature(caps[i].embedding), band) = k})]]
<1>8. EmbeddingLsh(caps) = [dim |-> dim, tables |-> T]
  <2>1. {i \in DOMAIN caps : caps[i].embedding # <<>>} = embedded
    BY <1>2, <1>3
  <2> QED  BY <1>4, <1>5, <1>6, <1>7, <2>1 DEF EmbeddingLsh, Tables, Grouped
<1>9. PICK sigs : sigs = [i \in 1 .. n |-> Signature(caps[i].embedding)]
  OBVIOUS
<1>10. dom \in SUBSET (1 .. n) /\ o \in dom
  BY <1>1, <1>3, <1>4, <1>7
<1>11. T = TablesOf(dom, SigBands, sigs)
  <2>1. \A i \in dom : sigs[i] = Signature(caps[i].embedding)
    BY <1>9, <1>10
  <2> DEFINE K(band) == {BandKey(sigs[i], band) : i \in dom}
             L(band) == {BandKey(Signature(caps[i].embedding), band) : i \in dom}
             A(band, k) == Ascending({i \in dom : BandKey(sigs[i], band) = k})
             B(band, k) == Ascending({i \in dom : BandKey(Signature(caps[i].embedding), band) = k})
  <2>2. \A band : K(band) = L(band)
    BY <2>1
  <2>3. \A band, k : A(band, k) = B(band, k)
    <3> TAKE band, k
    <3>1. {i \in dom : BandKey(sigs[i], band) = k} = {i \in dom : BandKey(Signature(caps[i].embedding), band) = k}
      BY <2>1
    <3> QED  BY <3>1
  <2>4. TablesOf(dom, SigBands, sigs) = [band \in 0 .. SigBands - 1 |-> [k \in K(band) |-> A(band, k)]]
    BY DEF TablesOf
  <2>5. T = [band \in 0 .. SigBands - 1 |-> [k \in L(band) |-> B(band, k)]]
    OBVIOUS
  <2> HIDE DEF K, L, A, B, T
  <2>6. \A band : [k \in K(band) |-> A(band, k)] = [k \in L(band) |-> B(band, k)]
    BY <2>2, <2>3
  <2> QED  BY <2>4, <2>5, <2>6
<1>12. PICK tables : tables = T
  OBVIOUS
<1> HIDE DEF T
<1>13. PICK lsh, x : lsh = EmbeddingLsh(caps) /\ x = Signature(caps[o].embedding)
  OBVIOUS
<1>14. lsh = [dim |-> dim, tables |-> tables]
  BY <1>8, <1>12, <1>13
<1>15. x = sigs[o]
  BY <1>9, <1>10, <1>13
<1>16. PICK band : band = 0
  OBVIOUS
<1>17. band \in 0 .. SigBands - 1
  BY <1>16, SizesAssumption
<1>18. o \in SharingABand(tables, x)
  <2>1. BandKey(x, band) = BandKey(sigs[o], band)
    BY <1>15
  <2> QED  BY <1>10, <1>11, <1>12, <1>17, <2>1, InTables
<1>19. lsh # None /\ lsh.dim = dim /\ lsh.tables = tables
  BY <1>14 DEF NoneIsNoTable
<1> QED  BY <1>1, <1>13, <1>18, <1>19 DEF DenseCandidates

\* The fingerprint of a memory.
LEMMA MemoryFits ==
    ASSUME FeaturesFit, NEW c \in Memories
    PROVE  c.bits \in SUBSET Fingerprint
<1>1. PICK raw \in Raws : c = FromJson(raw)
  BY DEF Memories
<1>2. Readable(raw) /\ raw.claim \in Seq(Nat)
  BY RawType
<1>3. PICK terms : terms = TermsOf(raw)
  OBVIOUS
<1>4. terms \in Seq(Nat)
  <2>1. \A t \in TermLists : t \in Seq(Nat)
    BY TermListType DEF TermLists
  <2>2. TermsOf(raw) \in TermLists
    <3>1. PICK a, b, d : a = raw.claim /\ b = raw.evidence /\ d = AnchorsOf(raw)
      OBVIOUS
    <3>2. a \in Seq(Nat) /\ b \in Seq(Nat)
      BY <3>1, RawType
    <3>3. d \in Seq(Nat)
      BY <2>1, <3>1, TermsType
    <3>4. a \o b \o d \in Seq(Nat)
      BY <3>2, <3>3
    <3> QED  BY <3>1, <3>4, ExtractedTerms DEF TermsOf
  <2> QED  BY <1>3, <2>1, <2>2
<1>5. c.bits = SemanticBits(terms)
  BY <1>1, <1>2, <1>3, Built
<1> QED  BY <1>4, <1>5, BitsFit

\* The index of the store's memories.
LEMMA LiveAgrees ==
    ASSUME FeaturesFit, StoreInv
    PROVE  IndexAgrees(FromCapsules(live, 1))
<1>1. PICK caps, segment : caps = live /\ segment = FromCapsules(caps, 1)
  OBVIOUS
<1>2. caps \in Seq(Memories) /\ UniqueIds(caps)
  BY <1>1 DEF StoreInv
<1>3. IsSeq(caps) /\ \A i \in 1 .. Len(caps) : caps[i] \in Memories
  BY <1>2, TypedIsSeq
<1>4. \A i \in 1 .. Len(caps) : caps[i].bits \in SUBSET Fingerprint
  BY <1>3, MemoryFits
<1>5. Indexable(caps)
  BY <1>2, <1>3, <1>4 DEF Indexable
<1>6. Cardinality(DOMAIN Index(caps).by_id) = Len(caps)
  <2>1. Index(caps).by_id = ById(caps)
    BY DEF Index
  <2> QED  BY <1>2, <1>3, <2>1, IdsTell
<1>7. segment.caps = caps /\ segment.index = Index(caps)
  BY <1>1, <1>6 DEF FromCapsules, Indexed
<1> QED  BY <1>1, <1>5, <1>7, IndexAgreesHere

\* The index of a file that opens.
LEMMA OpenedAgrees ==
    ASSUME FeaturesFit, NoneIsNoTable, NEW caps, Storables(caps), SameDimension(caps),
           UniqueIds(caps),
           \A i \in 1 .. Len(caps) : caps[i].bits \in SUBSET Fingerprint,
           NEW segment, segment.caps = Read(caps), segment.index = Index(Read(caps))
    PROVE  IndexAgrees(segment) /\ DenseAgrees(segment)
<1>0. PICK n \in Nat : n = Len(caps)
  BY SeqFacts DEF Storables
<1>1. PICK read : read = Read(caps) /\ n = Len(caps)
  BY <1>0
<1>2. /\ IsSeq(read) /\ Len(read) = n
      /\ \A o \in 1 .. n : /\ Storable(caps[o])
                           /\ read[o] = Canonical(caps[o])
                           /\ read[o].id = caps[o].id
  BY <1>1, ReadType
<1>3. ASSUME NEW o \in 1 .. n
      PROVE  /\ read[o].bits = caps[o].bits
             /\ read[o].embedding = caps[o].embedding
  <2>1. PICK c, d, x : c = caps[o] /\ d = read[o] /\ x = IF c.until = MaxI64 THEN None ELSE c.until
    OBVIOUS
  <2>2. Storable(c) /\ d = Canonical(c)
    BY <1>2, <2>1
  <2>3. d = Until(c, x)
    BY <2>1, <2>2, CanonicalIsUntil
  <2>4. d.bits = c.bits /\ d.embedding = c.embedding
    BY <2>3 DEF Until
  <2> QED  BY <2>1, <2>4
<1>4. UniqueIds(read)
  BY <1>1, <1>2 DEF UniqueIds
<1>5. Indexable(read)
  BY <1>1, <1>2, <1>3, <1>4 DEF Indexable
<1>6. segment.caps = read /\ segment.index = Index(read)
  BY <1>1
<1>7. IndexAgrees(segment)
  BY <1>5, <1>6, IndexAgreesHere
<1>8. PICK dim : dim = EmbeddingDim(caps)
  OBVIOUS
<1>9. \A i \in 1 .. n : Len(read[i].embedding) = dim
  <2>1. \A i \in 1 .. n : Len(caps[i].embedding) = dim
    BY <1>1, <1>8, DimensionType
  <2> QED  BY <1>3, <2>1
<1>10. DOMAIN read = 1 .. n
  BY <1>2, SeqFacts
<1>11. ASSUME NEW o \in 1 .. n, read[o].embedding # <<>>
       PROVE  o \in DenseCandidates(EmbeddingLsh(read), read[o].embedding)
  BY <1>2, <1>9, <1>11, DenseFinds
<1>12. segment.index.embedding_lsh = EmbeddingLsh(read)
  BY <1>6 DEF Index
<1> QED  BY <1>6, <1>7, <1>10, <1>11, <1>12 DEF DenseAgrees

\* A damaged file does not open.
LEMMA DamagedIsShut ==
    ASSUME FileInv, file # NoFile, damaged
    PROVE  Opened = Malformed
<1>1. PICK s, cells, plain : s = source /\ cells = file /\ plain = Bytes(s)
  OBVIOUS
<1>2. Compiled(s) /\ Spoilt(Whole(s), cells)
  BY <1>1 DEF FileInv
<1>3. CASE ~s.sealed
  <2>1. Whole(s) = plain
    BY <1>1, <1>3 DEF Whole
  <2>2. FromBytes(cells) = Malformed
    BY <1>1, <1>2, <2>1, SpoiltPlainRefused
  <2> QED  BY <1>1, <1>3, <2>2 DEF Opened
<1>4. CASE s.sealed
  <2>1. Whole(s) = Seal(plain, SealKey)
    BY <1>1, <1>4 DEF Whole
  <2>2. OpenSealed(cells, SealKey) = Malformed
    BY <1>2, <2>1, SpoiltSealRefused
  <2> QED  BY <1>1, <1>4, <2>2 DEF Opened
<1> QED  BY <1>3, <1>4

\* The index a segment gets, in memory and from its file, answers as a scan of
\* the capsules would: the supersession flag, the bands two close fingerprints
\* share, what the narrowing leaves, and the dense candidates (index.rs, bitset.rs).
THEOREM IndexIsExact ==
    ASSUME FeaturesFit, NoneIsNoTable, GarbageIsNoSeal
    PROVE  Spec => []IndexExact
<1>1. StoreInv /\ FileInv => IndexExact
  <2> SUFFICES ASSUME StoreInv, FileInv  PROVE IndexExact
    OBVIOUS
  <2>1. IndexAgrees(FromCapsules(live, 1))
    BY LiveAgrees
  <2>2. ASSUME file # NoFile, Opened # Malformed
        PROVE  IndexAgrees(Opened) /\ DenseAgrees(Opened)
    <3>1. PICK s, caps, sorted, bytes, opened, n :
              /\ s = source /\ caps = s.caps /\ sorted = SortedById(caps)
              /\ bytes = Bytes(s) /\ opened = Opened /\ n = Len(caps)
      OBVIOUS
    <3>2. ~damaged
      BY <2>2, DamagedIsShut
    <3>3. Compiled(s) /\ file = Whole(s)
      BY <2>2, <3>1, <3>2 DEF FileInv
    <3>4. opened = FromBytes(bytes)
      BY <3>1, <3>3, WholeOpens DEF Opened
    <3>5. /\ Storables(caps) /\ Storables(sorted) /\ Filed(sorted, s.epoch, bytes)
          /\ SameDimension(sorted)
      BY <3>1, <3>3, CompiledIsFiled
    <3>6. opened = IF Admitted(sorted)
                   THEN [epoch |-> s.epoch, tenant |-> TenantOf(sorted), caps |-> Read(sorted),
                         index |-> Index(Read(sorted))]
                   ELSE Malformed
      BY <3>4, <3>5, FiledOpens
    <3>7. Admitted(sorted)
      BY <2>2, <3>1, <3>6
    <3>8. opened.caps = Read(sorted) /\ opened.index = Index(Read(sorted))
      BY <3>6, <3>7
    <3>9. \A i \in 1 .. Len(sorted) : sorted[i].bits \in SUBSET Fingerprint
      <4>1. caps \in Seq(Memories)
        BY <3>1, <3>3 DEF Compiled
      <4>2. \A i \in 1 .. n : caps[i].bits \in SUBSET Fingerprint
        BY <3>1, <4>1, MemoryFits
      <4>3. Len(sorted) = n /\ \E order : Reorders(caps, sorted, order)
        BY <3>1, <3>5, SortedStorables
      <4>4. PICK order : Reorders(caps, sorted, order)
        BY <4>3
      <4>5. \A i \in 1 .. n : order[i] \in 1 .. n /\ sorted[i] = caps[order[i]]
        BY <3>1, <4>4 DEF Reorders
      <4> QED  BY <4>2, <4>3, <4>5
    <3>10. UniqueIds(sorted)
      BY <3>7 DEF Admitted
    <3>11. IndexAgrees(opened) /\ DenseAgrees(opened)
      BY <3>5, <3>8, <3>9, <3>10, OpenedAgrees
    <3> QED  BY <3>1, <3>11
  <2> QED  BY <2>1, <2>2 DEF IndexExact
<1> QED  BY <1>1, StoreInvInductive, FileInvInductive, PTL DEF Spec

=============================================================================
