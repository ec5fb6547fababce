----------------------------- MODULE SequenceLemmas -----------------------------
(***************************************************************************)
(* What FlattenSeq gives, for sequences of any length.  It is defined by a *)
(* recursive function, so there is a lemma that this function exists and   *)
(* one that it is unique, by induction; the other modules use the lemmas   *)
(* on appended pieces, on the first piece and on pieces of equal length.   *)
(***************************************************************************)
EXTENDS Integers, SequencesExt, SequenceTheorems, FiniteSetTheorems, TLAPS

(***************************************************************************)
(* Induction on numbers, for a set of them.                                *)
(***************************************************************************)
UpTo(n) == 0 .. n

\* A set of numbers has a least element: strict inclusion of finite sets is well-founded.
LEMMA Least ==
  ASSUME NEW T \in SUBSET Nat, T # {}
  PROVE  \E n \in T : \A m \in T : n <= m
<1> DEFINE U == {UpTo(n) : n \in T}
<1>1. IsWellFoundedOn(StrictSubsetOrdering(Nat), FiniteSubsetsOf(Nat))
  BY FS_StrictSubsetOrderingWellFounded
<1>2. U \subseteq FiniteSubsetsOf(Nat) /\ U # {}
  <2>1. \A n \in T : UpTo(n) \subseteq Nat /\ IsFiniteSet(UpTo(n))
    BY FS_Interval DEF UpTo
  <2>2. QED
    BY <2>1 DEF FiniteSubsetsOf
<1>3. PICK u \in U : \A v \in U : ~ (<<v, u>> \in StrictSubsetOrdering(Nat))
  <2> HIDE DEF U
  <2>1. QED
    BY <1>1, <1>2, WFMin
<1>4. PICK n \in T : u = UpTo(n)
  OBVIOUS
<1>5. ASSUME NEW m \in T, m < n PROVE FALSE
  <2>1. /\ UpTo(m) \in U /\ UpTo(m) \subseteq UpTo(n) /\ UpTo(n) \subseteq Nat
        /\ n \in UpTo(n) /\ n \notin UpTo(m)
    BY <1>5 DEF UpTo
  <2>2. <<UpTo(m), UpTo(n)>> \in StrictSubsetOrdering(Nat)
    BY <2>1 DEF StrictSubsetOrdering
  <2>3. QED
    BY <1>3, <1>4, <2>1, <2>2
<1>6. QED
  BY <1>5

\* A set that has 0 and with every number the next one has all of them.
LEMMA Induction ==
  ASSUME NEW T, 0 \in T, \A n \in Nat : n \in T => n + 1 \in T
  PROVE  \A n \in Nat : n \in T
<1> SUFFICES ASSUME NEW x \in Nat, x \notin T PROVE FALSE
  OBVIOUS
<1>1. PICK n \in Nat \ T : \A m \in Nat \ T : n <= m
  BY Least
<1>2. n - 1 \in Nat /\ n - 1 \in T
  BY <1>1
<1>3. QED
  BY <1>1, <1>2
------------------------------------------------------------------------------
(***************************************************************************)
(* The function inside FlattenSeq.                                         *)
(***************************************************************************)
IsFlattening(f, s, n) == f = [i \in 1 .. n |-> IF i = 1 THEN s[i] ELSE f[i - 1] \o s[i]]

\* It exists for every number of pieces.
LEMMA FlatteningExists ==
  ASSUME NEW s
  PROVE  \A n \in Nat : \E f : IsFlattening(f, s, n)
<1> DEFINE T == {n \in Nat : \E f : IsFlattening(f, s, n)}
<1>1. 0 \in T
  <2>1. IsFlattening([i \in 1 .. 0 |-> 0], s, 0)
    BY DEF IsFlattening
  <2>2. QED
    BY <2>1
<1>2. ASSUME NEW n \in Nat, n \in T PROVE n + 1 \in T
  <2>1. PICK f : IsFlattening(f, s, n)
    BY <1>2
  <2> DEFINE g == [i \in 1 .. n + 1 |->
                     IF i = n + 1 THEN IF i = 1 THEN s[i] ELSE f[n] \o s[i] ELSE f[i]]
  <2>2. ASSUME NEW i \in 1 .. n + 1
        PROVE  g[i] = IF i = 1 THEN s[i] ELSE g[i - 1] \o s[i]
    <3>1. CASE i = n + 1
      <4>1. i # 1 => i - 1 \in 1 .. n + 1 /\ i - 1 # n + 1 /\ i - 1 = n
        BY <3>1
      <4>2. QED
        BY <3>1, <4>1
    <3>2. CASE i # n + 1
      <4>1. i \in 1 .. n /\ (i # 1 => i - 1 \in 1 .. n + 1 /\ i - 1 # n + 1)
        BY <3>2
      <4>2. f[i] = IF i = 1 THEN s[i] ELSE f[i - 1] \o s[i]
        BY <2>1, <4>1 DEF IsFlattening
      <4>3. QED
        BY <3>2, <4>1, <4>2
    <3>3. QED
      BY <3>1, <3>2
  <2>3. IsFlattening(g, s, n + 1)
    <3>1. g = [i \in 1 .. n + 1 |-> g[i]]
      OBVIOUS
    <3> HIDE DEF g
    <3>2. QED
      BY <2>2, <3>1 DEF IsFlattening
  <2>4. QED
    BY <2>3
<1>3. \A n \in Nat : n \in T
  <2> HIDE DEF T
  <2>1. QED
    BY <1>1, <1>2, Induction
<1>4. QED
  BY <1>3

\* There is one.
LEMMA FlatteningUnique ==
  ASSUME NEW s, NEW n \in Nat, NEW f, NEW g, IsFlattening(f, s, n), IsFlattening(g, s, n)
  PROVE  \A i \in 1 .. n : f[i] = g[i]
<1> DEFINE T == {i \in Nat : i \in 1 .. n => f[i] = g[i]}
<1>1. 0 \in T
  OBVIOUS
<1>2. ASSUME NEW i \in Nat, i \in T PROVE i + 1 \in T
  <2> SUFFICES ASSUME i + 1 \in 1 .. n PROVE f[i + 1] = g[i + 1]
    OBVIOUS
  <2>1. (i + 1) - 1 = i /\ (i + 1 # 1 => f[i] = g[i])
    BY <1>2
  <2>2. /\ f[i + 1] = IF i + 1 = 1 THEN s[i + 1] ELSE f[(i + 1) - 1] \o s[i + 1]
        /\ g[i + 1] = IF i + 1 = 1 THEN s[i + 1] ELSE g[(i + 1) - 1] \o s[i + 1]
    BY DEF IsFlattening
  <2>3. QED
    BY <2>1, <2>2
<1>3. \A i \in Nat : i \in T
  <2> HIDE DEF T
  <2>1. QED
    BY <1>1, <1>2, Induction
<1>4. QED
  BY <1>3

\* FlattenSeq is its last value.
LEMMA FlattenIs ==
  ASSUME NEW s, NEW n \in Nat \ {0}, Len(s) = n, NEW f, IsFlattening(f, s, n)
  PROVE  FlattenSeq(s) = f[n]
<1> DEFINE h == CHOOSE h : IsFlattening(h, s, n)
<1>1. FlattenSeq(s) = h[n]
  BY DEF FlattenSeq, IsFlattening
<1>2. IsFlattening(h, s, n)
  OBVIOUS
<1> HIDE DEF h
<1>3. \A i \in 1 .. n : h[i] = f[i]
  BY <1>2, FlatteningUnique
<1>4. QED
  BY <1>1, <1>3
------------------------------------------------------------------------------
(***************************************************************************)
(* FlattenSeq.                                                             *)
(***************************************************************************)
\* Without pieces.
LEMMA FlattenEmpty ==
  ASSUME NEW s, Len(s) = 0
  PROVE  FlattenSeq(s) = s
  BY DEF FlattenSeq

\* The values of the pieces.
LEMMA FlattenType ==
  ASSUME NEW S, NEW s \in Seq(Seq(S))
  PROVE  FlattenSeq(s) \in Seq(S)
<1> DEFINE n == Len(s)
<1>1. n \in Nat /\ \A i \in 1 .. n : s[i] \in Seq(S)
  OBVIOUS
<1>2. CASE n = 0
  <2>1. s = <<>> /\ <<>> \in Seq(S)
    BY <1>2, EmptySeq
  <2>2. FlattenSeq(s) = s
    BY <1>2, FlattenEmpty
  <2>3. QED
    BY <2>1, <2>2
<1>3. CASE n # 0
  <2>1. PICK f : IsFlattening(f, s, n)
    BY <1>1, FlatteningExists
  <2> DEFINE T == {i \in Nat : i \in 1 .. n => f[i] \in Seq(S)}
  <2>2. 0 \in T
    OBVIOUS
  <2>3. ASSUME NEW i \in Nat, i \in T PROVE i + 1 \in T
    <3> SUFFICES ASSUME i + 1 \in 1 .. n PROVE f[i + 1] \in Seq(S)
      OBVIOUS
    <3>1. (i + 1) - 1 = i /\ s[i + 1] \in Seq(S)
      BY <1>1
    <3>2. f[i + 1] = IF i + 1 = 1 THEN s[i + 1] ELSE f[(i + 1) - 1] \o s[i + 1]
      BY <2>1 DEF IsFlattening
    <3>3. i + 1 # 1 => f[i] \in Seq(S)
      BY <1>1, <2>3
    <3>4. QED
      BY <3>1, <3>2, <3>3
  <2>4. \A i \in Nat : i \in T
    <3> HIDE DEF T
    <3>1. QED
      BY <2>2, <2>3, Induction
  <2>5. FlattenSeq(s) = f[n]
    BY <1>1, <1>3, <2>1, FlattenIs
  <2>6. QED
    BY <1>1, <1>3, <2>4, <2>5
<1>4. QED
  BY <1>2, <1>3

\* One more piece behind the others.
LEMMA FlattenAppend ==
  ASSUME NEW S, NEW s \in Seq(Seq(S)), NEW x \in Seq(S)
  PROVE  FlattenSeq(Append(s, x)) = FlattenSeq(s) \o x
<1> DEFINE n == Len(s)
           a == Append(s, x)
<1>1. /\ n \in Nat /\ Len(a) = n + 1 /\ a[n + 1] = x
      /\ \A i \in 1 .. n : a[i] = s[i]
  OBVIOUS
<1>2. PICK f : IsFlattening(f, a, n + 1)
  <2>1. \A m \in Nat : \E f : IsFlattening(f, a, m)
    BY FlatteningExists
  <2>2. n + 1 \in Nat
    BY <1>1
  <2>3. QED
    BY <2>1, <2>2
<1>3. FlattenSeq(a) = f[n + 1]
  <2> HIDE DEF a
  <2>1. n + 1 \in Nat \ {0}
    BY <1>1
  <2>2. QED
    BY <1>1, <1>2, <2>1, FlattenIs
<1>4. CASE n = 0
  <2>1. f[1] = a[1]
    BY <1>1, <1>2, <1>4 DEF IsFlattening
  <2>2. FlattenSeq(s) = <<>>
    BY <1>4, EmptySeq, FlattenEmpty
  <2>3. <<>> \o x = x
    BY ConcatEmptySeq
  <2>4. QED
    BY <1>1, <1>3, <1>4, <2>1, <2>2, <2>3
<1>5. CASE n # 0
  <2> DEFINE g == [i \in 1 .. n |-> f[i]]
  <2>1. ASSUME NEW i \in 1 .. n
        PROVE  g[i] = IF i = 1 THEN s[i] ELSE g[i - 1] \o s[i]
    <3>1. i \in 1 .. n + 1 /\ (i # 1 => i - 1 \in 1 .. n) /\ a[i] = s[i]
      BY <1>1
    <3>2. f[i] = IF i = 1 THEN a[i] ELSE f[i - 1] \o a[i]
      BY <1>2, <3>1 DEF IsFlattening
    <3>3. QED
      BY <3>1, <3>2
  <2>2. IsFlattening(g, s, n)
    <3>1. g = [i \in 1 .. n |-> g[i]]
      OBVIOUS
    <3> HIDE DEF g
    <3>2. QED
      BY <2>1, <3>1 DEF IsFlattening
  <2>3. FlattenSeq(s) = f[n]
    <3>1. FlattenSeq(s) = g[n]
      <4> HIDE DEF g
      <4>1. QED
        BY <1>1, <1>5, <2>2, FlattenIs
    <3>2. n \in 1 .. n
      BY <1>1, <1>5
    <3>3. QED
      BY <3>1, <3>2
  <2>4. f[n + 1] = f[n] \o a[n + 1]
    <3> HIDE DEF a
    <3>1. n + 1 \in 1 .. n + 1 /\ n + 1 # 1 /\ (n + 1) - 1 = n
      BY <1>1, <1>5
    <3>2. QED
      BY <1>2, <3>1 DEF IsFlattening
  <2>5. QED
    <3> HIDE DEF n, a
    <3>1. FlattenSeq(a) = FlattenSeq(s) \o x
      BY <1>1, <1>3, <2>3, <2>4
    <3>2. QED
      BY <3>1 DEF a
<1>6. QED
  BY <1>4, <1>5

\* The last piece taken away.
LEMMA LastPiece ==
  ASSUME NEW S, NEW s \in Seq(S), Len(s) # 0
  PROVE  \E t \in Seq(S), x \in S :
           /\ s = Append(t, x) /\ Len(s) = Len(t) + 1
           /\ (\A i \in 1 .. Len(t) : s[i] = t[i]) /\ s[Len(t) + 1] = x
<1>1. s # <<>>
  BY EmptySeq
<1>2. PICK t \in Seq(S), x \in S : s = Append(t, x)
  BY <1>1, SequenceEmptyOrAppend
<1>3. QED
  BY <1>2, AppendProperties

Grouping(S) == \A a, b, c \in Seq(S) : (a \o b) \o c = a \o (b \o c)

\* Three sequences are concatenated in either grouping.
LEMMA Associative == \A S : Grouping(S)
  BY ConcatAssociative DEF Grouping

\* If the first piece goes first, it does so with one more piece behind the others.
LEMMA FlattenHeadAppend ==
  ASSUME NEW S, NEW s \in Seq(Seq(S)), s # <<>>, NEW x \in Seq(S),
         FlattenSeq(s) = Head(s) \o FlattenSeq(Tail(s))
  PROVE  FlattenSeq(Append(s, x)) = Head(s) \o FlattenSeq(Append(Tail(s), x))
<1>1. Grouping(S)
  BY Associative
<1>2. Head(s) \in Seq(S) /\ Tail(s) \in Seq(Seq(S))
  OBVIOUS
<1>3. FlattenSeq(Tail(s)) \in Seq(S)
  BY <1>2, FlattenType
<1>4. (Head(s) \o FlattenSeq(Tail(s))) \o x = Head(s) \o (FlattenSeq(Tail(s)) \o x)
  BY <1>1, <1>2, <1>3 DEF Grouping
<1>5. /\ FlattenSeq(Append(s, x)) = FlattenSeq(s) \o x
      /\ FlattenSeq(Append(Tail(s), x)) = FlattenSeq(Tail(s)) \o x
  BY <1>2, FlattenAppend
<1>6. QED
  BY <1>4, <1>5

\* The first piece goes first.
LEMMA FlattenHead ==
  ASSUME NEW S, NEW list \in Seq(Seq(S)), list # <<>>
  PROVE  FlattenSeq(list) = Head(list) \o FlattenSeq(Tail(list))
<1> DEFINE P(l) == l # <<>> => FlattenSeq(l) = Head(l) \o FlattenSeq(Tail(l))
           T == {n \in Nat : \A l \in Seq(Seq(S)) : Len(l) = n => P(l)}
<1>1. 0 \in T
  <2>1. \A l \in Seq(Seq(S)) : Len(l) = 0 => P(l)
    BY EmptySeq
  <2>2. QED
    BY <2>1
<1>2. ASSUME NEW n \in Nat, n \in T PROVE n + 1 \in T
  <2> SUFFICES ASSUME NEW l \in Seq(Seq(S)), Len(l) = n + 1
               PROVE  FlattenSeq(l) = Head(l) \o FlattenSeq(Tail(l))
    OBVIOUS
  <2>1. PICK front \in Seq(Seq(S)), last \in Seq(S) : l = Append(front, last) /\ Len(l) = Len(front) + 1
    <3>1. Len(l) # 0
      OBVIOUS
    <3>2. QED
      BY <3>1, LastPiece
  <2>2. Len(front) = n
    <3>1. Len(front) \in Nat
      OBVIOUS
    <3>2. QED
      BY <2>1, <3>1
  <2>3. FlattenSeq(l) = FlattenSeq(front) \o last
    BY <2>1, FlattenAppend
  <2>4. CASE front = <<>>
    <3>1. Len(front) = 0 /\ n = 0
      BY <2>2, <2>4
    <3>2. Head(l) = last /\ Tail(l) = <<>>
      BY <2>1, <2>4, HeadTailAppend
    <3>3. FlattenSeq(front) = <<>> /\ FlattenSeq(Tail(l)) = <<>>
      BY <2>4, <3>1, <3>2, FlattenEmpty
    <3>4. <<>> \o last = last /\ last \o <<>> = last
      BY ConcatEmptySeq
    <3>5. QED
      BY <2>3, <3>2, <3>3, <3>4
  <2>5. CASE front # <<>>
    <3>1. FlattenSeq(front) = Head(front) \o FlattenSeq(Tail(front))
      BY <1>2, <2>2, <2>5
    <3>2. Head(front) \in Seq(S) /\ Tail(front) \in Seq(Seq(S))
      BY <2>5
    <3>3. Head(l) = Head(front) /\ Tail(l) = Append(Tail(front), last)
      BY <2>1, <2>5, HeadTailAppend
    <3>4. FlattenSeq(Append(front, last)) = Head(front) \o FlattenSeq(Append(Tail(front), last))
      BY <2>5, <3>1, FlattenHeadAppend
    <3>5. QED
      BY <2>1, <3>3, <3>4
  <2>6. QED
    BY <2>4, <2>5
<1>3. \A n \in Nat : n \in T
  <2> HIDE DEF T
  <2>1. QED
    BY <1>1, <1>2, Induction
<1>4. QED
  BY <1>3

\* f holds the values of the blocks of s, each of w values.
Blocks(s, w) == \A b \in 1 .. Len(s) : Len(s[b]) = w
InBlocks(f, s, w) ==
  /\ Len(f) = Len(s) * w
  /\ \A b \in 1 .. Len(s), r \in 1 .. w : f[((b - 1) * w) + r] = s[b][r]

\* Pieces of one length: where their values come to stand.
LEMMA FlattenBlocks ==
  ASSUME NEW S, NEW w \in Nat, NEW s \in Seq(Seq(S)), Blocks(s, w)
  PROVE  InBlocks(FlattenSeq(s), s, w)
<1> DEFINE P(l) == /\ Len(FlattenSeq(l)) = Len(l) * w
                   /\ \A b \in 1 .. Len(l), r \in 1 .. w : FlattenSeq(l)[((b - 1) * w) + r] = l[b][r]
           T == {n \in Nat : \A l \in Seq(Seq(S)) :
                   Len(l) = n /\ (\A b \in 1 .. n : Len(l[b]) = w) => P(l)}
<1>1. 0 \in T
  <2>1. ASSUME NEW l \in Seq(Seq(S)), Len(l) = 0 PROVE P(l)
    <3>1. FlattenSeq(l) = l /\ 0 * w = 0
      BY <2>1, FlattenEmpty
    <3>2. QED
      BY <2>1, <3>1
  <2>2. QED
    BY <2>1
<1>2. ASSUME NEW n \in Nat, n \in T PROVE n + 1 \in T
  <2> SUFFICES ASSUME NEW l \in Seq(Seq(S)), Len(l) = n + 1, \A b \in 1 .. n + 1 : Len(l[b]) = w
               PROVE  P(l)
    OBVIOUS
  <2>1. PICK front \in Seq(Seq(S)), last \in Seq(S) :
              /\ l = Append(front, last) /\ Len(l) = Len(front) + 1
              /\ (\A i \in 1 .. Len(front) : l[i] = front[i]) /\ l[Len(front) + 1] = last
    <3>1. Len(l) # 0
      OBVIOUS
    <3>2. QED
      BY <3>1, LastPiece
  <2>2. Len(front) = n /\ (\A b \in 1 .. n : front[b] = l[b]) /\ l[n + 1] = last
    <3>1. Len(front) \in Nat
      OBVIOUS
    <3>2. QED
      BY <2>1, <3>1
  <2>3. Len(last) = w /\ \A b \in 1 .. n : Len(front[b]) = w
    BY <2>2
  <2>4. P(front)
    BY <1>2, <2>2, <2>3
  <2>5. FlattenSeq(l) = FlattenSeq(front) \o last /\ FlattenSeq(front) \in Seq(S)
    BY <2>1, FlattenAppend, FlattenType
  <2> DEFINE ft == FlattenSeq(front)
  <2>6. ft \in Seq(S) /\ Len(ft) = n * w /\ FlattenSeq(l) = ft \o last
    BY <2>2, <2>4, <2>5
  <2>7. n * w \in Nat /\ (n + 1) * w = (n * w) + w
    OBVIOUS
  <2>8. Len(FlattenSeq(l)) = Len(l) * w
    <3> HIDE DEF ft
    <3>1. Len(ft \o last) = Len(ft) + Len(last)
      BY <2>6, ConcatProperties
    <3>2. QED
      BY <2>3, <2>6, <2>7, <3>1
  <2>9. ASSUME NEW b \in 1 .. n + 1, NEW r \in 1 .. w
        PROVE  FlattenSeq(l)[((b - 1) * w) + r] = l[b][r]
    <3>1. CASE b = n + 1
      <4>1. (b - 1) * w = n * w
        BY <3>1
      <4> HIDE DEF ft
      <4>2. (ft \o last)[(n * w) + r] = last[r]
        BY <2>3, <2>6, <2>7
      <4>3. QED
        BY <2>2, <2>6, <3>1, <4>1, <4>2
    <3>2. CASE b # n + 1
      <4>1. b \in 1 .. n /\ b - 1 \in Nat /\ b - 1 < n
        BY <3>2
      <4>2. (b - 1) * w \in Nat /\ ((b - 1) * w) + w <= n * w
        <5> DEFINE c == b - 1
        <5>1. c \in Nat /\ c + 1 <= n
          BY <4>1
        <5> HIDE DEF c
        <5>2. c * w \in Nat /\ (c * w) + w = (c + 1) * w /\ (c + 1) * w <= n * w
          BY <5>1
        <5>3. QED
          BY <5>2 DEF c
      <4>3. ((b - 1) * w) + r \in 1 .. n * w
        <5> DEFINE y == (b - 1) * w
                   z == n * w
        <5>1. y \in Nat /\ z \in Nat /\ y + w <= z
          BY <2>7, <4>2
        <5> HIDE DEF y, z
        <5>2. y + r \in 1 .. z
          BY <5>1
        <5>3. QED
          BY <5>2 DEF y, z
      <4>4. ft[((b - 1) * w) + r] = front[b][r]
        BY <2>2, <2>4, <4>1
      <4> HIDE DEF ft
      <4>5. (ft \o last)[((b - 1) * w) + r] = ft[((b - 1) * w) + r]
        BY <2>6, <4>3
      <4>6. QED
        BY <2>2, <2>6, <4>1, <4>4, <4>5
    <3>3. QED
      BY <3>1, <3>2
  <2>10. QED
    BY <2>8, <2>9
<1>3. \A n \in Nat : n \in T
  <2> HIDE DEF T
  <2>1. QED
    BY <1>1, <1>2, Induction
<1>4. P(s)
  <2>1. Len(s) \in Nat
    OBVIOUS
  <2>2. QED
    BY <1>3, <2>1 DEF Blocks
<1>5. QED
  BY <1>4 DEF InBlocks
==============================================================================
