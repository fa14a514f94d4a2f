--------------------------- MODULE SequenceLemmas ---------------------------
(***************************************************************************)
(* What selecting, flattening, ordering and folding sequences gives.       *)
(*                                                                         *)
(* FoldStep and FoldBase are the step and the start of a fold from the     *)
(* left: a module that folds takes an instance of this one with its own.   *)
(***************************************************************************)
EXTENDS Capture, FiniteSetTheorems, SequenceTheorems, WellFoundedInduction, TLAPS

CONSTANTS FoldStep(_, _), FoldBase

-----------------------------------------------------------------------------
(* Selecting the elements of a sequence.                                   *)

\* Every k up to Cardinality(I) is the rank of exactly one position in I.
LEMMA Ranking ==
  ASSUME NEW n \in Nat, NEW I \in SUBSET (1..n)
  PROVE  /\ Cardinality(I) \in Nat
         /\ \A k \in 1..Cardinality(I) : \E i \in I : RankIn(i, I) = k
         /\ \A i \in I : RankIn(i, I) \in 1..Cardinality(I)
         /\ \A i, j \in I : RankIn(i, I) = RankIn(j, I) => i = j
<1> DEFINE Upto(i) == {j \in I : j <= i}
           r == [i \in I |-> RankIn(i, I)]
           T == 1..Cardinality(I)
<1>1. IsFiniteSet(I) /\ Cardinality(I) \in Nat
  <2>1. IsFiniteSet(1..n)
    BY FS_Interval
  <2> QED BY <2>1, FS_Subset, FS_CardinalityType
<1>2. ASSUME NEW i \in I
      PROVE  IsFiniteSet(Upto(i)) /\ Cardinality(Upto(i)) \in T
  <2>1. Upto(i) \in SUBSET I /\ i \in Upto(i)
    OBVIOUS
  <2>2. IsFiniteSet(Upto(i)) /\ Cardinality(Upto(i)) <= Cardinality(I)
    BY <1>1, <2>1, FS_Subset
  <2>3. Cardinality(Upto(i)) \in Nat /\ Cardinality(Upto(i)) # 0
    BY <2>1, <2>2, FS_CardinalityType, FS_EmptySet
  <2> QED BY <1>1, <2>2, <2>3
<1>3. ASSUME NEW i \in I, NEW j \in I, i < j
      PROVE  Cardinality(Upto(i)) # Cardinality(Upto(j))
  <2>1. j \in Upto(j) /\ j \notin Upto(i) /\ \A x \in I : x <= i => x <= j
    BY <1>3
  <2>2. Upto(i) \in SUBSET Upto(j) /\ Upto(i) # Upto(j)
    <3>1. Upto(i) \in SUBSET Upto(j)
      BY <2>1
    <3> HIDE DEF Upto
    <3> QED BY <2>1, <3>1
  <2> QED BY <1>2, <2>2, FS_Subset
<1>4. \A i, j \in I : RankIn(i, I) = RankIn(j, I) => i = j
  <2> SUFFICES ASSUME NEW i \in I, NEW j \in I, RankIn(i, I) = RankIn(j, I), i # j
               PROVE  FALSE
    OBVIOUS
  <2>1. i < j \/ j < i
    OBVIOUS
  <2> QED BY <1>3, <2>1 DEF RankIn
<1>5. r \in Injection(I, T)
  BY <1>2, <1>4 DEF RankIn, Injection, IsInjective
<1>6. IsFiniteSet(T) /\ Cardinality(T) = Cardinality(I)
  BY <1>1, FS_Interval
<1>7. r \in Surjection(I, T)
  BY <1>5, <1>6, FS_Injection
<1> QED BY <1>1, <1>2, <1>4, <1>7 DEF RankIn, Surjection

\* Pick returns the elements at the chosen positions and no other.
LEMMA PickElements ==
  ASSUME NEW n \in Nat, NEW I \in SUBSET (1..n), NEW s
  PROVE  /\ Pick(s, I) \in Seq({s[i] : i \in I})
         /\ ToSet(Pick(s, I)) = {s[i] : i \in I}
<1> DEFINE pos(k) == CHOOSE i \in I : RankIn(i, I) = k
<1>1. Cardinality(I) \in Nat
  BY Ranking
<1>2. \A k \in 1..Cardinality(I) : pos(k) \in I
  BY Ranking
<1>3. \A i \in I : RankIn(i, I) \in 1..Cardinality(I) /\ pos(RankIn(i, I)) = i
  BY Ranking
<1>4. Pick(s, I) = [k \in 1..Cardinality(I) |-> s[pos(k)]]
  BY DEF Pick
<1> HIDE DEF pos
<1>5. Pick(s, I) \in [1..Cardinality(I) -> {s[i] : i \in I}]
  BY <1>2, <1>4
<1>6. ToSet(Pick(s, I)) = {s[pos(k)] : k \in 1..Cardinality(I)}
  BY <1>4 DEF ToSet
<1>7. {s[pos(k)] : k \in 1..Cardinality(I)} = {s[i] : i \in I}
  BY <1>2, <1>3
<1>8. Pick(s, I) \in Seq({s[i] : i \in I})
  <2> DEFINE A == {s[i] : i \in I}
             p == Pick(s, I)
  <2>1. p \in [1..Cardinality(I) -> A]
    BY <1>5
  <2> HIDE DEF A, p
  <2>2. p \in Seq(A)
    BY <1>1, <2>1, SeqDef
  <2> QED BY <2>2 DEF A, p
<1> QED BY <1>6, <1>7, <1>8

LEMMA PickOfNothing ==
  ASSUME NEW s
  PROVE  Pick(s, {}) = <<>>
<1>1. Cardinality({}) = 0
  BY FS_EmptySet
<1> QED BY <1>1 DEF Pick

\* What is appended does not change a selection of what was there.
LEMMA PickOfPrefix ==
  ASSUME NEW s, s \in Seq(ToSet(s)), NEW t, t \in Seq(ToSet(t)), NEW I \in SUBSET (DOMAIN s)
  PROVE  Pick(s \o t, I) = Pick(s, I)
<1> DEFINE pos(k) == CHOOSE i \in I : RankIn(i, I) = k
           S == ToSet(s) \cup ToSet(t)
<1>1. DOMAIN s = 1..Len(s) /\ Len(s) \in Nat /\ Len(t) \in Nat
  BY LenProperties
<1>2. \A k \in 1..Cardinality(I) : pos(k) \in I
  BY <1>1, Ranking
<1>3. \A i \in I : (s \o t)[i] = s[i]
  <2>1. s \in Seq(S) /\ t \in Seq(S)
    BY SeqMonotonic
  <2> HIDE DEF S
  <2> QED BY <1>1, <2>1, ConcatProperties
<1>4. /\ Pick(s \o t, I) = [k \in 1..Cardinality(I) |-> (s \o t)[pos(k)]]
      /\ Pick(s, I) = [k \in 1..Cardinality(I) |-> s[pos(k)]]
  BY DEF Pick
<1> HIDE DEF pos
<1> QED BY <1>2, <1>3, <1>4

\* Selecting exactly what was appended.
LEMMA PickOfSuffix ==
  ASSUME NEW s, s \in Seq(ToSet(s)), NEW t, t \in Seq(ToSet(t))
  PROVE  Pick(s \o t, (Len(s) + 1)..(Len(s) + Len(t))) = t
<1> DEFINE n == Len(s)
           I == (n + 1)..(n + Len(t))
           pos(k) == CHOOSE i \in I : RankIn(i, I) = k
           S == ToSet(s) \cup ToSet(t)
<1>1. n \in Nat /\ Len(t) \in Nat /\ DOMAIN t = 1..Len(t) /\ t \in [1..Len(t) -> ToSet(t)]
  BY LenProperties
<1>2. Cardinality(I) = Len(t)
  <2>1. n + 1 \in Int /\ n + Len(t) \in Int
    BY <1>1
  <2>2. Cardinality(I) = IF n + 1 > n + Len(t) THEN 0 ELSE n + Len(t) - (n + 1) + 1
    <3> DEFINE a == n + 1
               b == n + Len(t)
    <3>1. a \in Int /\ b \in Int
      BY <2>1
    <3> HIDE DEF a, b
    <3>2. Cardinality(a..b) = IF a > b THEN 0 ELSE b - a + 1
      BY <3>1, FS_Interval
    <3> QED BY <3>2 DEF a, b
  <2> QED BY <1>1, <2>2
<1>3. \A i \in I : RankIn(i, I) = i - n
  <2> TAKE i \in I
  <2>1. {j \in I : j <= i} = (n + 1)..i
    BY <1>1
  <2>2. Cardinality((n + 1)..i) = i - n
    BY <1>1, FS_Interval
  <2> QED BY <2>1, <2>2 DEF RankIn
<1>4. \A k \in 1..Len(t) : pos(k) = n + k
  <2> TAKE k \in 1..Len(t)
  <2>1. n + k \in I /\ RankIn(n + k, I) = k
    BY <1>1, <1>3
  <2> QED BY <1>1, <1>3, <2>1
<1>5. \A k \in 1..Len(t) : (s \o t)[n + k] = t[k]
  <2>1. s \in Seq(S) /\ t \in Seq(S)
    BY SeqMonotonic
  <2> HIDE DEF S
  <2>2. \A i \in 1..(n + Len(t)) : (s \o t)[i] = IF i <= n THEN s[i] ELSE t[i - n]
    BY <2>1, ConcatProperties
  <2> QED BY <1>1, <2>2
<1>6. Pick(s \o t, I) = [k \in 1..Cardinality(I) |-> (s \o t)[pos(k)]]
  BY DEF Pick
<1>7. Pick(s \o t, I) = [k \in 1..Len(t) |-> t[k]]
  <2> HIDE DEF pos, I
  <2> QED BY <1>2, <1>4, <1>5, <1>6
<1> QED BY <1>1, <1>7

-----------------------------------------------------------------------------
(* Flattening a sequence of sequences.                                     *)

LEMMA LeastExists ==
  ASSUME NEW T \in SUBSET Nat, T # {}
  PROVE  \E n \in T : \A m \in T : n <= m
<1>1. \E n \in T : \A m \in T : <<m, n>> \notin OpToRel(<, Nat)
  BY WFMin, NatLessThanWellFounded
<1>2. \A m, n \in Nat : m < n => <<m, n>> \in OpToRel(<, Nat)
  <2> TAKE m, n \in Nat
  <2>1. m < n => <<m, n>>[1] < <<m, n>>[2]
    OBVIOUS
  <2> QED BY <2>1 DEF OpToRel
<1>3. PICK n \in T : \A m \in T : <<m, n>> \notin OpToRel(<, Nat)
  BY <1>1
<1>4. \A m \in T : ~(m < n)
  BY <1>2, <1>3
<1>5. ASSUME NEW m \in T PROVE n <= m
  <2>1. n \in Nat /\ m \in Nat /\ ~(m < n)
    BY <1>3, <1>4
  <2> QED BY <2>1
<1> QED BY <1>3, <1>5

\* f[i] is what the first i sequences of ss make.
Flattens(f, ss) ==
    f = [i \in 1..Len(ss) |-> IF i = 1 THEN ss[i] ELSE f[i - 1] \o ss[i]]

LEMMA FlattenUnique ==
  ASSUME NEW S, NEW ss \in Seq(S), NEW f, Flattens(f, ss), NEW g, Flattens(g, ss)
  PROVE  f = g
<1> DEFINE T == {i \in 1..Len(ss) : f[i] # g[i]}
<1>1. Len(ss) \in Nat
  BY LenProperties
<1>2. /\ DOMAIN f = 1..Len(ss) /\ DOMAIN g = 1..Len(ss)
      /\ f = [i \in 1..Len(ss) |-> f[i]] /\ g = [i \in 1..Len(ss) |-> g[i]]
  BY DEF Flattens
<1>3. ASSUME T # {} PROVE FALSE
  <2> T \in SUBSET Nat
    BY <1>1
  <2>1. PICK n \in T : \A m \in T : n <= m
    <3> HIDE DEF T
    <3> QED BY <1>3, LeastExists
  <2>2. CASE n = 1
    BY <2>1, <2>2 DEF Flattens
  <2>3. CASE n # 1
    <3>1. n - 1 \in 1..Len(ss) /\ n - 1 \notin T
      BY <1>1, <2>1, <2>3
    <3>2. f[n - 1] = g[n - 1]
      BY <3>1
    <3>3. f[n] = f[n - 1] \o ss[n] /\ g[n] = g[n - 1] \o ss[n]
      BY <2>1, <2>3 DEF Flattens
    <3> QED BY <2>1, <3>2, <3>3
  <2> QED BY <2>2, <2>3
<1>4. \A i \in 1..Len(ss) : f[i] = g[i]
  BY <1>3
<1> QED BY <1>2, <1>4

\* One more sequence extends the flattening.
LEMMA FlattenExtends ==
  ASSUME NEW S, NEW ss \in Seq(S), NEW t \in S, NEW f, Flattens(f, ss)
  PROVE  \E g : Flattens(g, Append(ss, t)) /\ \A i \in 1..Len(ss) : g[i] = f[i]
<1> DEFINE n == Len(ss)
           at == Append(ss, t)
           g == [i \in 1..(n + 1) |-> IF i <= n THEN f[i] ELSE IF n = 0 THEN t ELSE f[n] \o t]
<1>1. n \in Nat /\ Len(at) = n + 1 /\ at[n + 1] = t /\ \A i \in 1..n : at[i] = ss[i]
  BY LenProperties, AppendProperties
<1>2. \A i \in 1..n : f[i] = IF i = 1 THEN ss[i] ELSE f[i - 1] \o ss[i]
  BY DEF Flattens
<1>3. ASSUME NEW i \in 1..(n + 1)
      PROVE  g[i] = IF i = 1 THEN at[i] ELSE g[i - 1] \o at[i]
  <2>1. CASE i <= n
    BY <1>1, <1>2, <2>1
  <2>2. CASE i = n + 1
    BY <1>1, <2>2
  <2> QED BY <1>1, <2>1, <2>2
<1> HIDE DEF g
<1>4. g = [i \in 1..Len(at) |-> IF i = 1 THEN at[i] ELSE g[i - 1] \o at[i]]
  BY <1>1, <1>3, g = [i \in 1..(n + 1) |-> g[i]] DEF g
<1>5. \A i \in 1..n : g[i] = f[i]
  BY <1>1 DEF g
<1> QED BY <1>4, <1>5 DEF Flattens

LEMMA FlattenExists ==
  ASSUME NEW S, NEW ss \in Seq(S)
  PROVE  \E f : Flattens(f, ss)
<1> DEFINE T == {n \in Nat : \E s \in Seq(S) : Len(s) = n /\ ~\E f : Flattens(f, s)}
<1>1. ASSUME T # {} PROVE FALSE
  <2>1. PICK n \in T : \A m \in T : n <= m
    BY <1>1, LeastExists
  <2>2. PICK s \in Seq(S) : Len(s) = n /\ ~\E f : Flattens(f, s)
    BY <2>1
  <2>3. CASE s = <<>>
    <3> DEFINE f == [i \in 1..0 |-> 0]
    <3>1. Flattens(f, s)
      BY <2>3 DEF Flattens
    <3> HIDE DEF f
    <3> QED BY <2>2, <3>1
  <2>4. CASE s # <<>>
    <3>1. PICK r \in Seq(S), e \in S : s = Append(r, e)
      BY <2>4, SequenceEmptyOrAppend
    <3>2. Len(r) \in Nat /\ n = Len(r) + 1
      BY <2>2, <3>1, AppendProperties, LenProperties
    <3>3. Len(r) \notin T
      BY <2>1, <3>2
    <3>4. PICK f : Flattens(f, r)
      BY <3>2, <3>3
    <3> QED BY <2>2, <3>1, <3>4, FlattenExtends
  <2> QED BY <2>3, <2>4
<1>2. Len(ss) \in Nat /\ Len(ss) \notin T
  BY <1>1, LenProperties
<1> QED BY <1>2

LEMMA FlattenIs ==
  ASSUME NEW S, NEW ss \in Seq(S), NEW f, Flattens(f, ss), ss # <<>>
  PROVE  FlattenSeq(ss) = f[Len(ss)]
<1> DEFINE h == CHOOSE g : g = [i \in 1..Len(ss) |-> IF i = 1 THEN ss[i] ELSE g[i - 1] \o ss[i]]
<1>1. Len(ss) # 0
  BY EmptySeq
<1>2. FlattenSeq(ss) = h[Len(ss)]
  BY <1>1 DEF FlattenSeq
<1>3. Flattens(h, ss)
  BY DEF Flattens
<1> HIDE DEF h
<1> QED BY <1>2, <1>3, FlattenUnique

LEMMA ConcatSet ==
  ASSUME NEW A, NEW s \in Seq(A), NEW t \in Seq(A)
  PROVE  ToSet(s \o t) = ToSet(s) \cup ToSet(t)
<1>1. /\ Len(s) \in Nat /\ DOMAIN s = 1..Len(s)
      /\ Len(t) \in Nat /\ DOMAIN t = 1..Len(t)
  BY LenProperties
<1>2. /\ DOMAIN (s \o t) = 1..(Len(s) + Len(t))
      /\ \A i \in 1..Len(s) + Len(t) : (s \o t)[i] = IF i <= Len(s) THEN s[i] ELSE t[i - Len(s)]
  BY ConcatProperties, LenProperties
<1>3. ASSUME NEW x \in ToSet(s \o t) PROVE x \in ToSet(s) \cup ToSet(t)
  <2>1. PICK i \in 1..(Len(s) + Len(t)) : x = (s \o t)[i]
    BY <1>2 DEF ToSet
  <2>2. CASE i <= Len(s)
    BY <1>1, <1>2, <2>1, <2>2 DEF ToSet
  <2>3. CASE ~(i <= Len(s))
    <3>1. i - Len(s) \in DOMAIN t
      BY <1>1, <2>3
    <3> QED BY <1>2, <2>1, <2>3, <3>1 DEF ToSet
  <2> QED BY <2>2, <2>3
<1>4. ASSUME NEW i \in DOMAIN s PROVE s[i] \in ToSet(s \o t)
  BY <1>1, <1>2 DEF ToSet
<1>5. ASSUME NEW i \in DOMAIN t PROVE t[i] \in ToSet(s \o t)
  <2>1. /\ Len(s) + i \in 1..(Len(s) + Len(t)) /\ ~(Len(s) + i <= Len(s))
        /\ (Len(s) + i) - Len(s) = i
    BY <1>1
  <2>2. (s \o t)[Len(s) + i] = t[i]
    BY <1>2, <2>1
  <2> QED BY <1>2, <2>1, <2>2 DEF ToSet
<1> QED BY <1>3, <1>4, <1>5 DEF ToSet

\* What the sequences hold, and nothing else.
LEMMA FlattenElements ==
  ASSUME NEW A, NEW ss \in Seq(Seq(A))
  PROVE  /\ FlattenSeq(ss) \in Seq(A)
         /\ ToSet(FlattenSeq(ss)) = UNION {ToSet(ss[i]) : i \in DOMAIN ss}
<1>1. Len(ss) \in Nat /\ DOMAIN ss = 1..Len(ss) /\ \A i \in 1..Len(ss) : ss[i] \in Seq(A)
  BY LenProperties, ElementOfSeq
<1>2. CASE ss = <<>>
  <2>1. FlattenSeq(ss) = <<>>
    BY <1>2 DEF FlattenSeq
  <2>2. DOMAIN ss = {} /\ <<>> \in Seq(A) /\ DOMAIN <<>> = {}
    BY <1>1, <1>2, EmptySeq
  <2>3. ToSet(<<>>) = {}
    BY <2>2 DEF ToSet
  <2> QED BY <2>1, <2>2, <2>3
<1>3. CASE ss # <<>>
  <2>1. PICK f : Flattens(f, ss)
    BY FlattenExists
  <2> DEFINE Upto(i) == UNION {ToSet(ss[j]) : j \in 1..i}
             Right(i) == f[i] \in Seq(A) /\ ToSet(f[i]) = Upto(i)
             T == {i \in 1..Len(ss) : ~Right(i)}
  <2>2. ASSUME T # {} PROVE FALSE
    <3> T \in SUBSET Nat
      BY <1>1
    <3>1. PICK n \in T : \A m \in T : n <= m
      <4> HIDE DEF T
      <4> QED BY <2>2, LeastExists
    <3>2. n \in 1..Len(ss) /\ f[n] = IF n = 1 THEN ss[n] ELSE f[n - 1] \o ss[n]
      BY <2>1, <3>1 DEF Flattens
    <3>3. CASE n = 1
      <4>1. Upto(1) = ToSet(ss[1])
        OBVIOUS
      <4>2. Right(1)
        BY <1>1, <3>2, <3>3, <4>1
      <4> QED BY <3>1, <3>3, <4>2
    <3>4. CASE n # 1
      <4>1. n - 1 \in 1..Len(ss) /\ n - 1 \notin T
        <5>1. n - 1 \in 1..Len(ss) /\ ~(n <= n - 1)
          BY <1>1, <3>2, <3>4
        <5> HIDE DEF T
        <5> QED BY <3>1, <5>1
      <4>2. Right(n - 1)
        BY <4>1
      <4>3. f[n] \in Seq(A) /\ ToSet(f[n]) = ToSet(f[n - 1]) \cup ToSet(ss[n])
        BY <1>1, <3>2, <3>4, <4>2, ConcatProperties, ConcatSet
      <4>4. Upto(n) = Upto(n - 1) \cup ToSet(ss[n])
        <5>1. 1..n = 1..(n - 1) \cup {n}
          BY <1>1, <3>2
        <5> QED BY <5>1
      <4> QED BY <3>1, <4>2, <4>3, <4>4
    <3> QED BY <3>3, <3>4
  <2>3. Len(ss) \in 1..Len(ss)
    BY <1>1, <1>3, EmptySeq
  <2>4. Right(Len(ss))
    BY <2>2, <2>3
  <2> QED BY <1>1, <1>3, <2>1, <2>4, FlattenIs
<1> QED BY <1>2, <1>3

LEMMA FlattenAppend ==
  ASSUME NEW A, NEW ss \in Seq(Seq(A)), NEW t \in Seq(A)
  PROVE  FlattenSeq(Append(ss, t)) = FlattenSeq(ss) \o t
<1> DEFINE more == Append(ss, t)
<1>1. PICK f : Flattens(f, ss)
  BY FlattenExists
<1>2. PICK g : Flattens(g, more) /\ \A i \in 1..Len(ss) : g[i] = f[i]
  BY <1>1, FlattenExtends
<1>3. /\ Len(ss) \in Nat /\ Len(more) = Len(ss) + 1 /\ more[Len(ss) + 1] = t
      /\ more # <<>> /\ more \in Seq(Seq(A))
  BY AppendProperties, LenProperties
<1>4. FlattenSeq(more) = g[Len(ss) + 1]
  <2> HIDE DEF more
  <2> QED BY <1>2, <1>3, FlattenIs
<1>5. g[Len(ss) + 1] = IF Len(ss) + 1 = 1 THEN more[Len(ss) + 1] ELSE g[Len(ss)] \o t
  <2>1. Len(ss) + 1 \in 1..Len(more) /\ (Len(ss) + 1) - 1 = Len(ss)
    BY <1>3
  <2> HIDE DEF more
  <2> QED BY <1>2, <1>3, <2>1 DEF Flattens
<1>6. CASE ss = <<>>
  <2>1. FlattenSeq(ss) = <<>>
    BY <1>6 DEF FlattenSeq
  <2> QED BY <1>3, <1>4, <1>5, <1>6, <2>1, ConcatEmptySeq, EmptySeq
<1>7. CASE ss # <<>>
  <2>1. Len(ss) \in 1..Len(ss) /\ Len(ss) # 0
    BY <1>7, EmptySeq
  <2>2. FlattenSeq(ss) = f[Len(ss)]
    BY <1>1, <1>7, FlattenIs
  <2>3. g[Len(ss)] = f[Len(ss)]
    BY <1>2, <2>1
  <2>4. Len(ss) + 1 # 1
    BY <1>3, <2>1
  <2> QED BY <1>4, <1>5, <2>2, <2>3, <2>4
<1> QED BY <1>6, <1>7

\* What holds at 0 and goes from each number to the next holds up to n.
LEMMA StepByStep ==
  ASSUME NEW n \in Nat, NEW T, 0 \in T, \A i \in 1..n : i - 1 \in T => i \in T
  PROVE  \A i \in 0..n : i \in T
<1> DEFINE U == {i \in 0..n : i \notin T}
<1>1. ASSUME U # {} PROVE FALSE
  <2>1. PICK m \in U : \A k \in U : m <= k
    <3>1. U \in SUBSET Nat
      OBVIOUS
    <3> HIDE DEF U
    <3> QED BY <1>1, <3>1, LeastExists
  <2>2. m # 0 /\ m \in 1..n /\ m - 1 \in 0..n /\ ~(m <= m - 1)
    BY <2>1
  <2> QED BY <2>1, <2>2
<1> QED BY <1>1

-----------------------------------------------------------------------------
(* Sequences as functions of their positions.                               *)

LEMMA SeqIsSeq ==
  ASSUME NEW S, NEW s \in Seq(S)
  PROVE  /\ IsSeq(s) /\ ToSet(s) \subseteq S
         /\ Len(s) \in Nat /\ DOMAIN s = 1..Len(s) /\ \A i \in DOMAIN s : s[i] \in ToSet(s)
<1>1. Len(s) \in Nat /\ DOMAIN s = 1..Len(s) /\ s \in [1..Len(s) -> S]
  BY LenProperties
<1>2. \A i \in DOMAIN s : s[i] \in ToSet(s)
  BY DEF ToSet
<1>3. s \in [1..Len(s) -> ToSet(s)]
  BY <1>1, <1>2
<1>4. s \in Seq(ToSet(s))
  BY <1>1, <1>3, SeqDef
<1>5. ToSet(s) \subseteq S
  BY <1>1 DEF ToSet
<1> QED BY <1>1, <1>2, <1>4, <1>5 DEF IsSeq

LEMMA ConcatIsSeq ==
  ASSUME NEW s, IsSeq(s), NEW t, IsSeq(t)
  PROVE  /\ IsSeq(s \o t) /\ ToSet(s \o t) = ToSet(s) \cup ToSet(t)
         /\ Len(s \o t) = Len(s) + Len(t)
<1> DEFINE S == ToSet(s) \cup ToSet(t)
<1>1. s \in Seq(S) /\ t \in Seq(S)
  BY SeqMonotonic DEF IsSeq
<1> HIDE DEF S
<1>2. s \o t \in Seq(S) /\ Len(s \o t) = Len(s) + Len(t) /\ ToSet(s \o t) = ToSet(s) \cup ToSet(t)
  BY <1>1, ConcatProperties, ConcatSet
<1> QED BY <1>2, SeqIsSeq

LEMMA SeqFinite ==
  ASSUME NEW s, IsSeq(s), NEW I \in SUBSET (DOMAIN s)
  PROVE  IsFiniteSet(I) /\ Cardinality(I) \in Nat
<1>1. Len(s) \in Nat /\ DOMAIN s = 1..Len(s)
  BY LenProperties DEF IsSeq
<1>2. IsFiniteSet(DOMAIN s)
  BY <1>1, FS_Interval
<1> QED BY <1>2, FS_Subset, FS_CardinalityType

\* A function of 1..n is a sequence.
LEMMA TableIsSeq ==
  ASSUME NEW n \in Nat, NEW f, f = [i \in 1..n |-> f[i]]
  PROVE  IsSeq(f) /\ Len(f) = n /\ DOMAIN f = 1..n
<1>1. \A i \in 1..n : f[i] \in ToSet(f)
  BY DEF ToSet
<1>2. f \in [1..n -> ToSet(f)]
  BY <1>1
<1>3. f \in Seq(ToSet(f))
  BY <1>2, SeqDef
<1>4. Len(f) \in Nat /\ DOMAIN f = 1..Len(f) /\ DOMAIN f = 1..n
  BY <1>2, <1>3, LenProperties
<1> QED BY <1>3, <1>4 DEF IsSeq

\* Where the elements of a concatenation are from.
LEMMA ConcatParts ==
  ASSUME NEW s, IsSeq(s), NEW t, IsSeq(t)
  PROVE  /\ IsSeq(s \o t) /\ DOMAIN (s \o t) = 1..(Len(s) + Len(t))
         /\ Len(s) \in Nat /\ Len(t) \in Nat
         /\ \A i \in DOMAIN (s \o t) :
               \/ i \in DOMAIN s /\ i <= Len(s) /\ (s \o t)[i] = s[i]
               \/ i - Len(s) \in DOMAIN t /\ i > Len(s) /\ (s \o t)[i] = t[i - Len(s)]
<1> DEFINE S == ToSet(s) \cup ToSet(t)
<1>1. /\ Len(s) \in Nat /\ DOMAIN s = 1..Len(s)
      /\ Len(t) \in Nat /\ DOMAIN t = 1..Len(t)
  BY LenProperties DEF IsSeq
<1>2. s \in Seq(S) /\ t \in Seq(S)
  BY SeqMonotonic DEF IsSeq
<1> HIDE DEF S
<1>3. /\ s \o t \in Seq(S) /\ Len(s \o t) = Len(s) + Len(t)
      /\ \A i \in 1..(Len(s) + Len(t)) :
            (s \o t)[i] = IF i <= Len(s) THEN s[i] ELSE t[i - Len(s)]
  BY <1>2, ConcatProperties
<1>4. DOMAIN (s \o t) = 1..(Len(s) + Len(t))
  BY <1>3, LenProperties
<1>5. \A i \in 1..(Len(s) + Len(t)) : IF i <= Len(s) THEN i \in 1..Len(s) ELSE i - Len(s) \in 1..Len(t)
  BY <1>1
<1> QED BY <1>1, <1>3, <1>4, <1>5, ConcatIsSeq

\* A selection from anything indexed by 1..n.
LEMMA PickIsSeq ==
  ASSUME NEW n \in Nat, NEW I \in SUBSET (1..n), NEW s
  PROVE  /\ IsSeq(Pick(s, I)) /\ ToSet(Pick(s, I)) = {s[i] : i \in I}
         /\ Len(Pick(s, I)) = Cardinality(I) /\ Len(Pick(s, I)) \in 0..n
<1>1. Pick(s, I) \in Seq({s[i] : i \in I}) /\ ToSet(Pick(s, I)) = {s[i] : i \in I}
  BY PickElements
<1>2. Cardinality(I) \in 0..n
  <2>1. IsFiniteSet(1..n) /\ Cardinality(1..n) = n
    BY FS_Interval
  <2>2. IsFiniteSet(I) /\ Cardinality(I) <= Cardinality(1..n)
    BY <2>1, FS_Subset
  <2>3. Cardinality(I) \in Nat
    BY <2>2, FS_CardinalityType
  <2> QED BY <2>1, <2>2, <2>3
<1>3. Len(Pick(s, I)) = Cardinality(I)
  <2>1. Len(Pick(s, I)) \in Nat /\ DOMAIN Pick(s, I) = 1..Len(Pick(s, I))
    BY <1>1, LenProperties
  <2>2. DOMAIN Pick(s, I) = 1..Cardinality(I)
    BY DEF Pick
  <2> QED BY <1>2, <2>1, <2>2
<1> QED BY <1>1, <1>2, <1>3 DEF IsSeq

\* In a strict total order of a finite set every rank below its size is taken.
LEMMA RankingBy ==
  ASSUME NEW S, IsFiniteSet(S), NEW R,
         \A x \in S : <<x, x>> \notin R,
         \A x, y, z \in S : <<x, y>> \in R /\ <<y, z>> \in R => <<x, z>> \in R,
         \A x, y \in S : x # y => <<x, y>> \in R \/ <<y, x>> \in R
  PROVE  /\ Cardinality(S) \in Nat
         /\ \A k \in 1..Cardinality(S) : \E x \in S : Cardinality({y \in S : <<y, x>> \in R}) = k - 1
<1> DEFINE Below(x) == {y \in S : <<y, x>> \in R}
           n == Cardinality(S)
           T == 0..(n - 1)
           r == [x \in S |-> Cardinality(Below(x))]
<1>1. n \in Nat
  BY FS_CardinalityType
<1>2. ASSUME NEW x \in S PROVE IsFiniteSet(Below(x)) /\ Cardinality(Below(x)) \in T
  <2>1. Below(x) \in SUBSET S /\ x \notin Below(x)
    OBVIOUS
  <2> HIDE DEF Below
  <2>2. IsFiniteSet(Below(x)) /\ Cardinality(Below(x)) <= n /\ Cardinality(Below(x)) # n
    BY <2>1, FS_Subset
  <2>3. Cardinality(Below(x)) \in Nat
    BY <2>2, FS_CardinalityType
  <2> QED BY <1>1, <2>2, <2>3
<1>3. ASSUME NEW x \in S, NEW y \in S, <<x, y>> \in R
      PROVE  Cardinality(Below(x)) # Cardinality(Below(y))
  <2>1. Below(x) \in SUBSET Below(y)
    BY <1>3
  <2>2. x \in Below(y) /\ x \notin Below(x)
    BY <1>3
  <2> HIDE DEF Below
  <2> QED BY <1>2, <2>1, <2>2, FS_Subset
<1>4. r \in Injection(S, T)
  <2>1. ASSUME NEW x \in S, NEW y \in S, x # y PROVE r[x] # r[y]
    <3> HIDE DEF Below
    <3> QED BY <1>3, <2>1
  <2>2. r \in [S -> T]
    BY <1>2
  <2> HIDE DEF r, T
  <2> QED BY <2>1, <2>2 DEF Injection, IsInjective
<1>5. IsFiniteSet(T) /\ Cardinality(T) = n
  <2>1. 0 \in Int /\ n - 1 \in Int /\ (IF 0 > n - 1 THEN 0 ELSE (n - 1) - 0 + 1) = n
    BY <1>1
  <2> HIDE DEF n
  <2> QED BY <2>1, FS_Interval
<1>6. r \in Surjection(S, T)
  <2> HIDE DEF r, T
  <2> QED BY <1>4, <1>5, FS_Injection
<1>7. ASSUME NEW k \in 1..n PROVE \E x \in S : Cardinality(Below(x)) = k - 1
  <2>1. k - 1 \in T
    BY <1>1
  <2>2. PICK x \in S : r[x] = k - 1
    <3> HIDE DEF r, T
    <3> QED BY <1>6, <2>1 DEF Surjection
  <2> QED BY <2>2
<1> QED BY <1>1, <1>7

-----------------------------------------------------------------------------
(* Folding from the left.                                                  *)

\* h holds what folding any part of the first m elements gives.
Folded(h, m, s) ==
    h = [S \in SUBSET (1..m) |-> IF S = {} THEN FoldBase
                                 ELSE FoldStep(h[S \ {Max(S)}], s[Max(S)])]

LEMMA MaxOfPart ==
  ASSUME NEW m \in Nat \ {0}, NEW S \in SUBSET (1..m)
  PROVE  /\ m \in S => Max(S) = m /\ S \ {m} \in SUBSET (1..(m - 1))
         /\ m \notin S => S \in SUBSET (1..(m - 1))
<1>1. m \in S => Max(S) = m
  <2> SUFFICES ASSUME m \in S PROVE Max(S) = m
    OBVIOUS
  <2>1. \A y \in S : y \in Int /\ m >= y
    OBVIOUS
  <2>2. \A x \in S : (\A y \in S : x >= y) => x = m
    BY <2>1
  <2> QED BY <2>1, <2>2 DEF Max
<1>2. \A i \in 1..m : i # m => i \in 1..(m - 1)
  OBVIOUS
<1> QED BY <1>1, <1>2

LEMMA FoldedMore ==
  ASSUME NEW s, NEW m \in Nat \ {0}, NEW h, Folded(h, m - 1, s)
  PROVE  \E g : Folded(g, m, s)
<1> DEFINE g == [S \in SUBSET (1..m) |-> IF m \in S THEN FoldStep(h[S \ {m}], s[m]) ELSE h[S]]
<1>1. ASSUME NEW S \in SUBSET (1..m)
      PROVE  g[S] = IF S = {} THEN FoldBase ELSE FoldStep(g[S \ {Max(S)}], s[Max(S)])
  <2>1. CASE m \in S
    <3>1. S # {} /\ Max(S) = m /\ S \ {m} \in SUBSET (1..(m - 1)) /\ m \notin S \ {m}
      BY <2>1, MaxOfPart
    <3>2. S \ {m} \in SUBSET (1..m)
      OBVIOUS
    <3>3. g[S \ {m}] = h[S \ {m}]
      BY <3>1, <3>2
    <3>4. g[S] = FoldStep(h[S \ {m}], s[m])
      BY <2>1
    <3> HIDE DEF g
    <3> QED BY <3>1, <3>3, <3>4
  <2>2. CASE m \notin S
    <3>1. S \in SUBSET (1..(m - 1)) /\ S \ {Max(S)} \in SUBSET (1..(m - 1))
      BY <2>2, MaxOfPart
    <3>2. h[S] = IF S = {} THEN FoldBase ELSE FoldStep(h[S \ {Max(S)}], s[Max(S)])
      BY <3>1 DEF Folded
    <3>3. m \notin S \ {Max(S)} /\ S \ {Max(S)} \in SUBSET (1..m)
      BY <2>2
    <3>4. g[S] = h[S] /\ g[S \ {Max(S)}] = h[S \ {Max(S)}]
      BY <2>2, <3>3
    <3> HIDE DEF g
    <3> QED BY <3>2, <3>4
  <2> QED BY <2>1, <2>2
<1>2. g = [S \in SUBSET (1..m) |-> g[S]]
  OBVIOUS
<1> HIDE DEF g
<1>3. g = [S \in SUBSET (1..m) |-> IF S = {} THEN FoldBase ELSE FoldStep(g[S \ {Max(S)}], s[Max(S)])]
  BY <1>1, <1>2
<1> QED BY <1>3 DEF Folded

LEMMA FoldedExists ==
  ASSUME NEW s, NEW n \in Nat
  PROVE  \E h : Folded(h, n, s)
<1> DEFINE T == {m \in Nat : ~\E h : Folded(h, m, s)}
<1>1. ASSUME T # {} PROVE FALSE
  <2>1. PICK m \in T : \A k \in T : m <= k
    BY <1>1, LeastExists
  <2>2. CASE m = 0
    <3> DEFINE h == [S \in {{}} |-> FoldBase]
    <3>1. SUBSET (1..0) = {{}}
      OBVIOUS
    <3>2. h = [S \in {{}} |-> IF S = {} THEN FoldBase ELSE FoldStep(h[S \ {Max(S)}], s[Max(S)])]
      OBVIOUS
    <3> HIDE DEF h
    <3>3. Folded(h, 0, s)
      BY <3>1, <3>2 DEF Folded
    <3> QED BY <2>1, <2>2, <3>3
  <2>3. CASE m # 0
    <3>1. m - 1 \in Nat /\ ~(m <= m - 1)
      BY <2>1, <2>3
    <3>2. PICK h : Folded(h, m - 1, s)
      BY <2>1, <3>1
    <3> QED BY <2>1, <2>3, <3>2, FoldedMore
  <2> QED BY <2>2, <2>3
<1> QED BY <1>1

\* acc holds what folding the first elements of s gives, ending in result.
Unfolds(acc, s, n, result) ==
    /\ acc[0] = FoldBase
    /\ \A i \in 1..n : acc[i] = FoldStep(acc[i - 1], s[i])
    /\ result = acc[n]

\* A fold from the left is the last of the values it goes through.
LEMMA FoldUnfolds ==
  \A s : \A n \in Nat : DOMAIN s = 1..n => \E acc : Unfolds(acc, s, n, FoldLeft(FoldStep, FoldBase, s))
<1> SUFFICES ASSUME NEW s, NEW n \in Nat, DOMAIN s = 1..n
             PROVE  \E acc : Unfolds(acc, s, n, FoldLeft(FoldStep, FoldBase, s))
  OBVIOUS
<1> DEFINE h == CHOOSE h : h = [S \in SUBSET (DOMAIN s) |->
                                  IF S = {} THEN FoldBase ELSE FoldStep(h[S \ {Max(S)}], s[Max(S)])]
           acc == [i \in 0..n |-> h[1..i]]
<1>1. FoldLeft(FoldStep, FoldBase, s) = h[DOMAIN s]
  BY DEF FoldLeft, MapThenFoldSet
<1>2. Folded(h, n, s)
  <2>1. PICK g : g = [S \in SUBSET (DOMAIN s) |->
                        IF S = {} THEN FoldBase ELSE FoldStep(g[S \ {Max(S)}], s[Max(S)])]
    <3>1. PICK g : Folded(g, n, s)
      BY FoldedExists
    <3>2. g = [S \in SUBSET (DOMAIN s) |->
                 IF S = {} THEN FoldBase ELSE FoldStep(g[S \ {Max(S)}], s[Max(S)])]
      BY <3>1 DEF Folded
    <3> QED BY <3>2
  <2>2. h = [S \in SUBSET (DOMAIN s) |->
               IF S = {} THEN FoldBase ELSE FoldStep(h[S \ {Max(S)}], s[Max(S)])]
    BY <2>1
  <2> HIDE DEF h
  <2> QED BY <2>2 DEF Folded
<1> HIDE DEF h
<1>3. acc[0] = FoldBase
  <2>1. 1..0 = {} /\ {} \in SUBSET (1..n)
    OBVIOUS
  <2> QED BY <1>2, <2>1 DEF Folded
<1>4. ASSUME NEW i \in 1..n
      PROVE  acc[i] = FoldStep(acc[i - 1], s[i])
  <2>1. /\ 1..i \in SUBSET (1..n) /\ i \in 1..i /\ i \in Nat \ {0}
        /\ (1..i) \ {i} = 1..(i - 1) /\ i \in 0..n /\ i - 1 \in 0..n
    OBVIOUS
  <2>2. Max(1..i) = i
    BY <2>1, MaxOfPart
  <2>3. h[1..i] = FoldStep(h[1..(i - 1)], s[i])
    BY <1>2, <2>1, <2>2 DEF Folded
  <2> QED BY <2>1, <2>3
<1>5. acc[n] = h[DOMAIN s]
  OBVIOUS
<1> HIDE DEF acc
<1> QED BY <1>1, <1>3, <1>4, <1>5 DEF Unfolds
=============================================================================
