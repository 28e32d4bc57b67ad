--------------------------- MODULE SequenceLemmas ---------------------------
(***************************************************************************)
(* Lemmas about sequences that the proofs of several components need:      *)
(* sequences without repetition, and what Filter!Keep keeps.               *)
(*                                                                         *)
(* The induction theorems of the library take an operator, which the       *)
(* provers cannot instantiate.  SetInduction and SequenceInduction say the  *)
(* same of a set, which is an ordinary value, and follow from the           *)
(* well-foundedness of < on Nat.                                            *)
(***************************************************************************)
EXTENDS Integers, Filter, SequencesExt, FiniteSetTheorems, SequenceTheorems,
        WellFoundedInduction, TLAPS

----------------------------------------------------------------------------
(* Induction. *)

\* A set that holds 0, and the successor of each of its numbers, holds them all.
LEMMA SetInduction ==
  ASSUME NEW P, 0 \in P, \A n \in Nat : n \in P => n + 1 \in P
  PROVE  Nat \subseteq P
  <1> SUFFICES ASSUME NEW m \in Nat, m \notin P PROVE FALSE
    OBVIOUS
  <1> DEFINE T == {n \in Nat : n \notin P}
             R == OpToRel(<, Nat)
  <1>1. \A x, y \in Nat : <<x, y>> \in R <=> x < y
    BY DEF OpToRel
  <1>2. T \subseteq Nat /\ T # {}
    OBVIOUS
  <1>3. IsWellFoundedOn(R, Nat)
    BY NatLessThanWellFounded
  <1> HIDE DEF T, R
  <1>4. PICK x \in T : \A y \in T : ~ (<<y, x>> \in R)
    BY <1>2, <1>3, WFMin
  <1>5. x \in Nat /\ x \notin P /\ x # 0
    BY <1>4 DEF T
  <1>6. x - 1 \in Nat /\ x - 1 < x /\ (x - 1) + 1 = x
    BY <1>5
  <1>7. x - 1 \in T
    BY <1>5, <1>6 DEF T
  <1> QED BY <1>1, <1>4, <1>5, <1>6, <1>7

\* A set that holds the empty sequence, and each of its sequences with one more
\* element, holds every sequence.
LEMMA SequenceInduction ==
  ASSUME NEW S, NEW P, <<>> \in P,
         \A s \in Seq(S), x \in S : s \in P => Append(s, x) \in P
  PROVE  Seq(S) \subseteq P
  <1> DEFINE L == {n \in Nat : \A s \in Seq(S) : Len(s) = n => s \in P}
  <1>1. 0 \in L
    <2>1. \A s \in Seq(S) : Len(s) = 0 => s = <<>>
      OBVIOUS
    <2> QED BY <2>1
  <1>2. ASSUME NEW n \in Nat, n \in L PROVE n + 1 \in L
    <2> SUFFICES ASSUME NEW s \in Seq(S), Len(s) = n + 1 PROVE s \in P
      OBVIOUS
    <2>1. s # <<>>
      OBVIOUS
    <2>2. PICK t \in Seq(S), x \in S : s = Append(t, x)
      BY <2>1, SequenceEmptyOrAppend
    <2>3. Len(t) = n
      BY <2>2
    <2>4. t \in P
      BY <1>2, <2>3
    <2> QED BY <2>2, <2>4
  <1> HIDE DEF L
  <1>3. Nat \subseteq L
    BY <1>1, <1>2, SetInduction
  <1> QED BY <1>3 DEF L

----------------------------------------------------------------------------
(* Sequences without repetition, and the parts of a sequence. *)

\* No element occurs twice.
Distinct(s) == \A i, j \in DOMAIN s : s[i] = s[j] => i = j

LEMMA Elements ==
  ASSUME NEW S, NEW s \in Seq(S)
  PROVE  DOMAIN s = 1..Len(s) /\ Len(s) \in Nat /\ \A k \in DOMAIN s : s[k] \in S
  OBVIOUS

LEMMA FrontParts ==
  ASSUME NEW S, NEW s \in Seq(S), s # <<>>
  PROVE  /\ Front(s) \in Seq(S) /\ Last(s) \in S
         /\ Len(Front(s)) = Len(s) - 1 /\ Len(s) \in Nat \ {0}
         /\ \A k \in 1..(Len(s) - 1) : Front(s)[k] = s[k]
  <1>1. Len(s) \in Nat \ {0} /\ Last(s) \in S
    BY DEF Last
  <1> DEFINE n == Len(s) - 1
  <1>2. n \in Nat /\ \A k \in 1..n : k \in 1..Len(s)
    BY <1>1
  <1>3. SubSeq(s, 1, n) = [k \in 1..n |-> s[k]]
    BY <1>2
  <1>4. Front(s) = [k \in 1..n |-> s[k]] /\ \A k \in 1..n : s[k] \in S
    BY <1>2, <1>3 DEF Front
  <1>5. Front(s) \in Seq(S) /\ Len(Front(s)) = n
    BY <1>2, <1>4
  <1> QED BY <1>1, <1>4, <1>5

LEMMA TailParts ==
  ASSUME NEW S, NEW s \in Seq(S), s # <<>>
  PROVE  /\ Tail(s) \in Seq(S) /\ Head(s) \in S /\ Head(s) = s[1]
         /\ Len(Tail(s)) = Len(s) - 1 /\ Len(s) \in Nat \ {0}
         /\ \A k \in 1..(Len(s) - 1) : Tail(s)[k] = s[k + 1]
  OBVIOUS

\* A sequence without repetition has as many elements as its length says.
LEMMA DistinctCardinality ==
  ASSUME NEW S, NEW s \in Seq(S), Distinct(s)
  PROVE  Cardinality(ToSet(s)) = Len(s)
  <1> DEFINE n == Len(s)
  <1>1. n \in Nat /\ DOMAIN s = 1..n /\ s \in [1..n -> ToSet(s)]
    BY DEF ToSet
  <1>2. s \in Bijection(1..n, ToSet(s))
    BY <1>1 DEF Distinct, ToSet, Bijection, Injection, Surjection, IsInjective
  <1>3. IsFiniteSet(1..n) /\ Cardinality(1..n) = n
    BY <1>1, FS_Interval
  <1> QED BY <1>2, <1>3, FS_Bijection DEF ExistsBijection

\* Taking one element out keeps the others distinct.
LEMMA DistinctWithout ==
  ASSUME NEW S, NEW s \in Seq(S), NEW t \in Seq(S), t # <<>>, Distinct(s \o t)
  PROVE  /\ Distinct(s \o Tail(t))
         /\ ToSet(s \o Tail(t)) \subseteq ToSet(s \o t)
         /\ Append(s, Head(t)) \o Tail(t) = s \o t
  <1> DEFINE u == s \o Tail(t)
             up(k) == IF k <= Len(s) THEN k ELSE k + 1
  <1>1. /\ DOMAIN u = 1..(Len(s) + Len(t) - 1) /\ Len(s) \in Nat
        /\ DOMAIN (s \o t) = 1..(Len(s) + Len(t)) /\ Len(t) \in Nat \ {0}
        /\ \A k \in DOMAIN u : u[k] = (s \o t)[up(k)]
    OBVIOUS
  <1> HIDE DEF u
  <1>2. \A k \in DOMAIN u : up(k) \in DOMAIN (s \o t)
    BY <1>1
  <1>3. \A j, k \in DOMAIN u : up(j) = up(k) => j = k
    BY <1>1
  <1> HIDE DEF up
  <1>4. Distinct(u)
    BY <1>1, <1>2, <1>3 DEF Distinct
  <1>5. ToSet(u) \subseteq ToSet(s \o t)
    BY <1>1, <1>2 DEF ToSet
  <1>6. Append(s, Head(t)) \o Tail(t) = s \o t
    OBVIOUS
  <1> QED BY <1>4, <1>5, <1>6 DEF u

LEMMA DistinctAppend ==
  ASSUME NEW S, NEW s \in Seq(S), NEW x \in S
  PROVE  /\ ToSet(Append(s, x)) = ToSet(s) \cup {x}
         /\ Distinct(s) /\ x \notin ToSet(s) => Distinct(Append(s, x))
  <1> DEFINE u == Append(s, x)
  <1>1. /\ DOMAIN u = DOMAIN s \cup {Len(s) + 1} /\ Len(s) + 1 \notin DOMAIN s
        /\ \A k \in DOMAIN s : u[k] = s[k]
        /\ u[Len(s) + 1] = x
    OBVIOUS
  <1> HIDE DEF u
  <1>2. ToSet(u) = ToSet(s) \cup {x}
    BY <1>1 DEF ToSet
  <1>3. Distinct(s) /\ x \notin ToSet(s) => Distinct(u)
    BY <1>1 DEF ToSet, Distinct
  <1> QED BY <1>2, <1>3 DEF u

----------------------------------------------------------------------------
(* Keep, from its recursion. *)

\* f holds, for each n up to m, what is kept of the first n elements of s.
KeptSoFar(f, m, s, T) ==
  f = [n \in 0..m |->
         IF n = 0 THEN <<>>
         ELSE IF s[n] \in T THEN Append(f[n - 1], s[n]) ELSE f[n - 1]]

LEMMA KeptSoFarExists ==
  ASSUME NEW S, NEW s \in Seq(S), NEW T
  PROVE  \A m \in Nat : \E f : KeptSoFar(f, m, s, T)
  <1> DEFINE P == {m \in Nat : \E f : KeptSoFar(f, m, s, T)}
  <1>1. 0 \in P
    <2>1. KeptSoFar([n \in 0..0 |-> <<>>], 0, s, T)
      BY DEF KeptSoFar
    <2> QED BY <2>1
  <1>2. ASSUME NEW m \in Nat, m \in P PROVE m + 1 \in P
    <2>1. PICK f : KeptSoFar(f, m, s, T)
      BY <1>2
    <2> DEFINE g == [n \in 0..(m + 1) |->
                       IF n <= m THEN f[n]
                       ELSE IF s[n] \in T THEN Append(f[n - 1], s[n])
                       ELSE f[n - 1]]
               h == [n \in 0..(m + 1) |->
                       IF n = 0 THEN <<>>
                       ELSE IF s[n] \in T THEN Append(g[n - 1], s[n])
                       ELSE g[n - 1]]
    <2>2. ASSUME NEW n \in 0..(m + 1) PROVE g[n] = h[n]
      <3>1. CASE n = 0
        <4>1. 0 \in 0..m /\ f[0] = <<>>
          BY <2>1 DEF KeptSoFar
        <4> QED BY <3>1, <4>1
      <3>2. CASE n # 0
        <4>1. n - 1 \in 0..m /\ g[n - 1] = f[n - 1] /\ n \in 1..(m + 1)
          BY <3>2
        <4>2. h[n] = IF s[n] \in T THEN Append(f[n - 1], s[n]) ELSE f[n - 1]
          BY <3>2, <4>1
        <4>3. CASE n <= m
          <5>1. n \in 0..m /\ g[n] = f[n]
            BY <4>1, <4>3
          <5>2. f[n] = IF s[n] \in T THEN Append(f[n - 1], s[n]) ELSE f[n - 1]
            BY <2>1, <3>2, <5>1 DEF KeptSoFar
          <5> QED BY <4>2, <5>1, <5>2
        <4>4. CASE ~(n <= m)
          BY <4>2, <4>4
        <4> QED BY <4>3, <4>4
      <3> QED BY <3>1, <3>2
    <2>3. g = h
      BY <2>2
    <2>4. KeptSoFar(g, m + 1, s, T)
      BY <2>3 DEF KeptSoFar
    <2> QED BY <2>4
  <1> HIDE DEF P
  <1>3. Nat \subseteq P
    BY <1>1, <1>2, SetInduction
  <1> QED BY <1>3 DEF P

LEMMA KeepByPrefixes ==
  ASSUME NEW S, NEW s \in Seq(S), NEW T
  PROVE  \E f : KeptSoFar(f, Len(s), s, T) /\ Keep(s, T) = f[Len(s)]
  <1> DEFINE f == CHOOSE g : KeptSoFar(g, Len(s), s, T)
  <1>1. Keep(s, T) = f[Len(s)]
    BY DEF Keep, KeptSoFar
  <1>2. \E g : KeptSoFar(g, Len(s), s, T)
    BY KeptSoFarExists
  <1>3. KeptSoFar(f, Len(s), s, T)
    BY <1>2
  <1> QED BY <1>1, <1>3

\* The recursion of Keep on sequences.
LEMMA KeepEmpty ==
  ASSUME NEW T
  PROVE  Keep(<<>>, T) = <<>>
  <1>1. <<>> \in Seq({}) /\ Len(<<>>) = 0
    OBVIOUS
  <1>2. PICK f : KeptSoFar(f, Len(<<>>), <<>>, T) /\ Keep(<<>>, T) = f[Len(<<>>)]
    BY <1>1, KeepByPrefixes
  <1>3. f[0] = <<>>
    <2>1. KeptSoFar(f, 0, <<>>, T) /\ 0 \in 0..0
      BY <1>1, <1>2
    <2> QED BY <2>1 DEF KeptSoFar
  <1> QED BY <1>1, <1>2, <1>3

LEMMA KeepAppend ==
  ASSUME NEW S, NEW T, NEW s \in Seq(S), NEW x \in S
  PROVE  Keep(Append(s, x), T) =
           IF x \in T THEN Append(Keep(s, T), x) ELSE Keep(s, T)
  <1> DEFINE u == Append(s, x)  z == Len(s)
  <1>1. /\ u \in Seq(S) /\ Len(u) = z + 1 /\ z \in Nat /\ u[z + 1] = x
        /\ \A n \in 1..z : u[n] = s[n]
    OBVIOUS
  <1>2. PICK f : KeptSoFar(f, z, s, T) /\ Keep(s, T) = f[z]
    BY KeepByPrefixes
  <1>3. PICK g : KeptSoFar(g, Len(u), u, T) /\ Keep(u, T) = g[Len(u)]
    BY <1>1, KeepByPrefixes
  <1>p. KeptSoFar(g, z + 1, u, T)
    BY <1>1, <1>3
  <1> HIDE DEF u, z
  <1> DEFINE P == {n \in Nat : n <= z => g[n] = f[n]}
  <1>4. 0 \in P
    <2>1. 0 \in 0..z /\ 0 \in 0..(z + 1)
      BY <1>1
    <2> QED BY <1>2, <1>p, <2>1 DEF KeptSoFar
  <1>5. ASSUME NEW n \in Nat, n \in P PROVE n + 1 \in P
    <2> SUFFICES ASSUME n + 1 <= z PROVE g[n + 1] = f[n + 1]
      OBVIOUS
    <2>1. /\ n + 1 \in 0..z /\ n + 1 \in 0..(z + 1) /\ n + 1 # 0
          /\ n + 1 \in 1..z /\ (n + 1) - 1 = n
      BY <1>1
    <2>2. g[n] = f[n] /\ u[n + 1] = s[n + 1]
      BY <1>1, <1>5, <2>1
    <2>3. f[n + 1] = IF s[n + 1] \in T THEN Append(f[n], s[n + 1]) ELSE f[n]
      BY <1>2, <2>1 DEF KeptSoFar
    <2>4. g[n + 1] = IF u[n + 1] \in T THEN Append(g[n], u[n + 1]) ELSE g[n]
      BY <1>p, <2>1 DEF KeptSoFar
    <2> QED BY <2>2, <2>3, <2>4
  <1> HIDE DEF P
  <1>6. Nat \subseteq P
    BY <1>4, <1>5, SetInduction
  <1>7. g[z] = f[z]
    BY <1>1, <1>6 DEF P
  <1>8. g[z + 1] = IF u[z + 1] \in T THEN Append(g[z], u[z + 1]) ELSE g[z]
    <2>1. z + 1 \in 0..(z + 1) /\ z + 1 # 0 /\ (z + 1) - 1 = z
      BY <1>1
    <2> QED BY <1>p, <2>1 DEF KeptSoFar
  <1> QED BY <1>1, <1>2, <1>3, <1>7, <1>8 DEF u

LEMMA KeepInSeq ==
  ASSUME NEW S, NEW T, NEW s \in Seq(S)
  PROVE  Keep(s, T) \in Seq(S)
  <1> DEFINE P == {t \in Seq(S) : Keep(t, T) \in Seq(S)}
  <1>1. <<>> \in P
    <2>1. Keep(<<>>, T) = <<>>
      BY KeepEmpty
    <2>2. <<>> \in Seq(S)
      OBVIOUS
    <2> QED BY <2>1, <2>2
  <1>2. ASSUME NEW t \in Seq(S), NEW x \in S, t \in P PROVE Append(t, x) \in P
    <2>1. Keep(Append(t, x), T) = Keep(t, T) \/
          Keep(Append(t, x), T) = Append(Keep(t, T), x)
      BY KeepAppend
    <2>2. Keep(t, T) \in Seq(S) /\ Append(t, x) \in Seq(S)
      BY <1>2
    <2>3. Append(Keep(t, T), x) \in Seq(S)
      BY <2>2
    <2> QED BY <2>1, <2>2, <2>3
  <1> HIDE DEF P
  <1>3. Seq(S) \subseteq P
    BY <1>1, <1>2, SequenceInduction
  <1> QED BY <1>3 DEF P

\* Keep keeps the elements of T and no others, and repeats none.
LEMMA KeepElements ==
  ASSUME NEW S, NEW T, NEW s \in Seq(S)
  PROVE  /\ ToSet(Keep(s, T)) = ToSet(s) \cap T
         /\ Distinct(s) => Distinct(Keep(s, T))
  <1> DEFINE P == {t \in Seq(S) : /\ ToSet(Keep(t, T)) = ToSet(t) \cap T
                                  /\ Distinct(t) => Distinct(Keep(t, T))}
  <1>1. <<>> \in P
    <2>1. ToSet(<<>>) = {} /\ Distinct(<<>>) /\ Keep(<<>>, T) = <<>>
      BY KeepEmpty DEF ToSet, Distinct
    <2> QED BY <2>1
  <1>2. ASSUME NEW t \in Seq(S), NEW x \in S, t \in P PROVE Append(t, x) \in P
    <2> DEFINE u == Append(t, x)  k == Keep(t, T)
    <2>1. u \in Seq(S) /\ k \in Seq(S)
      BY KeepInSeq
    <2>2. ToSet(k) = ToSet(t) \cap T /\ (Distinct(t) => Distinct(k))
      BY <1>2
    <2>3. ToSet(u) = ToSet(t) \cup {x}
      BY DistinctAppend
    <2>4. Distinct(u) => Distinct(t) /\ x \notin ToSet(t)
      <3>1. /\ DOMAIN u = DOMAIN t \cup {Len(t) + 1} /\ Len(t) + 1 \notin DOMAIN t
            /\ \A j \in DOMAIN t : u[j] = t[j]
            /\ u[Len(t) + 1] = x
        OBVIOUS
      <3> HIDE DEF u
      <3> QED BY <3>1 DEF Distinct, ToSet
    <2>5. CASE x \in T
      <3>1. Keep(u, T) = Append(k, x)
        BY <2>5, KeepAppend
      <3>2. /\ ToSet(Append(k, x)) = ToSet(k) \cup {x}
            /\ Distinct(k) /\ x \notin ToSet(k) => Distinct(Append(k, x))
        BY <2>1, DistinctAppend
      <3> HIDE DEF u, k
      <3> QED BY <2>1, <2>2, <2>3, <2>4, <2>5, <3>1, <3>2 DEF u
    <2>6. CASE x \notin T
      <3>1. Keep(u, T) = k
        BY <2>6, KeepAppend
      <3> HIDE DEF u, k
      <3> QED BY <2>1, <2>2, <2>3, <2>4, <2>6, <3>1 DEF u
    <2> QED BY <2>5, <2>6
  <1> HIDE DEF P
  <1>3. Seq(S) \subseteq P
    BY <1>1, <1>2, SequenceInduction
  <1> QED BY <1>3 DEF P

\* Keep works element by element.
LEMMA KeepConcat ==
  ASSUME NEW S, NEW T, NEW s \in Seq(S), NEW t \in Seq(S)
  PROVE  Keep(s \o t, T) = Keep(s, T) \o Keep(t, T)
  <1> DEFINE P == {u \in Seq(S) : Keep(s \o u, T) = Keep(s, T) \o Keep(u, T)}
             k == Keep(s, T)
  <1>k. k \in Seq(S)
    BY KeepInSeq
  <1>e. \A q \in Seq(S) : q \o <<>> = q
    OBVIOUS
  <1>1. <<>> \in P
    <2>1. Keep(<<>>, T) = <<>> /\ s \o <<>> = s
      BY <1>e, KeepEmpty
    <2>2. k \o <<>> = k
      BY <1>e, <1>k
    <2>3. Keep(s \o <<>>, T) = k \o Keep(<<>>, T)
      BY <2>1, <2>2
    <2>4. <<>> \in Seq(S)
      OBVIOUS
    <2> QED BY <2>3, <2>4
  <1>2. ASSUME NEW u \in Seq(S), NEW x \in S, u \in P PROVE Append(u, x) \in P
    <2> DEFINE l == Keep(u, T)  v == s \o u
    <2>1. s \o Append(u, x) = Append(v, x) /\ v \in Seq(S)
      OBVIOUS
    <2>2. Keep(v, T) = k \o l
      BY <1>2
    <2>3. l \in Seq(S)
      BY KeepInSeq
    <2> HIDE DEF k, l, v
    <2>4. Append(k \o l, x) = k \o Append(l, x)
      <3>1. k \o l \in Seq(S) /\ <<x>> \in Seq(S)
        BY <1>k, <1>2, <2>3
      <3>2. Append(k \o l, x) = (k \o l) \o <<x>> /\ Append(l, x) = l \o <<x>>
        BY <1>2, <2>3, <3>1, AppendIsConcat
      <3>3. (k \o l) \o <<x>> = k \o (l \o <<x>>)
        BY <1>k, <2>3, <3>1, ConcatAssociative, SMTT(30)
      <3> QED BY <3>2, <3>3
    <2>5. Keep(Append(v, x), T) = IF x \in T THEN Append(k \o l, x) ELSE k \o l
      BY <2>1, <2>2, KeepAppend, SMTT(30)
    <2>6. Keep(Append(u, x), T) = IF x \in T THEN Append(l, x) ELSE l
      BY KeepAppend DEF l
    <2>7. Keep(s \o Append(u, x), T) = k \o Keep(Append(u, x), T)
      BY <2>1, <2>4, <2>5, <2>6
    <2> QED BY <2>7 DEF k
  <1> HIDE DEF P
  <1>3. Seq(S) \subseteq P
    BY <1>1, <1>2, SequenceInduction
  <1> QED BY <1>3 DEF P

LEMMA KeepAll ==
  ASSUME NEW S, NEW T, NEW s \in Seq(S), ToSet(s) \subseteq T
  PROVE  Keep(s, T) = s
  <1> DEFINE P == {u \in Seq(S) : ToSet(u) \subseteq T => Keep(u, T) = u}
  <1>1. <<>> \in P
    <2>1. Keep(<<>>, T) = <<>>
      BY KeepEmpty
    <2> QED BY <2>1
  <1>2. ASSUME NEW u \in Seq(S), NEW x \in S, u \in P PROVE Append(u, x) \in P
    <2>1. ToSet(Append(u, x)) = ToSet(u) \cup {x}
      BY DistinctAppend
    <2>2. Keep(Append(u, x), T) = IF x \in T THEN Append(Keep(u, T), x) ELSE Keep(u, T)
      BY KeepAppend
    <2>3. Append(u, x) \in Seq(S)
      OBVIOUS
    <2>4. ToSet(Append(u, x)) \subseteq T => Keep(Append(u, x), T) = Append(u, x)
      BY <1>2, <2>1, <2>2
    <2> QED BY <2>3, <2>4
  <1> HIDE DEF P
  <1>3. Seq(S) \subseteq P
    BY <1>1, <1>2, SequenceInduction
  <1> QED BY <1>3 DEF P

\* The first element stays the first, if it is kept.
LEMMA KeepHead ==
  ASSUME NEW S, NEW T, NEW s \in Seq(S), s # <<>>, Head(s) \in T
  PROVE  Head(Keep(s, T)) = Head(s)
  <1> DEFINE h == <<Head(s)>>  t == Tail(s)
  <1>1. h \in Seq(S) /\ t \in Seq(S) /\ s = h \o t /\ ToSet(h) \subseteq T
    <2>1. h \in Seq(S) /\ t \in Seq(S) /\ s = h \o t
      OBVIOUS
    <2>2. DOMAIN h = {1} /\ h[1] = Head(s)
      OBVIOUS
    <2> HIDE DEF h
    <2>3. ToSet(h) = {Head(s)}
      BY <2>2 DEF ToSet
    <2> QED BY <2>1, <2>3
  <1>2. Keep(h, T) = h /\ Keep(t, T) \in Seq(S)
    BY <1>1, KeepAll, KeepInSeq
  <1>3. \A u \in Seq(S) : Head(h \o u) = Head(s)
    OBVIOUS
  <1> HIDE DEF h, t
  <1>4. Keep(h \o t, T) = Keep(h, T) \o Keep(t, T)
    BY <1>1, KeepConcat
  <1> QED BY <1>1, <1>2, <1>3, <1>4

\* k is a subsequence of t: its elements stand at increasing places of t.
Sub(k, t) == \E f \in [1..Len(k) -> 1..Len(t)] :
               /\ \A i, j \in 1..Len(k) : i < j => f[i] < f[j]
               /\ \A i \in 1..Len(k) : k[i] = t[f[i]]

LEMMA KeepPlaces ==
  ASSUME NEW S, NEW T, NEW s \in Seq(S)
  PROVE  Sub(Keep(s, T), s)
  <1> DEFINE P == {t \in Seq(S) : Sub(Keep(t, T), t)}
  <1>1. <<>> \in P
    <2>1. Keep(<<>>, T) = <<>>
      BY KeepEmpty
    <2>2. Sub(<<>>, <<>>)
      <3>1. 1..Len(<<>>) = {}
        OBVIOUS
      <3>2. [i \in {} |-> i] \in [1..Len(<<>>) -> 1..Len(<<>>)]
        BY <3>1
      <3> QED BY <3>1, <3>2 DEF Sub
    <2>3. <<>> \in Seq(S)
      OBVIOUS
    <2> QED BY <2>1, <2>2, <2>3
  <1>2. ASSUME NEW t \in Seq(S), NEW x \in S, t \in P PROVE Append(t, x) \in P
    <2> DEFINE u == Append(t, x)  k == Keep(t, T)
    <2>1. k \in Seq(S) /\ u \in Seq(S)
      BY KeepInSeq
    <2>2. PICK f \in [1..Len(k) -> 1..Len(t)] :
            /\ \A i, j \in 1..Len(k) : i < j => f[i] < f[j]
            /\ \A i \in 1..Len(k) : k[i] = t[f[i]]
      <3>1. Sub(k, t)
        BY <1>2
      <3> HIDE DEF k
      <3> QED BY <3>1 DEF Sub
    <2> DEFINE y == Len(k)  z == Len(t)
    <2>3. /\ y \in Nat /\ z \in Nat /\ Len(u) = z + 1 /\ u[z + 1] = x
          /\ \A i \in 1..z : u[i] = t[i]
      BY <2>1
    <2>k. Keep(u, T) = IF x \in T THEN Append(k, x) ELSE k
      BY KeepAppend
    <2>4. CASE x \notin T
      <3>1. Keep(u, T) = k
        BY <2>4, <2>k
      <3> HIDE DEF u, k
      <3> HIDE DEF y, z
      <3>2. f \in [1..Len(k) -> 1..Len(u)] /\ \A i \in 1..Len(k) : k[i] = u[f[i]]
        <4>1. f \in [1..Len(k) -> 1..z] /\ \A i \in 1..Len(k) : k[i] = t[f[i]]
          BY <2>2 DEF z
        <4>2. 1..z \subseteq 1..Len(u)
          BY <2>3
        <4>3. \A i \in 1..Len(k) : u[f[i]] = t[f[i]]
          BY <2>3, <4>1
        <4> QED BY <4>1, <4>2, <4>3
      <3>3. Sub(k, u)
        BY <2>2, <3>2 DEF Sub
      <3> QED BY <2>1, <3>1, <3>3 DEF u
    <2>5. CASE x \in T
      <3> DEFINE l == Append(k, x)
                 g == [i \in 1..(y + 1) |-> IF i <= y THEN f[i] ELSE z + 1]
      <3>1. /\ Keep(u, T) = l /\ Len(l) = y + 1 /\ l[y + 1] = x
            /\ \A i \in 1..y : l[i] = k[i]
        BY <2>1, <2>5, <2>k
      <3> HIDE DEF u, k, l, y, z
      <3>2. \A i \in 1..y : f[i] \in 1..z
        BY <2>2 DEF y, z
      <3>3. g \in [1..(y + 1) -> 1..(z + 1)]
        BY <2>3, <3>2
      <3>4. ASSUME NEW i \in 1..(y + 1), NEW j \in 1..(y + 1), i < j
            PROVE  g[i] < g[j]
        <4>1. i \in 1..y /\ g[i] = f[i] /\ f[i] \in 1..z
          BY <2>3, <3>2, <3>4
        <4>2. CASE j <= y
          BY <2>2, <2>3, <3>4, <4>1, <4>2 DEF y
        <4>3. CASE ~(j <= y)
          BY <2>3, <3>4, <4>1, <4>3
        <4> QED BY <4>2, <4>3
      <3>5. ASSUME NEW i \in 1..(y + 1) PROVE l[i] = u[g[i]]
        <4>1. CASE i <= y
          <5>1. i \in 1..y /\ g[i] = f[i] /\ f[i] \in 1..z
            BY <2>3, <3>2, <3>5, <4>1
          <5>2. l[i] = t[f[i]]
            BY <2>2, <3>1, <5>1 DEF y
          <5> QED BY <2>3, <5>1, <5>2
        <4>2. CASE ~(i <= y)
          BY <2>3, <3>1, <3>5, <4>2
        <4> QED BY <4>1, <4>2
      <3>6. Sub(l, u)
        <4>1. g \in [1..Len(l) -> 1..Len(u)]
          BY <2>3, <3>1, <3>3
        <4> QED BY <3>1, <3>4, <3>5, <4>1 DEF Sub
      <3> QED BY <2>1, <3>1, <3>6 DEF u
    <2> QED BY <2>4, <2>5
  <1> HIDE DEF P
  <1>3. Seq(S) \subseteq P
    BY <1>1, <1>2, SequenceInduction
  <1> QED BY <1>3 DEF P

LEMMA ConcatElements ==
  ASSUME NEW S, NEW s \in Seq(S), NEW t \in Seq(S)
  PROVE  /\ ToSet(s \o t) = ToSet(s) \cup ToSet(t)
         /\ Distinct(s \o t) <=>
              Distinct(s) /\ Distinct(t) /\ ToSet(s) \cap ToSet(t) = {}
  <1> DEFINE u == s \o t  y == Len(s)  z == Len(t)
  <1>1. /\ DOMAIN u = 1..(y + z) /\ DOMAIN s = 1..y /\ DOMAIN t = 1..z
        /\ y \in Nat /\ z \in Nat
        /\ \A i \in 1..y : u[i] = s[i]
        /\ \A i \in 1..z : u[i + y] = t[i]
    OBVIOUS
  <1> HIDE DEF u, y, z
  <1>2. /\ \A i \in 1..y : i \in 1..(y + z)
        /\ \A i \in 1..z : i + y \in 1..(y + z) /\ i + y \notin 1..y
        /\ \A i \in 1..(y + z) : i \notin 1..y => i - y \in 1..z /\ (i - y) + y = i
        /\ \A i, j \in 1..z : i + y = j + y => i = j
        /\ \A i, j \in 1..(y + z) : i - y = j - y => i = j
    BY <1>1
  <1>3. ToSet(u) = ToSet(s) \cup ToSet(t)
    <2>1. ASSUME NEW i \in 1..(y + z) PROVE u[i] \in ToSet(s) \cup ToSet(t)
      <3>1. CASE i \in 1..y
        BY <1>1, <3>1 DEF ToSet
      <3>2. CASE i \notin 1..y
        <4>1. i - y \in 1..z /\ u[i] = t[i - y]
          BY <1>1, <1>2, <3>2
        <4> QED BY <1>1, <4>1 DEF ToSet
      <3> QED BY <3>1, <3>2
    <2>2. ToSet(s) \subseteq ToSet(u)
      BY <1>1, <1>2 DEF ToSet
    <2>3. ToSet(t) \subseteq ToSet(u)
      BY <1>1, <1>2 DEF ToSet
    <2>4. ToSet(u) \subseteq ToSet(s) \cup ToSet(t)
      BY <1>1, <2>1 DEF ToSet
    <2> QED BY <2>2, <2>3, <2>4
  <1>4. ASSUME Distinct(u)
        PROVE  Distinct(s) /\ Distinct(t) /\ ToSet(s) \cap ToSet(t) = {}
    <2>1. Distinct(s)
      BY <1>1, <1>2, <1>4 DEF Distinct
    <2>2. ASSUME NEW i \in 1..z, NEW j \in 1..z, t[i] = t[j] PROVE i = j
      <3>1. /\ i + y \in DOMAIN u /\ u[i + y] = t[i]
            /\ j + y \in DOMAIN u /\ u[j + y] = t[j]
        BY <1>1, <1>2
      <3>2. i + y = j + y
        BY <1>4, <2>2, <3>1 DEF Distinct
      <3> QED BY <1>2, <3>2
    <2>3. ASSUME NEW i \in 1..y, NEW j \in 1..z PROVE s[i] # t[j]
      <3>1. /\ i \in DOMAIN u /\ j + y \in DOMAIN u /\ i # j + y
            /\ u[i] = s[i] /\ u[j + y] = t[j]
        BY <1>1, <1>2
      <3> QED BY <1>4, <3>1 DEF Distinct
    <2>4. ToSet(s) \cap ToSet(t) = {}
      BY <1>1, <2>3 DEF ToSet
    <2> QED BY <1>1, <2>1, <2>2, <2>4 DEF Distinct
  <1>5. ASSUME Distinct(s), Distinct(t), ToSet(s) \cap ToSet(t) = {}
        PROVE  Distinct(u)
    <2> SUFFICES ASSUME NEW i \in 1..(y + z), NEW j \in 1..(y + z), u[i] = u[j]
                 PROVE  i = j
      BY <1>1 DEF Distinct
    <2>1. CASE i \in 1..y /\ j \in 1..y
      BY <1>1, <1>5, <2>1 DEF Distinct
    <2>2. CASE i \notin 1..y /\ j \notin 1..y
      <3>1. /\ i - y \in 1..z /\ u[i] = t[i - y] /\ j - y \in 1..z
            /\ u[j] = t[j - y]
        BY <1>1, <1>2, <2>2
      <3>2. i - y = j - y
        BY <1>1, <1>5, <3>1 DEF Distinct
      <3> QED BY <1>2, <3>2
    <2>3. CASE i \in 1..y /\ j \notin 1..y
      <3>1. u[i] = s[i] /\ j - y \in 1..z /\ u[j] = t[j - y]
        BY <1>1, <1>2, <2>3
      <3> QED BY <1>1, <1>5, <2>3, <3>1 DEF ToSet
    <2>4. CASE i \notin 1..y /\ j \in 1..y
      <3>1. u[j] = s[j] /\ i - y \in 1..z /\ u[i] = t[i - y]
        BY <1>1, <1>2, <2>4
      <3> QED BY <1>1, <1>5, <2>4, <3>1 DEF ToSet
    <2> QED BY <2>1, <2>2, <2>3, <2>4
  <1> QED BY <1>3, <1>4, <1>5 DEF u

----------------------------------------------------------------------------
(* The first and the last place of a set of places. *)

LEMMA MinOfPlaces ==
  ASSUME NEW I, I \subseteq Nat, I # {}
  PROVE  Min(I) \in I /\ \A i \in I : Min(I) <= i
  <1> DEFINE R == OpToRel(<, Nat)
  <1>1. \A x, y \in Nat : <<x, y>> \in R <=> x < y
    BY DEF OpToRel
  <1>2. IsWellFoundedOn(R, Nat)
    BY NatLessThanWellFounded
  <1> HIDE DEF R
  <1>3. PICK x \in I : \A y \in I : ~ (<<y, x>> \in R)
    BY <1>2, WFMin
  <1>4. ASSUME NEW y \in I PROVE x <= y
    <2>1. x \in Nat /\ y \in Nat /\ ~(y < x)
      BY <1>1, <1>3
    <2> QED BY <2>1
  <1> QED BY <1>3, <1>4 DEF Min

LEMMA MaxOfPlaces ==
  ASSUME NEW n \in Nat, NEW I, I \subseteq 0..n, I # {}
  PROVE  Max(I) \in I /\ \A i \in I : i <= Max(I)
  <1> DEFINE J == {n - i : i \in I}
  <1>1. J \subseteq Nat /\ J # {}
    OBVIOUS
  <1>2. Min(J) \in J /\ \A j \in J : Min(J) <= j
    BY <1>1, MinOfPlaces
  <1>3. PICK x \in I : Min(J) = n - x
    BY <1>2
  <1>4. ASSUME NEW i \in I PROVE i <= x
    <2>1. n - i \in J /\ i \in Nat /\ x \in Nat
      OBVIOUS
    <2> HIDE DEF J
    <2>2. n - x <= n - i
      BY <1>2, <1>3, <2>1
    <2> QED BY <2>1, <2>2
  <1>5. \A i \in I : x >= i
    BY <1>4
  <1>6. PICK y \in I : \A i \in I : y >= i
    BY <1>5
  <1>7. Max(I) \in I /\ \A i \in I : Max(I) >= i
    BY <1>6 DEF Max
  <1> QED BY <1>7

\* Only the elements of the sequence count in the set.
LEMMA KeepSame ==
  ASSUME NEW S, NEW T, NEW U, NEW s \in Seq(S), ToSet(s) \cap T = ToSet(s) \cap U
  PROVE  Keep(s, T) = Keep(s, U)
  <1> DEFINE P == {t \in Seq(S) : ToSet(t) \cap T = ToSet(t) \cap U =>
                                  Keep(t, T) = Keep(t, U)}
  <1>1. <<>> \in P
    <2>1. Keep(<<>>, T) = <<>> /\ Keep(<<>>, U) = <<>> /\ <<>> \in Seq(S)
      BY KeepEmpty
    <2> QED BY <2>1
  <1>2. ASSUME NEW t \in Seq(S), NEW x \in S, t \in P PROVE Append(t, x) \in P
    <2>1. Append(t, x) \in Seq(S) /\ ToSet(Append(t, x)) = ToSet(t) \cup {x}
      BY DistinctAppend
    <2>2. /\ Keep(Append(t, x), T) = IF x \in T THEN Append(Keep(t, T), x) ELSE Keep(t, T)
          /\ Keep(Append(t, x), U) = IF x \in U THEN Append(Keep(t, U), x) ELSE Keep(t, U)
      BY KeepAppend
    <2>3. ASSUME ToSet(Append(t, x)) \cap T = ToSet(Append(t, x)) \cap U
          PROVE  Keep(Append(t, x), T) = Keep(Append(t, x), U)
      <3>1. (x \in T <=> x \in U) /\ ToSet(t) \cap T = ToSet(t) \cap U
        BY <2>1, <2>3
      <3>2. Keep(t, T) = Keep(t, U)
        BY <1>2, <3>1
      <3> QED BY <2>2, <3>1, <3>2
    <2> QED BY <2>1, <2>3
  <1>3. Seq(S) \subseteq P
    <2> HIDE DEF P
    <2> QED BY <1>1, <1>2, SequenceInduction
  <1> QED BY <1>3 DEF P

LEMMA KeepNone ==
  ASSUME NEW S, NEW T, NEW s \in Seq(S), ToSet(s) \cap T = {}
  PROVE  Keep(s, T) = <<>>
  <1>1. Keep(s, T) \in Seq(S) /\ ToSet(Keep(s, T)) = {}
    BY KeepInSeq, KeepElements
  <1> DEFINE k == Keep(s, T)
  <1> HIDE DEF k
  <1>2. k \in Seq(S) /\ ToSet(k) = {}
    BY <1>1 DEF k
  <1>3. DOMAIN k = 1..Len(k) /\ Len(k) \in Nat /\ \A i \in DOMAIN k : k[i] \in ToSet(k)
    BY <1>2 DEF ToSet
  <1>4. 1 \notin 1..Len(k)
    BY <1>2, <1>3
  <1>5. k = <<>>
    BY <1>2, <1>3, <1>4
  <1> QED BY <1>5 DEF k

LEMMA KeepTwice ==
  ASSUME NEW S, NEW T, NEW U, NEW s \in Seq(S)
  PROVE  Keep(Keep(s, T), U) = Keep(s, T \cap U)
  <1> DEFINE P == {t \in Seq(S) : Keep(Keep(t, T), U) = Keep(t, T \cap U)}
  <1>1. <<>> \in P
    <2>1. /\ Keep(<<>>, T) = <<>> /\ Keep(<<>>, U) = <<>> /\ Keep(<<>>, T \cap U) = <<>>
          /\ <<>> \in Seq(S)
      BY KeepEmpty
    <2> QED BY <2>1
  <1>2. ASSUME NEW t \in Seq(S), NEW x \in S, t \in P PROVE Append(t, x) \in P
    <2>1. Append(t, x) \in Seq(S) /\ Keep(t, T) \in Seq(S)
      BY KeepInSeq
    <2>2. /\ Keep(Append(t, x), T) = IF x \in T THEN Append(Keep(t, T), x) ELSE Keep(t, T)
          /\ Keep(Append(t, x), T \cap U)
               = IF x \in T \cap U THEN Append(Keep(t, T \cap U), x) ELSE Keep(t, T \cap U)
          /\ Keep(Append(Keep(t, T), x), U)
               = IF x \in U THEN Append(Keep(Keep(t, T), U), x) ELSE Keep(Keep(t, T), U)
      BY <2>1, KeepAppend
    <2>3. Keep(Keep(t, T), U) = Keep(t, T \cap U)
      BY <1>2
    <2>4. Keep(Keep(Append(t, x), T), U) = Keep(Append(t, x), T \cap U)
      <3>1. CASE x \in T
        <4>1. x \in T \cap U <=> x \in U
          BY <3>1
        <4> QED BY <2>2, <2>3, <3>1, <4>1
      <3>2. CASE x \notin T
        BY <2>2, <2>3, <3>2
      <3> QED BY <3>1, <3>2
    <2> QED BY <2>1, <2>4
  <1>3. Seq(S) \subseteq P
    <2> HIDE DEF P
    <2> QED BY <1>1, <1>2, SequenceInduction
  <1> QED BY <1>3 DEF P

\* What the elements of a subsequence filter out of the sequence is itself.
LEMMA KeepAgain ==
  ASSUME NEW S, NEW T, NEW s \in Seq(S)
  PROVE  Keep(s, ToSet(Keep(s, T))) = Keep(s, T)
  <1>1. ToSet(Keep(s, T)) = ToSet(s) \cap T
    BY KeepElements
  <1>2. ToSet(s) \cap ToSet(Keep(s, T)) = ToSet(s) \cap T
    BY <1>1
  <1> QED BY <1>2, KeepSame

-----------------------------------------------------------------------------
\* A sequence is the function of its elements.
LEMMA SequenceIsFunction ==
  ASSUME NEW S, NEW s \in Seq(S)
  PROVE  s = [k \in DOMAIN s |-> s[k]]
  OBVIOUS

\* An element more.
LEMMA AppendParts ==
  ASSUME NEW S, NEW s \in Seq(S), NEW x \in S
  PROVE  /\ Append(s, x) \in Seq(S) /\ Append(s, x) # <<>>
         /\ Len(s) \in Nat /\ Len(Append(s, x)) = Len(s) + 1
         /\ DOMAIN s = 1..Len(s) /\ DOMAIN Append(s, x) = 1..(Len(s) + 1)
         /\ Append(s, x)[Len(s) + 1] = x
         /\ \A k \in 1..Len(s) : Append(s, x)[k] = s[k]
         /\ Append(s, x) = [k \in 1..(Len(s) + 1) |-> IF k = Len(s) + 1 THEN x ELSE s[k]]
  <1> DEFINE n == Len(s)  t == Append(s, x)
  <1>1. /\ t \in Seq(S) /\ t # <<>> /\ n \in Nat /\ Len(t) = n + 1
        /\ DOMAIN s = 1..n /\ DOMAIN t = 1..(n + 1)
        /\ t[n + 1] = x /\ \A k \in 1..n : t[k] = s[k]
    OBVIOUS
  <1>2. t = [k \in DOMAIN t |-> t[k]]
    <2> HIDE DEF t
    <2> QED BY <1>1, SequenceIsFunction
  <1> HIDE DEF t, n
  <1>3. \A k \in 1..(n + 1) : k # n + 1 => k \in 1..n
    BY <1>1
  <1>4. t = [k \in 1..(n + 1) |-> IF k = n + 1 THEN x ELSE s[k]]
    BY <1>1, <1>2, <1>3
  <1> QED BY <1>1, <1>4 DEF t, n

\* The parts of a concatenation.
LEMMA JoinedParts ==
  ASSUME NEW S, NEW s \in Seq(S), NEW t \in Seq(S)
  PROVE  /\ s \o t \in Seq(S) /\ Len(s) \in Nat /\ Len(t) \in Nat
         /\ Len(s \o t) = Len(s) + Len(t) /\ DOMAIN (s \o t) = 1..(Len(s) + Len(t))
         /\ \A k \in 1..Len(s) : (s \o t)[k] = s[k]
         /\ \A k \in 1..Len(t) : (s \o t)[Len(s) + k] = t[k]
  <1>1. s \o t \in Seq(S) /\ Len(s) \in Nat /\ Len(t) \in Nat
    OBVIOUS
  <1>2. Len(s \o t) = Len(s) + Len(t) /\ DOMAIN (s \o t) = 1..(Len(s) + Len(t))
    OBVIOUS
  <1>3. \A k \in 1..Len(s) : (s \o t)[k] = s[k]
    OBVIOUS
  <1>4. \A k \in 1..Len(t) : (s \o t)[Len(s) + k] = t[k]
    OBVIOUS
  <1> QED BY <1>1, <1>2, <1>3, <1>4

LEMMA AppendJoined ==
  ASSUME NEW S, NEW s \in Seq(S), NEW t \in Seq(S), NEW x \in S
  PROVE  s \o Append(t, x) = Append(s \o t, x)
  <1> DEFINE e == Append(t, x)  v == s \o e  c == s \o t  w == Append(c, x)
             a == Len(s)  b == Len(t)
  <1>1. /\ e \in Seq(S) /\ Len(e) = b + 1 /\ b \in Nat /\ e[b + 1] = x
        /\ \A k \in 1..b : e[k] = t[k]
    BY AppendParts
  <1> HIDE DEF e
  <1>2. /\ v \in Seq(S) /\ a \in Nat /\ DOMAIN v = 1..(a + (b + 1))
        /\ \A k \in 1..a : v[k] = s[k]
        /\ \A k \in 1..(b + 1) : v[a + k] = e[k]
    <2> HIDE DEF b
    <2>1. /\ v \in Seq(S) /\ a \in Nat /\ DOMAIN v = 1..(a + Len(e))
          /\ \A k \in 1..a : v[k] = s[k]
          /\ \A k \in 1..Len(e) : v[a + k] = e[k]
      BY <1>1, JoinedParts
    <2> HIDE DEF v, a
    <2> QED BY <1>1, <2>1
  <1>3. /\ c \in Seq(S) /\ Len(c) = a + b
        /\ \A k \in 1..a : c[k] = s[k]
        /\ \A k \in 1..b : c[a + k] = t[k]
    BY JoinedParts
  <1> HIDE DEF c
  <1>4. /\ w \in Seq(S) /\ DOMAIN w = 1..(Len(c) + 1) /\ w[Len(c) + 1] = x
        /\ \A k \in 1..Len(c) : w[k] = c[k]
    BY <1>3, AppendParts
  <1>5. v = [k \in DOMAIN v |-> v[k]] /\ w = [k \in DOMAIN w |-> w[k]]
    BY <1>2, <1>4, SequenceIsFunction
  <1> HIDE DEF v, w, a, b
  <1>6. /\ DOMAIN v = 1..((a + b) + 1) /\ DOMAIN w = 1..((a + b) + 1)
        /\ w[(a + b) + 1] = x /\ \A k \in 1..(a + b) : w[k] = c[k]
    BY <1>1, <1>2, <1>3, <1>4
  <1>7. ASSUME NEW k \in 1..((a + b) + 1) PROVE v[k] = w[k]
    <2>1. CASE k \in 1..a
      <3>1. k \in 1..(a + b)
        BY <1>1, <1>2, <2>1
      <3> QED BY <1>2, <1>3, <1>6, <2>1, <3>1
    <2>2. CASE k - a \in 1..b
      <3>1. k \in 1..(a + b) /\ k - a \in 1..(b + 1) /\ a + (k - a) = k
        BY <1>1, <1>2, <2>2
      <3>2. w[k] = t[k - a]
        BY <1>3, <1>6, <2>2, <3>1
      <3>3. v[k] = t[k - a]
        BY <1>1, <1>2, <2>2, <3>1
      <3> QED BY <3>2, <3>3
    <2>3. CASE k = (a + b) + 1
      <3>1. b + 1 \in 1..(b + 1) /\ a + (b + 1) = k
        BY <1>1, <1>2, <2>3
      <3>2. v[k] = x
        BY <1>1, <1>2, <3>1
      <3> QED BY <1>6, <2>3, <3>2
    <2>4. k \in 1..a \/ k - a \in 1..b \/ k = (a + b) + 1
      BY <1>1, <1>2
    <2> QED BY <2>1, <2>2, <2>3, <2>4
  <1>8. v = w
    BY <1>5, <1>6, <1>7
  <1> QED BY <1>8 DEF v, w, e, c

\* Another element in a place.
LEMMA ExceptParts ==
  ASSUME NEW S, NEW s \in Seq(S), NEW n \in DOMAIN s, NEW x \in S
  PROVE  /\ [s EXCEPT ![n] = x] \in Seq(S) /\ Len([s EXCEPT ![n] = x]) = Len(s)
         /\ DOMAIN [s EXCEPT ![n] = x] = DOMAIN s
         /\ [s EXCEPT ![n] = x][n] = x
         /\ \A k \in DOMAIN s : k # n => [s EXCEPT ![n] = x][k] = s[k]
  OBVIOUS

\* FlattenSeq, as its recursion builds it.
FlatSoFar(f, m, s) == f = [i \in 1..m |-> IF i = 1 THEN s[i] ELSE f[i - 1] \o s[i]]

\* A sequence with a last element is what comes before it and it.
LEMMA SplitLast ==
  ASSUME NEW S, NEW s \in Seq(S), s # <<>>
  PROVE  \E t \in Seq(S) : \E l \in S : s = Append(t, l)
  BY SequenceEmptyOrAppend

\* The recursion of FlattenSeq has a value for each number of sequences.
LEMMA FlatSoFarExists == \A s : \A m \in Nat : \E f : FlatSoFar(f, m, s)
  <1> SUFFICES ASSUME NEW s PROVE \A m \in Nat : \E f : FlatSoFar(f, m, s)
    OBVIOUS
  <1> DEFINE P == {m \in Nat : \E f : FlatSoFar(f, m, s)}
  <1>1. 0 \in P
    <2> DEFINE f == [i \in 1..0 |-> s[i]]
    <2>1. FlatSoFar(f, 0, s)
      BY DEF FlatSoFar
    <2> QED BY <2>1
  <1>2. ASSUME NEW m \in Nat, m \in P PROVE m + 1 \in P
    <2>1. PICK f : FlatSoFar(f, m, s)
      BY <1>2
    <2> DEFINE g == [i \in 1..(m + 1) |->
                       IF i <= m THEN f[i] ELSE IF i = 1 THEN s[i] ELSE f[i - 1] \o s[i]]
               h == [i \in 1..(m + 1) |-> IF i = 1 THEN s[i] ELSE g[i - 1] \o s[i]]
    <2>2. ASSUME NEW i \in 1..(m + 1) PROVE g[i] = h[i]
      <3>1. CASE i = 1
        <4>1. 1 <= m => f[1] = s[1]
          <5> SUFFICES ASSUME 1 <= m PROVE f[1] = s[1]
            OBVIOUS
          <5>1. 1 \in 1..m
            OBVIOUS
          <5> QED BY <2>1, <5>1 DEF FlatSoFar
        <4> QED BY <3>1, <4>1
      <3>2. CASE i # 1
        <4>1. i - 1 \in 1..m /\ g[i - 1] = f[i - 1]
          BY <3>2
        <4>2. h[i] = f[i - 1] \o s[i]
          BY <3>2, <4>1
        <4>3. CASE i <= m
          <5>1. i \in 1..m /\ g[i] = f[i]
            BY <4>3
          <5>2. f[i] = f[i - 1] \o s[i]
            BY <2>1, <3>2, <5>1 DEF FlatSoFar
          <5> QED BY <4>2, <5>1, <5>2
        <4>4. CASE ~(i <= m)
          BY <3>2, <4>2, <4>4
        <4> QED BY <4>3, <4>4
      <3> QED BY <3>1, <3>2
    <2>3. g = h
      BY <2>2
    <2>4. FlatSoFar(g, m + 1, s)
      BY <2>3 DEF FlatSoFar
    <2> QED BY <2>4
  <1> HIDE DEF P
  <1>3. Nat \subseteq P
    BY <1>1, <1>2, SetInduction
  <1> QED BY <1>3 DEF P

\* FlattenSeq is what its recursion builds.
LEMMA FlatByPrefixes ==
  ASSUME NEW S, NEW s \in Seq(S), s # <<>>
  PROVE  \E f : FlatSoFar(f, Len(s), s) /\ FlattenSeq(s) = f[Len(s)]
  <1> DEFINE f == CHOOSE g : FlatSoFar(g, Len(s), s)
  <1>1. Len(s) # 0 /\ Len(s) \in Nat
    OBVIOUS
  <1>2. FlattenSeq(s) = f[Len(s)]
    BY <1>1 DEF FlattenSeq, FlatSoFar
  <1>3. \E g : FlatSoFar(g, Len(s), s)
    BY <1>1, FlatSoFarExists
  <1>4. FlatSoFar(f, Len(s), s)
    BY <1>3
  <1> QED BY <1>2, <1>4

\* One sequence more.
LEMMA FlattenAppend ==
  ASSUME NEW S, NEW s \in Seq(Seq(S)), NEW x \in Seq(S)
  PROVE  FlattenSeq(Append(s, x)) = FlattenSeq(s) \o x
  <1> DEFINE u == Append(s, x)  z == Len(s)
  <1>1. /\ u \in Seq(Seq(S)) /\ u # <<>> /\ Len(u) = z + 1 /\ z \in Nat /\ u[z + 1] = x
        /\ \A n \in 1..z : u[n] = s[n]
    BY AppendParts
  <1>2. PICK g : FlatSoFar(g, Len(u), u) /\ FlattenSeq(u) = g[Len(u)]
    BY <1>1, FlatByPrefixes
  <1>p. FlatSoFar(g, z + 1, u)
    BY <1>1, <1>2
  <1> HIDE DEF u
  <1>3. CASE z = 0
    <2>1. s = <<>> /\ FlattenSeq(s) = s
      BY <1>3 DEF FlattenSeq
    <2>2. g[1] = u[1]
      <3>1. 1 \in 1..(z + 1)
        BY <1>3
      <3> QED BY <1>p, <3>1 DEF FlatSoFar
    <2> HIDE DEF z
    <2>3. FlattenSeq(u) = x
      BY <1>1, <1>2, <1>3, <2>2
    <2> QED BY <2>1, <2>3 DEF u
  <1>4. CASE z # 0
    <2>1. s # <<>>
      BY <1>4
    <2>2. PICK f : FlatSoFar(f, z, s) /\ FlattenSeq(s) = f[z]
      BY <2>1, FlatByPrefixes
    <2> HIDE DEF z
    <2> DEFINE P == {n \in Nat : n + 1 <= z => g[n + 1] = f[n + 1]}
    <2>3. 0 \in P
      <3>1. 1 \in 1..z /\ 1 \in 1..(z + 1)
        BY <1>1, <1>4
      <3>2. f[1] = s[1] /\ g[1] = u[1]
        BY <2>2, <1>p, <3>1 DEF FlatSoFar
      <3> QED BY <1>1, <3>1, <3>2
    <2>4. ASSUME NEW n \in Nat, n \in P PROVE n + 1 \in P
      <3> SUFFICES ASSUME (n + 1) + 1 <= z PROVE g[(n + 1) + 1] = f[(n + 1) + 1]
        OBVIOUS
      <3> DEFINE k == (n + 1) + 1
      <3>1. k \in 1..z /\ k \in 1..(z + 1) /\ k # 1 /\ k - 1 = n + 1 /\ n + 1 <= z
        BY <1>1
      <3> HIDE DEF k
      <3>2. f[k] = f[k - 1] \o s[k] /\ g[k] = g[k - 1] \o u[k]
        BY <2>2, <1>p, <3>1 DEF FlatSoFar
      <3>3. u[k] = s[k] /\ g[n + 1] = f[n + 1]
        BY <1>1, <2>4, <3>1
      <3>4. g[k] = f[k]
        BY <3>1, <3>2, <3>3
      <3> QED BY <3>4 DEF k
    <2> HIDE DEF P
    <2>5. Nat \subseteq P
      BY <2>3, <2>4, SetInduction
    <2>6. g[z] = f[z]
      <3>1. z - 1 \in Nat /\ (z - 1) + 1 = z /\ z <= z
        BY <1>1, <1>4
      <3>2. z - 1 \in P
        BY <2>5, <3>1
      <3> QED BY <3>1, <3>2 DEF P
    <2>7. g[z + 1] = g[z] \o u[z + 1]
      <3>1. z + 1 \in 1..(z + 1) /\ z + 1 # 1 /\ (z + 1) - 1 = z
        BY <1>1, <1>4
      <3> QED BY <1>p, <3>1 DEF FlatSoFar
    <2> QED BY <1>1, <1>2, <2>2, <2>6, <2>7 DEF u
  <1> QED BY <1>3, <1>4

\* Sequences of a set flatten to one of it.
LEMMA FlattenInSeq ==
  ASSUME NEW S, NEW s \in Seq(Seq(S))
  PROVE  FlattenSeq(s) \in Seq(S)
  <1> DEFINE P == {t \in Seq(Seq(S)) : FlattenSeq(t) \in Seq(S)}
  <1>1. <<>> \in P
    BY DEF FlattenSeq
  <1>2. ASSUME NEW t \in Seq(Seq(S)), NEW x \in Seq(S), t \in P PROVE Append(t, x) \in P
    <2>1. FlattenSeq(Append(t, x)) = FlattenSeq(t) \o x
      BY FlattenAppend
    <2>2. FlattenSeq(t) \in Seq(S)
      BY <1>2
    <2> HIDE DEF P
    <2>3. FlattenSeq(t) \o x \in Seq(S)
      BY <2>2
    <2>4. Append(t, x) \in Seq(Seq(S))
      BY AppendParts
    <2> QED BY <2>1, <2>3, <2>4 DEF P
  <1> HIDE DEF P
  <1>3. Seq(Seq(S)) \subseteq P
    BY <1>1, <1>2, SequenceInduction
  <1> QED BY <1>3 DEF P

\* More at the end of the last sequence is more at the end of them all.
LEMMA FlattenLonger ==
  ASSUME NEW S, NEW t \in Seq(Seq(S)), NEW l \in Seq(S), NEW x \in S
  PROVE  FlattenSeq(Append(t, Append(l, x))) = Append(FlattenSeq(Append(t, l)), x)
  <1> DEFINE f == FlattenSeq(t)  m == Append(l, x)  u == Append(t, m)  v == Append(t, l)
  <1>1. m \in Seq(S)
    BY AppendParts
  <1> HIDE DEF m
  <1>2. f \in Seq(S) /\ FlattenSeq(u) = f \o m /\ FlattenSeq(v) = f \o l
    BY <1>1, FlattenInSeq, FlattenAppend
  <1> HIDE DEF f, u, v
  <1>3. f \o m = Append(f \o l, x)
    BY <1>2, AppendJoined DEF m
  <1>4. FlattenSeq(u) = Append(FlattenSeq(v), x)
    BY <1>2, <1>3, Zenon
  <1> QED BY <1>4 DEF u, v, m

LEMMA FlattenLast ==
  ASSUME NEW S, NEW s \in Seq(Seq(S)), s # <<>>
  PROVE  \A x \in S, u \in Seq(Seq(S)) :
           /\ Len(u) = Len(s) /\ u[Len(s)] = Append(s[Len(s)], x)
           /\ \A k \in 1..(Len(s) - 1) : u[k] = s[k]
           => FlattenSeq(u) = Append(FlattenSeq(s), x)
  <1>0. PICK t \in Seq(Seq(S)) : \E l \in Seq(S) : s = Append(t, l)
    BY SplitLast
  <1>1. PICK l \in Seq(S) : s = Append(t, l)
    BY <1>0
  <1> SUFFICES ASSUME NEW x \in S, NEW u \in Seq(Seq(S)),
                      Len(u) = Len(s), u[Len(s)] = Append(s[Len(s)], x),
                      \A k \in 1..(Len(s) - 1) : u[k] = s[k]
               PROVE  FlattenSeq(u) = Append(FlattenSeq(s), x)
    OBVIOUS
  <1> DEFINE Q == Seq(S)
  <1>2. /\ Len(t) \in Nat /\ Len(s) = Len(t) + 1 /\ s[Len(s)] = l
        /\ \A k \in 1..Len(t) : s[k] = t[k]
    <2> HIDE DEF Q
    <2> QED BY <1>1, AppendParts
  <1>3. u = Append(t, Append(l, x))
    <2> DEFINE m == Append(l, x)
    <2>1. m \in Q
      BY <1>1, AppendParts
    <2>t. t \in Seq(Q)
      OBVIOUS
    <2> HIDE DEF m, Q
    <2>2. /\ Append(t, m) \in Seq(Q) /\ DOMAIN Append(t, m) = 1..(Len(t) + 1)
          /\ Append(t, m)[Len(t) + 1] = m /\ \A k \in 1..Len(t) : Append(t, m)[k] = t[k]
      BY <2>1, <2>t, AppendParts
    <2>3. u = [k \in DOMAIN u |-> u[k]] /\ Append(t, m) = [k \in DOMAIN u |-> Append(t, m)[k]]
          /\ DOMAIN u = 1..(Len(t) + 1)
      <3>1. u \in Seq(Q)
        BY DEF Q
      <3>2. DOMAIN u = 1..Len(u)
        BY <3>1, Elements
      <3>3. u = [k \in DOMAIN u |-> u[k]]
        BY <3>1, SequenceIsFunction
      <3>4. Append(t, m) = [k \in DOMAIN Append(t, m) |-> Append(t, m)[k]]
        BY <2>2, SequenceIsFunction
      <3> QED BY <1>2, <2>2, <3>2, <3>3, <3>4
    <2>4. u[Len(t) + 1] = m /\ \A k \in 1..Len(t) : u[k] = t[k]
      BY <1>2 DEF m
    <2>5. \A k \in 1..(Len(t) + 1) : k = Len(t) + 1 \/ k \in 1..Len(t)
      BY <1>2
    <2>6. \A k \in DOMAIN u : u[k] = Append(t, m)[k]
      BY <2>2, <2>3, <2>4, <2>5
    <2>7. [k \in DOMAIN u |-> u[k]] = [k \in DOMAIN u |-> Append(t, m)[k]]
      BY <2>6
    <2>8. u = Append(t, m)
      BY <2>3, <2>7
    <2> QED BY <2>8 DEF m
  <1>4. FlattenSeq(Append(t, Append(l, x))) = Append(FlattenSeq(Append(t, l)), x)
    BY FlattenLonger
  <1> QED BY <1>1, <1>3, <1>4, Zenon
=============================================================================
