------------------------------ MODULE FoldProofs ------------------------------
(***************************************************************************)
(* Induction on numbers, what a fold from the left computes, and facts about *)
(* lists: joining, reversing, inserting, removing.                           *)
(*                                                                         *)
(* Induction goes by sets: a set of numbers that has 0 and with n also       *)
(* n + 1 has them all, since otherwise there would be a least one missing.   *)
(***************************************************************************)
EXTENDS Integers, SequencesExt, FiniteSetTheorems, WellFoundedInduction, TLAPS

LEMMA LeastNumber ==
    ASSUME NEW S \in SUBSET Nat, S # {}
    PROVE  \E n \in S : \A k \in S : n <= k
<1> DEFINE R == OpToRel(<, Nat)
<1>1. IsWellFoundedOn(R, Nat)
  BY NatLessThanWellFounded
<1>2. \A n, k \in Nat : <<n, k>> \in R <=> n < k
  BY DEF OpToRel
<1> HIDE DEF R
<1>3. PICK n \in S : \A k \in S : <<k, n>> \notin R
  BY <1>1, WFMin
<1>4. \A k \in S : ~(k < n) /\ k \in Nat /\ n \in Nat
  BY <1>2, <1>3
<1> QED BY <1>4

LEMMA NumbersBySteps ==
    ASSUME NEW P, 0 \in P, \A n \in Nat : n \in P => n + 1 \in P
    PROVE  Nat \subseteq P
<1> DEFINE B == {n \in Nat : n \notin P}
<1> SUFFICES ASSUME B # {} PROVE FALSE
  OBVIOUS
<1>1. PICK n \in B : \A k \in B : n <= k
  BY LeastNumber
<1>2. n # 0 /\ n - 1 \in Nat /\ n - 1 \notin B
  BY <1>1
<1> QED BY <1>1, <1>2

LEMMA MaxOfIndices ==
    ASSUME NEW n \in Nat, NEW t \in SUBSET (1..n), t # {}
    PROVE  Max(t) \in t /\ \A i \in t : i <= Max(t)
<1> DEFINE S == {n - i : i \in t}
<1>0. \A i \in t : i \in Int /\ n - i \in Nat
  OBVIOUS
<1>1. S \in SUBSET Nat /\ S # {}
  BY <1>0
<1>2. PICK m \in S : \A k \in S : m <= k
  BY <1>1, LeastNumber
<1>3. PICK j \in t : m = n - j
  BY <1>2
<1>4. \A i \in t : n - j <= n - i
  BY <1>2, <1>3
<1>5. \A i \in t : j >= i
  BY <1>0, <1>3, <1>4
<1>6. Max(t) \in t /\ \A i \in t : Max(t) >= i
  BY <1>3, <1>5 DEF Max
<1>7. \A i \in t : Max(t) \in Int /\ i \in Int
  BY <1>0, <1>6
<1> QED BY <1>6, <1>7

\* A fold over n elements, op taking a result and the position of the next element:
\* as the recursion on sets of positions in its definition, and step by step.
FoldsSets(g, n, D, base, op) ==
    /\ g \in [SUBSET (1..n) -> D]
    /\ \A t \in SUBSET (1..n) : g[t] = IF t = {} THEN base ELSE op[<<g[t \ {Max(t)}], Max(t)>>]

FoldsTo(result, f, n, D, base, op) ==
    /\ f \in [0..n -> D]
    /\ f[0] = base /\ f[n] = result
    /\ \A k \in 1..n : f[k] = op[<<f[k - 1], k>>]

\* The recursion has a solution.
LEMMA FoldExists ==
    ASSUME NEW n \in Nat, NEW D, NEW base \in D, NEW op \in [D \X (1..n) -> D]
    PROVE  \E g : FoldsSets(g, n, D, base, op)
<1> DEFINE Solves(g, k) ==
             \A t \in SUBSET (1..k) : g[t] = IF t = {} THEN base ELSE op[<<g[t \ {Max(t)}], Max(t)>>]
           Solvable(k) == k <= n => \E g \in [SUBSET (1..k) -> D] : Solves(g, k)
           P == {k \in Nat : Solvable(k)}
<1>1. 0 \in P
  <2> DEFINE g == [t \in SUBSET (1..0) |-> base]
  <2>1. \A t \in SUBSET (1..0) : t = {}
    OBVIOUS
  <2>2. g \in [SUBSET (1..0) -> D] /\ Solves(g, 0)
    BY <2>1
  <2> HIDE DEF g, Solves
  <2> QED BY <2>2
<1>2. ASSUME NEW k \in Nat, k \in P PROVE k + 1 \in P
  <2>0. k \in Nat /\ k + 1 \in Nat /\ Solvable(k) /\ (k + 1 <= n => k <= n)
    <3> HIDE DEF Solvable
    <3> QED BY <1>2
  <2> SUFFICES ASSUME k + 1 <= n PROVE \E h \in [SUBSET (1..(k + 1)) -> D] : Solves(h, k + 1)
    <3>1. Solvable(k + 1)
      <4> HIDE DEF Solves
      <4> QED OBVIOUS
    <3> HIDE DEF Solvable
    <3> QED BY <2>0, <3>1
  <2>1. PICK g \in [SUBSET (1..k) -> D] : Solves(g, k)
    <3> HIDE DEF Solves
    <3> QED BY <2>0
  <2> DEFINE h == [t \in SUBSET (1..(k + 1)) |->
                     IF t = {} THEN base ELSE op[<<g[t \ {Max(t)}], Max(t)>>]]
  <2>2. ASSUME NEW t \in SUBSET (1..(k + 1)), t # {}
        PROVE  t \ {Max(t)} \in SUBSET (1..k) /\ Max(t) \in 1..n
    <3>1. Max(t) \in t /\ \A i \in t : i <= Max(t)
      BY <2>0, <2>2, MaxOfIndices
    <3>2. ASSUME NEW i \in t, i # Max(t) PROVE i \in 1..k
      <4>1. i \in 1..(k + 1) /\ Max(t) \in 1..(k + 1) /\ i <= Max(t)
        BY <3>1
      <4>2. \A m \in 1..(k + 1) : i <= m /\ i # m => i \in 1..k
        BY <2>0, <4>1
      <4> QED BY <3>2, <4>1, <4>2
    <3>3. Max(t) \in 1..n
      <4>1. 1..(k + 1) \subseteq 1..n
        BY <2>0
      <4> QED BY <3>1, <4>1
    <3> QED BY <3>2, <3>3
  <2>3. h \in [SUBSET (1..(k + 1)) -> D]
    <3>1. ASSUME NEW t \in SUBSET (1..(k + 1)), t # {} PROVE op[<<g[t \ {Max(t)}], Max(t)>>] \in D
      BY <2>1, <2>2, <3>1
    <3> QED BY <3>1
  <2>4. ASSUME NEW t \in SUBSET (1..k) PROVE h[t] = g[t]
    <3>1. t \in SUBSET (1..(k + 1))
      OBVIOUS
    <3> QED BY <2>1, <3>1
  <2>5. ASSUME NEW t \in SUBSET (1..(k + 1))
        PROVE  h[t] = IF t = {} THEN base ELSE op[<<h[t \ {Max(t)}], Max(t)>>]
    BY <2>2, <2>4
  <2> HIDE DEF h
  <2> QED BY <2>3, <2>5
<1> HIDE DEF P
<1>3. n \in P
  BY <1>1, <1>2, NumbersBySteps
<1>4. Solvable(n)
  <2> HIDE DEF Solvable
  <2> QED BY <1>3 DEF P
<1>5. n <= n
  OBVIOUS
<1>6. \E g \in [SUBSET (1..n) -> D] : Solves(g, n)
  <2> HIDE DEF Solves
  <2> QED BY <1>4, <1>5
<1>7. PICK g \in [SUBSET (1..n) -> D] : Solves(g, n)
  <2> HIDE DEF Solves
  <2> QED BY <1>6
<1> QED BY <1>7 DEF FoldsSets

\* A solution of the recursion, known to solve it where its values are in the type, is a
\* fold step by step.
FoldsWithin(g, n, D, base, op) ==
    /\ g[{}] = base
    /\ \A t \in SUBSET (1..n) :
          t # {} /\ g[t \ {Max(t)}] \in D => g[t] = op[<<g[t \ {Max(t)}], Max(t)>>]

LEMMA FoldMeans ==
    ASSUME NEW n \in Nat, NEW D, NEW base \in D, NEW op \in [D \X (1..n) -> D], NEW iter,
           FoldsWithin(iter, n, D, base, op)
    PROVE  \E f : FoldsTo(iter[1..n], f, n, D, base, op)
<1> DEFINE f == [k \in 0..n |-> iter[1..k]]
           P == {k \in Nat : k <= n => iter[1..k] \in D}
<1>1. ASSUME NEW k \in 1..n PROVE (1..k) # {} /\ Max(1..k) = k /\ (1..k) \ {k} = 1..(k - 1) /\ 1..k \in SUBSET (1..n)
  <2>1. 1..k \in SUBSET (1..n) /\ k \in 1..k
    OBVIOUS
  <2>2. Max(1..k) \in 1..k /\ \A i \in 1..k : i <= Max(1..k)
    BY <2>1, MaxOfIndices
  <2> QED BY <2>1, <2>2
<1>2. 1..0 = {}
  OBVIOUS
<1>3. ASSUME NEW k \in 1..n, iter[1..(k - 1)] \in D
      PROVE  iter[1..k] = op[<<iter[1..(k - 1)], k>>] /\ iter[1..k] \in D
  <2>1. iter[1..k] = op[<<iter[1..(k - 1)], k>>]
    BY <1>1, <1>3 DEF FoldsWithin
  <2> QED BY <2>1, <1>3
<1>4. 0 \in P
  BY <1>2 DEF FoldsWithin
<1>5. ASSUME NEW k \in Nat, k \in P PROVE k + 1 \in P
  <2> SUFFICES ASSUME k + 1 <= n PROVE iter[1..(k + 1)] \in D
    OBVIOUS
  <2>1. k + 1 \in 1..n /\ (k + 1) - 1 = k /\ iter[1..k] \in D
    BY <1>5
  <2> QED BY <1>3, <2>1
<1> HIDE DEF P
<1>6. Nat \subseteq P
  BY <1>4, <1>5, NumbersBySteps
<1>7. \A k \in 0..n : iter[1..k] \in D
  BY <1>6 DEF P
<1>8. f \in [0..n -> D] /\ f[0] = base /\ f[n] = iter[1..n]
  BY <1>2, <1>7 DEF FoldsWithin
<1>9. \A k \in 1..n : f[k] = op[<<f[k - 1], k>>]
  BY <1>3, <1>7
<1> HIDE DEF f
<1> QED BY <1>8, <1>9 DEF FoldsTo

\* Such a fold always exists.
LEMMA FoldsUp ==
    ASSUME NEW n \in Nat, NEW D, NEW base \in D, NEW op \in [D \X (1..n) -> D]
    PROVE  \E f : FoldsTo(f[n], f, n, D, base, op)
<1>1. PICK g : FoldsSets(g, n, D, base, op)
  BY FoldExists
<1>2. {} \in SUBSET (1..n)
  OBVIOUS
<1>3. FoldsWithin(g, n, D, base, op)
  BY <1>1, <1>2 DEF FoldsSets, FoldsWithin
<1>4. PICK f : FoldsTo(g[1..n], f, n, D, base, op)
  BY <1>3, FoldMeans
<1>5. FoldsTo(f[n], f, n, D, base, op)
  BY <1>4 DEF FoldsTo
<1> QED BY <1>5

-----------------------------------------------------------------------------
(* Sequences.                                                                *)

LEMMA ElementOf == ASSUME NEW T, NEW s \in Seq(T), NEW i \in 1..Len(s) PROVE s[i] \in T
  OBVIOUS

LEMMA IsSequence == ASSUME NEW T, NEW n \in Nat, NEW f \in [1..n -> T] PROVE f \in Seq(T)
  OBVIOUS

LEMMA JoinedThere ==
    ASSUME NEW S, NEW s \in Seq(S), NEW t \in Seq(S)
    PROVE  /\ s \o t \in Seq(S) /\ Len(s \o t) = Len(s) + Len(t)
           /\ \A i \in 1..Len(s) : (s \o t)[i] = s[i]
           /\ \A i \in 1..Len(t) : (s \o t)[Len(s) + i] = t[i]
<1>1. s \o t \in Seq(S) /\ Len(s \o t) = Len(s) + Len(t)
  OBVIOUS
<1>2. \A i \in 1..Len(s) : (s \o t)[i] = s[i]
  OBVIOUS
<1>3. \A i \in 1..Len(t) : (s \o t)[Len(s) + i] = t[i]
  OBVIOUS
<1> QED BY <1>1, <1>2, <1>3

LEMMA JoinedRange ==
    ASSUME NEW S, NEW s \in Seq(S), NEW t \in Seq(S)
    PROVE  /\ s \o t \in Seq(S) /\ Len(s \o t) = Len(s) + Len(t)
           /\ Range(s \o t) = Range(s) \cup Range(t)
<1>1. /\ s \o t \in Seq(S) /\ Len(s) \in Nat /\ Len(t) \in Nat /\ Len(s \o t) = Len(s) + Len(t)
      /\ DOMAIN s = 1..Len(s) /\ DOMAIN t = 1..Len(t) /\ DOMAIN (s \o t) = 1..(Len(s) + Len(t))
  OBVIOUS
<1>2. \A i \in 1..Len(s) : i \in 1..(Len(s) + Len(t)) /\ (s \o t)[i] = s[i]
  OBVIOUS
<1>3. \A i \in 1..Len(t) : i + Len(s) \in 1..(Len(s) + Len(t)) /\ (s \o t)[i + Len(s)] = t[i]
  OBVIOUS
<1>4. \A i \in 1..(Len(s) + Len(t)) :
         i \in 1..Len(s) \/ (i - Len(s) \in 1..Len(t) /\ (i - Len(s)) + Len(s) = i)
  BY <1>1
<1> DEFINE u == s \o t
<1> HIDE DEF u
<1>5. ASSUME NEW x \in Range(u) PROVE x \in Range(s) \cup Range(t)
  <2>1. PICK i \in 1..(Len(s) + Len(t)) : x = u[i]
    BY <1>1 DEF Range, u
  <2>2. CASE i \in 1..Len(s)
    BY <1>1, <1>2, <2>1, <2>2 DEF Range, u
  <2>3. CASE i - Len(s) \in 1..Len(t) /\ (i - Len(s)) + Len(s) = i
    <3>1. x = t[i - Len(s)]
      BY <1>3, <2>1, <2>3 DEF u
    <3> QED BY <1>1, <2>3, <3>1 DEF Range
  <2> QED BY <1>4, <2>2, <2>3
<1>6. ASSUME NEW x \in Range(s) PROVE x \in Range(u)
  <2>1. PICK i \in 1..Len(s) : x = s[i]
    BY <1>1 DEF Range
  <2>2. i \in DOMAIN u /\ u[i] = x
    BY <1>1, <1>2, <2>1 DEF u
  <2> QED BY <2>2 DEF Range
<1>7. ASSUME NEW x \in Range(t) PROVE x \in Range(u)
  <2>1. PICK i \in 1..Len(t) : x = t[i]
    BY <1>1 DEF Range
  <2>2. i + Len(s) \in DOMAIN u /\ u[i + Len(s)] = x
    BY <1>1, <1>3, <2>1 DEF u
  <2> QED BY <2>2 DEF Range
<1>8. Range(u) = Range(s) \cup Range(t)
  BY <1>5, <1>6, <1>7
<1> QED BY <1>1, <1>8 DEF u

\* Flattening, one sequence at a time.
LEMMA Flattening ==
    ASSUME NEW S, NEW ss \in Seq(Seq(S))
    PROVE  \E f \in [0..Len(ss) -> Seq(S)] :
              /\ f[0] = <<>> /\ f[Len(ss)] = FlattenSeq(ss)
              /\ \A k \in 1..Len(ss) : f[k] = f[k - 1] \o ss[k]
<1> DEFINE n == Len(ss)
           D == Seq(S)
           op == [p \in D \X (1..n) |-> p[1] \o ss[p[2]]]
<1>1. n \in Nat /\ DOMAIN ss = 1..n /\ \A k \in 1..n : ss[k] \in D
  OBVIOUS
<1>2. \A d \in D, k \in 1..n : d \o ss[k] \in D
  <2> SUFFICES ASSUME NEW d \in D, NEW k \in 1..n PROVE d \o ss[k] \in D
    OBVIOUS
  <2>1. ss[k] \in Seq(S) /\ d \in Seq(S)
    BY <1>1
  <2> QED BY <2>1, JoinedRange
<1>3. <<>> \in D
  OBVIOUS
<1> HIDE DEF n, D
<1>9. op \in [D \X (1..n) -> D] /\ \A d \in D, k \in 1..n : op[<<d, k>>] = d \o ss[k]
  BY <1>2
<1> HIDE DEF op
<1>4. PICK f : FoldsTo(f[n], f, n, D, <<>>, op)
  BY <1>1, <1>9, <1>3, FoldsUp
<1>5. f \in [0..n -> D] /\ f[0] = <<>>
  BY <1>4 DEF FoldsTo
<1>6. ASSUME NEW k \in 1..n PROVE f[k - 1] \in D /\ f[k] = f[k - 1] \o ss[k]
  <2>1. k - 1 \in 0..n
    BY <1>1
  <2> QED BY <1>9, <1>4, <1>5, <2>1 DEF FoldsTo
<1>7. f[n] = FlattenSeq(ss)
  <2>1. CASE n = 0
    <3>1. FlattenSeq(ss) = ss /\ ss = <<>>
      BY <2>1 DEF FlattenSeq, n
    <3> QED BY <1>5, <2>1, <3>1
  <2>2. CASE n # 0
    <3> DEFINE flatten == CHOOSE g : g = [i \in 1..n |-> IF i = 1 THEN ss[i] ELSE g[i - 1] \o ss[i]]
               h == [i \in 1..n |-> f[i]]
    <3>1. FlattenSeq(ss) = flatten[n]
      BY <2>2 DEF FlattenSeq, n
    <3>2. ASSUME NEW i \in 1..n PROVE h[i] = IF i = 1 THEN ss[i] ELSE h[i - 1] \o ss[i]
      <4>1. CASE i = 1
        <5>1. f[1] = f[0] \o ss[1] /\ ss[1] \in Seq(S)
          BY <1>1, <1>6, <4>1 DEF D
        <5> QED BY <1>5, <4>1, <5>1
      <4>2. CASE i # 1
        <5>1. i - 1 \in 1..n
          BY <1>1, <4>2
        <5> QED BY <1>6, <4>2, <5>1
      <4> QED BY <4>1, <4>2
    <3>3. h = [i \in 1..n |-> IF i = 1 THEN ss[i] ELSE h[i - 1] \o ss[i]]
      <4> HIDE DEF h
      <4>1. h = [i \in 1..n |-> h[i]]
        BY DEF h
      <4> QED BY <3>2, <4>1
    <3>4. flatten = [i \in 1..n |-> IF i = 1 THEN ss[i] ELSE flatten[i - 1] \o ss[i]]
      <4> HIDE DEF h
      <4> QED BY <3>3
    <3> HIDE DEF flatten, h
    <3> DEFINE P == {k \in Nat : k + 1 <= n => flatten[k + 1] = f[k + 1]}
    <3>5. 0 \in P
      <4>1. 1 \in 1..n
        BY <1>1, <2>2
      <4>2. flatten[1] = ss[1] /\ f[1] = ss[1]
        BY <3>2, <3>4, <4>1 DEF h
      <4> QED BY <4>2
    <3>6. ASSUME NEW k \in Nat, k \in P PROVE k + 1 \in P
      <4> SUFFICES ASSUME k + 2 <= n PROVE flatten[k + 2] = f[k + 2]
        OBVIOUS
      <4>1. k + 2 \in 1..n /\ k + 2 # 1 /\ (k + 2) - 1 = k + 1 /\ flatten[k + 1] = f[k + 1]
        BY <1>1, <3>6
      <4>2. flatten[k + 2] = flatten[k + 1] \o ss[k + 2]
        BY <3>4, <4>1
      <4>3. f[k + 2] = f[k + 1] \o ss[k + 2]
        BY <1>6, <4>1
      <4> QED BY <4>1, <4>2, <4>3
    <3> HIDE DEF P
    <3>7. n - 1 \in P
      BY <1>1, <2>2, <3>5, <3>6, NumbersBySteps
    <3>8. flatten[n] = f[n]
      BY <1>1, <2>2, <3>7 DEF P
    <3> QED BY <3>1, <3>8 DEF flatten
  <2> QED BY <2>1, <2>2
<1> QED BY <1>5, <1>6, <1>7 DEF n, D

LEMMA Flattened ==
    ASSUME NEW S, NEW ss \in Seq(Seq(S))
    PROVE  /\ FlattenSeq(ss) \in Seq(S)
           /\ \A x : x \in Range(FlattenSeq(ss)) <=> \E i \in 1..Len(ss) : x \in Range(ss[i])
           /\ \A i \in 1..Len(ss) : Len(ss[i]) <= Len(FlattenSeq(ss))
<1> DEFINE n == Len(ss)
<1>1. n \in Nat /\ \A k \in 1..n : ss[k] \in Seq(S) /\ Len(ss[k]) \in Nat
  OBVIOUS
<1>2. PICK f \in [0..n -> Seq(S)] :
         /\ f[0] = <<>> /\ f[n] = FlattenSeq(ss)
         /\ \A k \in 1..n : f[k] = f[k - 1] \o ss[k]
  BY Flattening
<1> HIDE DEF n
<1> DEFINE Holds(k) ==
             /\ \A x : x \in Range(f[k]) <=> \E i \in 1..k : x \in Range(ss[i])
             /\ \A i \in 1..k : Len(ss[i]) <= Len(f[k])
           P == {k \in Nat : k <= n => Holds(k)}
<1>3. 0 \in P
  <2>1. Range(f[0]) = {}
    BY <1>2 DEF Range
  <2> QED BY <2>1
<1>4. ASSUME NEW k \in Nat, k \in P PROVE k + 1 \in P
  <2> SUFFICES ASSUME k + 1 <= n PROVE Holds(k + 1)
    OBVIOUS
  <2>1. k + 1 \in 1..n /\ k \in 0..n /\ k + 1 \in 0..n /\ (k + 1) - 1 = k
    BY <1>1
  <2>2. Holds(k)
    BY <1>4, <2>1
  <2>3. f[k + 1] = f[k] \o ss[k + 1] /\ f[k] \in Seq(S) /\ ss[k + 1] \in Seq(S)
    BY <1>1, <1>2, <2>1
  <2>4. /\ Range(f[k + 1]) = Range(f[k]) \cup Range(ss[k + 1])
        /\ Len(f[k + 1]) = Len(f[k]) + Len(ss[k + 1]) /\ Len(f[k]) \in Nat /\ Len(ss[k + 1]) \in Nat
    BY <2>3, JoinedRange
  <2>5. \A i \in 1..(k + 1) : i \in 1..k \/ i = k + 1
    OBVIOUS
  <2>6. k + 1 \in 1..(k + 1) /\ \A i \in 1..k : i \in 1..(k + 1)
    OBVIOUS
  <2>7. \A x : x \in Range(f[k + 1]) <=> \E i \in 1..(k + 1) : x \in Range(ss[i])
    BY <2>2, <2>4, <2>5, <2>6
  <2>8. ASSUME NEW i \in 1..(k + 1) PROVE Len(ss[i]) <= Len(f[k + 1])
    <3> DEFINE x == Len(f[k])
               y == Len(ss[k + 1])
               z == Len(f[k + 1])
               w == Len(ss[i])
    <3>3. x \in Nat /\ y \in Nat /\ z = x + y
      BY <2>4
    <3>1. CASE i = k + 1
      <4>1. w = y
        BY <3>1
      <4> HIDE DEF w, x, y, z
      <4>2. w <= z
        BY <3>3, <4>1
      <4> QED BY <4>2 DEF w, z
    <3>2. CASE i \in 1..k
      <4>1. Len(ss[i]) <= Len(f[k]) /\ Len(ss[i]) \in Nat
        <5>1. i \in 1..n
          BY <1>1, <2>1, <3>2
        <5> QED BY <1>1, <2>2, <3>2, <5>1
      <4>2. w <= x /\ w \in Nat
        BY <4>1
      <4> HIDE DEF w, x, y, z
      <4>3. w <= z
        BY <3>3, <4>2
      <4> QED BY <4>3 DEF w, z
    <3> QED BY <2>5, <3>1, <3>2
  <2> QED BY <2>7, <2>8
<1> HIDE DEF P
<1>5. n \in P
  BY <1>1, <1>3, <1>4, NumbersBySteps
<1>6. Holds(n) /\ f[n] \in Seq(S)
  BY <1>1, <1>2, <1>5 DEF P
<1> QED BY <1>2, <1>6 DEF n

LEMMA FlattenedLengths ==
    ASSUME NEW S, NEW ss \in Seq(Seq(S)), NEW tt \in Seq(Seq(S)), Len(ss) = Len(tt),
           \A i \in 1..Len(ss) : Len(ss[i]) = Len(tt[i])
    PROVE  Len(FlattenSeq(ss)) = Len(FlattenSeq(tt))
<1> DEFINE n == Len(ss)
<1>1. n \in Nat /\ \A k \in 1..n : ss[k] \in Seq(S) /\ tt[k] \in Seq(S) /\ Len(ss[k]) = Len(tt[k])
  OBVIOUS
<1>2. PICK f \in [0..n -> Seq(S)] :
         /\ f[0] = <<>> /\ f[n] = FlattenSeq(ss)
         /\ \A k \in 1..n : f[k] = f[k - 1] \o ss[k]
  BY Flattening
<1>3. PICK g \in [0..n -> Seq(S)] :
         /\ g[0] = <<>> /\ g[n] = FlattenSeq(tt)
         /\ \A k \in 1..n : g[k] = g[k - 1] \o tt[k]
  BY Flattening
<1> HIDE DEF n
<1> DEFINE P == {k \in Nat : k <= n => Len(f[k]) = Len(g[k])}
<1>4. 0 \in P
  BY <1>2, <1>3
<1>5. ASSUME NEW k \in Nat, k \in P PROVE k + 1 \in P
  <2> SUFFICES ASSUME k + 1 <= n PROVE Len(f[k + 1]) = Len(g[k + 1])
    OBVIOUS
  <2>1. k + 1 \in 1..n /\ k \in 0..n /\ (k + 1) - 1 = k /\ Len(f[k]) = Len(g[k])
    BY <1>1, <1>5
  <2>2. /\ f[k + 1] = f[k] \o ss[k + 1] /\ f[k] \in Seq(S) /\ ss[k + 1] \in Seq(S)
        /\ g[k + 1] = g[k] \o tt[k + 1] /\ g[k] \in Seq(S) /\ tt[k + 1] \in Seq(S)
        /\ Len(ss[k + 1]) = Len(tt[k + 1])
    BY <1>1, <1>2, <1>3, <2>1
  <2>3. \A s, t \in Seq(S) : Len(s \o t) = Len(s) + Len(t)
    BY JoinedRange
  <2>4. Len(f[k + 1]) = Len(f[k]) + Len(ss[k + 1]) /\ Len(g[k + 1]) = Len(g[k]) + Len(tt[k + 1])
    BY <2>2, <2>3
  <2> QED BY <2>1, <2>2, <2>4
<1> HIDE DEF P
<1>6. n \in P
  BY <1>1, <1>4, <1>5, NumbersBySteps
<1>7. Len(f[n]) = Len(g[n])
  BY <1>1, <1>6 DEF P
<1> QED BY <1>2, <1>3, <1>7

-----------------------------------------------------------------------------
(* Lists.                                                                  *)

\* One slot of a sequence of slots is set.
LEMMA SlotSet ==
    ASSUME NEW S, NEW s \in Seq(S), NEW i \in DOMAIN s, NEW x \in S
    PROVE  /\ [s EXCEPT ![i] = x] \in Seq(S)
           /\ DOMAIN [s EXCEPT ![i] = x] = DOMAIN s
           /\ [s EXCEPT ![i] = x][i] = x
           /\ \A j \in DOMAIN s : j # i => [s EXCEPT ![i] = x][j] = s[j]
OBVIOUS

LEMMA AppendedTo ==
    ASSUME NEW S, NEW s \in Seq(S), NEW x \in S
    PROVE  /\ Append(s, x) \in Seq(S) /\ Len(Append(s, x)) = Len(s) + 1 /\ Len(s) \in Nat
           /\ DOMAIN s = 1..Len(s) /\ DOMAIN Append(s, x) = 1..(Len(s) + 1)
           /\ Append(s, x)[Len(s) + 1] = x
           /\ \A j \in 1..Len(s) : Append(s, x)[j] = s[j]
OBVIOUS

LEMMA AppendedOnce ==
    ASSUME NEW S, NEW s \in Seq(S), NEW x \in S, x \notin Range(s), IsInjective(s)
    PROVE  /\ Append(s, x) \in Seq(S) /\ IsInjective(Append(s, x))
           /\ Range(Append(s, x)) = Range(s) \cup {x}
<1>1. /\ Append(s, x) \in Seq(S) /\ Len(s) \in Nat
      /\ DOMAIN s = 1..Len(s) /\ DOMAIN Append(s, x) = 1..(Len(s) + 1)
      /\ Append(s, x)[Len(s) + 1] = x
      /\ \A j \in 1..Len(s) : Append(s, x)[j] = s[j]
  BY AppendedTo
<1>2. \A j \in 1..(Len(s) + 1) : j \in 1..Len(s) \/ j = Len(s) + 1
  BY <1>1
<1>3. \A j \in 1..Len(s) : j \in 1..(Len(s) + 1) /\ s[j] # x
  BY <1>1 DEF Range
<1>4. Len(s) + 1 \in 1..(Len(s) + 1)
  BY <1>1
<1>5. \A i, j \in 1..Len(s) : s[i] = s[j] => i = j
  BY <1>1 DEF IsInjective
<1> DEFINE t == Append(s, x)
<1> HIDE DEF t
<1>6. IsInjective(t)
  BY <1>1, <1>2, <1>3, <1>5 DEF IsInjective, t
<1>7. Range(t) = Range(s) \cup {x}
  BY <1>1, <1>2, <1>3, <1>4 DEF Range, t
<1> QED BY <1>1, <1>6, <1>7 DEF t

\* t is s with x where position i was, or without what stood at position k.
OneMore(s, i, x, t) ==
    /\ Len(t) = Len(s) + 1 /\ DOMAIN t = 1..(Len(s) + 1)
    /\ \A j \in 1..(Len(s) + 1) : t[j] = IF j < i THEN s[j] ELSE IF j = i THEN x ELSE s[j - 1]
OneLess(s, k, t) ==
    /\ Len(t) = Len(s) - 1 /\ DOMAIN t = 1..(Len(s) - 1)
    /\ \A j \in 1..(Len(s) - 1) : t[j] = s[IF j < k THEN j ELSE j + 1]

LEMMA InsertedThere ==
    ASSUME NEW S, NEW s \in Seq(S), NEW x \in S, NEW i \in 1..Len(s)
    PROVE  InsertAt(s, i, x) \in Seq(S) /\ OneMore(s, i, x, InsertAt(s, i, x))
<1> DEFINE n == Len(s)
           t == InsertAt(s, i, x)
<1>0. n \in Nat /\ DOMAIN s = 1..n /\ i \in 1..n
  OBVIOUS
<1> DEFINE a == SubSeq(s, 1, i - 1)
           c == SubSeq(s, i, n)
<1>1. a \in Seq(S) /\ Len(a) = i - 1 /\ \A j \in 1..(i - 1) : a[j] = s[j]
  BY <1>0
<1>2. c \in Seq(S) /\ Len(c) = n - i + 1 /\ \A j \in 1..(n - i + 1) : c[j] = s[i + j - 1]
  BY <1>0
<1>3. t = (a \o <<x>>) \o c
  BY DEF InsertAt
<1> HIDE DEF a, c, t
<1> DEFINE ax == a \o <<x>>
<1>4. /\ ax \in Seq(S) /\ Len(ax) = i
      /\ \A j \in 1..i : ax[j] = IF j < i THEN s[j] ELSE x
  BY <1>0, <1>1
<1>5. t = ax \o c
  BY <1>3
<1> HIDE DEF ax, n
<1>6. /\ t \in Seq(S) /\ Len(t) = i + Len(c)
      /\ \A j \in 1..i : t[j] = ax[j]
      /\ \A j \in 1..Len(c) : t[i + j] = c[j]
  <2>1. /\ ax \o c \in Seq(S) /\ Len(ax \o c) = Len(ax) + Len(c)
        /\ \A j \in 1..Len(ax) : (ax \o c)[j] = ax[j]
        /\ \A j \in 1..Len(c) : (ax \o c)[Len(ax) + j] = c[j]
    <3>1. ax \in Seq(S) /\ c \in Seq(S)
      BY <1>2, <1>4
    <3> QED BY <3>1, JoinedThere
  <2> QED BY <1>4, <1>5, <2>1
<1>7. Len(t) = n + 1 /\ DOMAIN t = 1..(n + 1)
  <2>1. i + (n - i + 1) = n + 1
    BY <1>0
  <2> QED BY <1>2, <1>6, <2>1
<1>8. ASSUME NEW j \in 1..(n + 1)
      PROVE  t[j] = IF j < i THEN s[j] ELSE IF j = i THEN x ELSE s[j - 1]
  <2>1. CASE j <= i
    <3>1. j \in 1..i
      BY <1>0, <2>1
    <3> QED BY <1>4, <1>6, <3>1
  <2>2. CASE ~(j <= i)
    <3> DEFINE l == j - i
    <3>1. l \in 1..(n - i + 1) /\ i + l = j /\ i + l - 1 = j - 1 /\ ~(j < i) /\ j # i
      BY <1>0, <2>2
    <3> HIDE DEF l
    <3>2. t[i + l] = c[l] /\ c[l] = s[i + l - 1]
      BY <1>2, <1>6, <3>1
    <3> QED BY <3>1, <3>2
  <2> QED BY <1>0, <2>1, <2>2
<1> QED BY <1>6, <1>7, <1>8 DEF t, n, OneMore

LEMMA InsertedOnce ==
    ASSUME NEW S, NEW s \in Seq(S), NEW x \in S, x \notin Range(s), IsInjective(s), NEW i \in 1..Len(s)
    PROVE  /\ InsertAt(s, i, x) \in Seq(S) /\ IsInjective(InsertAt(s, i, x))
           /\ Range(InsertAt(s, i, x)) = Range(s) \cup {x}
<1> DEFINE n == Len(s)
           t == InsertAt(s, i, x)
           back(j) == IF j < i THEN j ELSE j - 1
<1>1. n \in Nat /\ DOMAIN s = 1..n /\ i \in 1..n
  OBVIOUS
<1>2. /\ t \in Seq(S) /\ DOMAIN t = 1..(n + 1)
      /\ \A j \in 1..(n + 1) : t[j] = IF j < i THEN s[j] ELSE IF j = i THEN x ELSE s[j - 1]
  <2>1. t \in Seq(S) /\ OneMore(s, i, x, t)
    BY InsertedThere
  <2> QED BY <2>1 DEF OneMore
<1> HIDE DEF t
<1>3. ASSUME NEW j \in 1..(n + 1), j # i
      PROVE  back(j) \in 1..n /\ t[j] = s[back(j)] /\ t[j] # x /\ t[j] \in Range(s)
  <2>1. back(j) \in 1..n
    BY <1>1, <1>3
  <2>2. t[j] = s[back(j)]
    BY <1>1, <1>2, <1>3
  <2>3. s[back(j)] \in Range(s)
    BY <1>1, <2>1 DEF Range
  <2> QED BY <2>1, <2>2, <2>3
<1>4. i \in 1..(n + 1) /\ t[i] = x
  BY <1>1, <1>2
<1>5. \A a, c \in 1..n : s[a] = s[c] => a = c
  BY <1>1 DEF IsInjective
<1>6. \A j, k \in 1..(n + 1) : j # i /\ k # i /\ back(j) = back(k) => j = k
  BY <1>1
<1> HIDE DEF back
<1>7. ASSUME NEW j \in 1..(n + 1), NEW k \in 1..(n + 1), t[j] = t[k] PROVE j = k
  <2>1. CASE j = i \/ k = i
    BY <1>3, <1>4, <1>7, <2>1
  <2>2. CASE j # i /\ k # i
    <3>1. back(j) = back(k)
      BY <1>3, <1>5, <1>7, <2>2
    <3> QED BY <1>6, <2>2, <3>1
  <2> QED BY <2>1, <2>2
<1>8. IsInjective(t)
  BY <1>2, <1>7 DEF IsInjective
<1>9. ASSUME NEW k \in 1..n PROVE \E j \in 1..(n + 1) : t[j] = s[k]
  <2>1. CASE k < i
    BY <1>1, <1>2, <2>1
  <2>2. CASE ~(k < i)
    <3>1. k + 1 \in 1..(n + 1) /\ ~(k + 1 < i) /\ k + 1 # i /\ (k + 1) - 1 = k
      BY <1>1, <2>2
    <3> QED BY <1>2, <3>1
  <2> QED BY <2>1, <2>2
<1>10. Range(t) = Range(s) \cup {x}
  <2>1. \A y \in Range(t) : y \in Range(s) \cup {x}
    BY <1>2, <1>3, <1>4 DEF Range
  <2>2. \A y \in Range(s) : y \in Range(t)
    BY <1>1, <1>2, <1>9 DEF Range
  <2>3. x \in Range(t)
    BY <1>2, <1>4 DEF Range
  <2> QED BY <2>1, <2>2, <2>3
<1> QED BY <1>2, <1>8, <1>10 DEF t

LEMMA Reversed ==
    ASSUME NEW S, NEW s \in Seq(S)
    PROVE  Reverse(s) \in Seq(S) /\ Range(Reverse(s)) = Range(s)
<1> DEFINE n == Len(s)
           t == Reverse(s)
<1>1. n \in Nat /\ DOMAIN s = 1..n /\ \A i \in 1..n : s[i] \in S
  OBVIOUS
<1>2. t = [i \in 1..n |-> s[(n - i) + 1]]
  BY DEF Reverse
<1> HIDE DEF n, t
<1>3. \A i \in 1..n : (n - i) + 1 \in 1..n /\ (n - ((n - i) + 1)) + 1 = i
  BY <1>1
<1>4. DOMAIN t = 1..n /\ \A i \in 1..n : t[i] = s[(n - i) + 1]
  BY <1>2
<1>5. t \in [1..n -> S]
  BY <1>1, <1>2, <1>3
<1>6. t \in Seq(S)
  BY <1>1, <1>5
<1>7. \A x : x \in Range(t) <=> \E i \in 1..n : x = t[i]
  BY <1>4 DEF Range
<1>8. \A x : x \in Range(s) <=> \E i \in 1..n : x = s[i]
  BY <1>1 DEF Range
<1>9. \A x \in Range(s) : x \in Range(t)
  BY <1>3, <1>4, <1>7, <1>8
<1>10. \A x \in Range(t) : x \in Range(s)
  BY <1>3, <1>4, <1>7, <1>8
<1> QED BY <1>6, <1>9, <1>10 DEF t

LEMMA FirstRemoved ==
    ASSUME NEW S, NEW s \in Seq(S), IsInjective(s), NEW k \in 1..Len(s), NEW e, s[k] = e
    PROVE  RemoveFirst(s, e) \in Seq(S) /\ OneLess(s, k, RemoveFirst(s, e))
<1> DEFINE n == Len(s)
           t == RemoveFirst(s, e)
<1>1. n \in Nat /\ DOMAIN s = 1..n /\ \A i \in 1..n : s[i] \in S
  OBVIOUS
<1>2. k \in 1..n /\ s[k] = e
  OBVIOUS
<1>3. \A i, j \in 1..n : s[i] = s[j] => i = j
  BY <1>1 DEF IsInjective
<1>4. t = SubSeq(s, 1, k - 1) \o SubSeq(s, k + 1, n)
  <2> DEFINE I == {i \in 1..n : s[i] = e}
  <2>1. I = {k}
    BY <1>2, <1>3
  <2>2. SelectInSeq(s, LAMBDA v : v = e) = IF I # {} THEN Min(I) ELSE 0
    BY DEF SelectInSeq
  <2> HIDE DEF I
  <2>3. Min(I) = k
    BY <1>1, <2>1 DEF Min
  <2>4. SelectInSeq(s, LAMBDA v : v = e) = k
    BY <2>1, <2>2, <2>3
  <2>5. t = RemoveAt(s, SelectInSeq(s, LAMBDA v : v = e))
    BY <1>2 DEF RemoveFirst
  <2> QED BY <2>4, <2>5 DEF RemoveAt
<1> DEFINE forth(j) == IF j < k THEN j ELSE j + 1
<1>5. /\ t \in Seq(S) /\ Len(t) = n - 1 /\ DOMAIN t = 1..(n - 1)
      /\ \A j \in 1..(n - 1) : t[j] = s[forth(j)]
  <2> DEFINE a == SubSeq(s, 1, k - 1)
             c == SubSeq(s, k + 1, n)
  <2>1. a \in Seq(S) /\ Len(a) = k - 1 /\ \A j \in 1..(k - 1) : a[j] = s[j]
    BY <1>1, <1>2
  <2>2. c \in Seq(S) /\ Len(c) = n - k /\ \A j \in 1..(n - k) : c[j] = s[k + j]
    <3> DEFINE q == k + 1
    <3>1. q \in 1..(n + 1) /\ n - q + 1 = n - k
      BY <1>1, <1>2
    <3> HIDE DEF q
    <3>2. /\ SubSeq(s, q, n) \in Seq(S) /\ Len(SubSeq(s, q, n)) = n - q + 1
          /\ \A j \in 1..(n - q + 1) : SubSeq(s, q, n)[j] = s[q + j - 1]
      BY <1>1, <3>1
    <3>3. \A j \in 1..(n - k) : q + j - 1 = k + j
      BY <1>1, <1>2 DEF q
    <3> QED BY <3>1, <3>2, <3>3 DEF q
  <2> HIDE DEF a, c, t, n
  <2>3. t = a \o c
    BY <1>4 DEF a, c
  <2>4. t \in Seq(S) /\ Len(t) = n - 1
    <3>1. t \in Seq(S) /\ Len(t) = Len(a) + Len(c)
      BY <2>1, <2>2, <2>3, JoinedRange
    <3> QED BY <1>1, <1>2, <2>1, <2>2, <3>1
  <2>5. ASSUME NEW j \in 1..(n - 1) PROVE t[j] = s[forth(j)]
    <3>1. CASE j < k
      <4>1. j \in 1..(k - 1)
        BY <1>1, <1>2, <3>1
      <4>2. t[j] = a[j]
        BY <2>1, <2>2, <2>3, <4>1
      <4> QED BY <2>1, <3>1, <4>1, <4>2
    <3>2. CASE ~(j < k)
      <4>1. j - (k - 1) \in 1..(n - k) /\ k + (j - (k - 1)) = j + 1 /\ j > k - 1
        BY <1>1, <1>2, <3>2
      <4>2. t[j] = c[j - (k - 1)]
        BY <1>1, <1>2, <2>1, <2>2, <2>3, <4>1
      <4> QED BY <2>2, <3>2, <4>1, <4>2
    <3> QED BY <3>1, <3>2
  <2> HIDE DEF forth
  <2>6. DOMAIN t = 1..Len(t)
    BY <2>4
  <2> QED BY <2>4, <2>5, <2>6
<1> QED BY <1>5 DEF n, t, forth, OneLess

LEMMA RemovedOnce ==
    ASSUME NEW S, NEW s \in Seq(S), IsInjective(s), NEW e \in Range(s)
    PROVE  LET t == RemoveFirst(s, e)
           IN  t \in Seq(S) /\ IsInjective(t) /\ Range(t) = Range(s) \ {e}
<1> DEFINE n == Len(s)
           t == RemoveFirst(s, e)
<1>1. n \in Nat /\ DOMAIN s = 1..n /\ \A i \in 1..n : s[i] \in S
  OBVIOUS
<1>2. PICK k \in 1..n : s[k] = e
  BY <1>1 DEF Range
<1>3. \A i, j \in 1..n : s[i] = s[j] => i = j
  BY <1>1 DEF IsInjective
<1> DEFINE forth(j) == IF j < k THEN j ELSE j + 1
<1>5. /\ t \in Seq(S) /\ DOMAIN t = 1..(n - 1)
      /\ \A j \in 1..(n - 1) : t[j] = s[forth(j)]
  <2>1. t \in Seq(S) /\ OneLess(s, k, t)
    BY <1>2, FirstRemoved
  <2> QED BY <2>1 DEF OneLess
<1> HIDE DEF t, n
<1>6. \A j \in 1..(n - 1) : forth(j) \in 1..n /\ forth(j) # k
  BY <1>1, <1>2
<1>7. \A i, j \in 1..(n - 1) : forth(i) = forth(j) => i = j
  BY <1>1, <1>2
<1>8. \A i \in 1..n : i # k => \E j \in 1..(n - 1) : forth(j) = i
  <2> SUFFICES ASSUME NEW i \in 1..n, i # k PROVE \E j \in 1..(n - 1) : forth(j) = i
    OBVIOUS
  <2>1. CASE i < k
    <3>1. i \in 1..(n - 1) /\ forth(i) = i
      BY <1>1, <1>2, <2>1
    <3> QED BY <3>1
  <2>2. CASE i > k
    <3>1. i - 1 \in 1..(n - 1) /\ forth(i - 1) = i
      BY <1>1, <1>2, <2>2
    <3> QED BY <3>1
  <2>3. i < k \/ i > k
    BY <1>1, <1>2
  <2> QED BY <2>1, <2>2, <2>3
<1> HIDE DEF forth
<1>9. IsInjective(t)
  <2> SUFFICES ASSUME NEW i \in 1..(n - 1), NEW j \in 1..(n - 1), t[i] = t[j] PROVE i = j
    BY <1>5 DEF IsInjective
  <2>1. forth(i) = forth(j)
    BY <1>3, <1>5, <1>6
  <2> QED BY <1>7, <2>1
<1>10. ASSUME NEW x \in Range(t) PROVE x \in Range(s) \ {e}
  <2>1. PICK j \in 1..(n - 1) : x = s[forth(j)]
    BY <1>5 DEF Range
  <2>2. x # e /\ x \in Range(s)
    BY <1>1, <1>2, <1>3, <1>6, <2>1 DEF Range
  <2> QED BY <2>2
<1>11. ASSUME NEW x \in Range(s), x # e PROVE x \in Range(t)
  <2>1. PICK i \in 1..n : x = s[i]
    BY <1>1 DEF Range
  <2>2. i # k
    BY <1>2, <1>11, <2>1
  <2>3. PICK j \in 1..(n - 1) : forth(j) = i
    BY <1>8, <2>2
  <2> QED BY <1>5, <2>1, <2>3 DEF Range
<1>12. Range(t) = Range(s) \ {e}
  BY <1>10, <1>11
<1> QED BY <1>5, <1>9, <1>12 DEF t

LEMMA PutFirst ==
    ASSUME NEW S, NEW o \in S, NEW s \in Seq(S)
    PROVE  LET t == <<o>> \o s
           IN  /\ t \in Seq(S) /\ Len(t) = Len(s) + 1 /\ t[1] = o /\ Range(t) = {o} \cup Range(s)
               /\ \A x \in Range(s) : \E i \in 2..Len(t) : t[i] = x
<1> DEFINE a == <<o>>
           t == a \o s
<1>1. a \in Seq(S) /\ Len(a) = 1 /\ Range(a) = {o}
  BY DEF Range
<1>2. t \in Seq(S) /\ Len(t) = Len(s) + 1 /\ Range(t) = {o} \cup Range(s)
  <2> HIDE DEF a
  <2>1. t \in Seq(S) /\ Len(t) = Len(a) + Len(s) /\ Range(t) = Range(a) \cup Range(s)
    <3>1. a \in Seq(S) /\ s \in Seq(S)
      BY <1>1
    <3> QED BY <3>1, JoinedRange, Zenon
  <2> HIDE DEF t
  <2>2. Len(s) \in Nat
    OBVIOUS
  <2> QED BY <1>1, <2>1, <2>2
<1>3. t[1] = o /\ \A i \in 1..Len(s) : t[i + 1] = s[i]
  OBVIOUS
<1>4. ASSUME NEW x \in Range(s) PROVE \E i \in 2..Len(t) : t[i] = x
  <2>1. PICK i \in 1..Len(s) : s[i] = x
    BY DEF Range
  <2>2. i + 1 \in 2..Len(t) /\ t[i + 1] = x
    BY <1>2, <1>3, <2>1
  <2> QED BY <2>2
<1> QED BY <1>2, <1>3, <1>4

LEMMA SurelyOnce ==
    ASSUME NEW S, NEW s \in Seq(S), NEW t \in Seq(S), IsInjective(s), Range(s) = Range(t), Len(s) = Len(t)
    PROVE  IsInjective(t)
<1> DEFINE n == Len(s)
           R == Range(s)
<1>1. n \in Nat /\ DOMAIN s = 1..n /\ DOMAIN t = 1..n /\ Range(t) = R /\ n = Len(t)
  OBVIOUS
<1>2. s \in Surjection(1..n, R) /\ s \in Injection(1..n, R)
  <2>1. s \in [1..n -> R] /\ (\A r \in R : \E i \in 1..n : s[i] = r) /\ \A i, j \in 1..n : s[i] = s[j] => i = j
    BY DEF Range, IsInjective
  <2> HIDE DEF n, R
  <2> QED BY <2>1 DEF Surjection, Injection, IsInjective
<1>3. t \in Surjection(1..n, R)
  <2>1. t \in [1..n -> Range(t)] /\ \A r \in Range(t) : \E i \in 1..n : t[i] = r
    <3>1. t \in [1..n -> S]
      BY <1>1
    <3> QED BY <1>1, <3>1 DEF Range
  <2> HIDE DEF n, R
  <2> QED BY <1>1, <2>1 DEF Surjection
<1> HIDE DEF n, R
<1>4. IsFiniteSet(1..n)
  BY <1>1, FS_Interval
<1>5. IsFiniteSet(R) /\ Cardinality(R) = Cardinality(1..n)
  BY <1>2, <1>4, FS_Surjection
<1>6. t \in Injection(1..n, R)
  BY <1>3, <1>4, <1>5, FS_Surjection
<1> QED BY <1>1, <1>6 DEF Injection, IsInjective

LEMMA Gathered ==
    ASSUME NEW S, NEW n \in Nat, NEW f \in [1..n -> Seq(S)]
    PROVE  /\ f \in Seq(Seq(S)) /\ Len(f) = n /\ FlattenSeq(f) \in Seq(S)
           /\ \A x : x \in Range(FlattenSeq(f)) <=> \E i \in 1..n : x \in Range(f[i])
           /\ \A i \in 1..n : Len(f[i]) <= Len(FlattenSeq(f))
<1>1. f \in Seq(Seq(S)) /\ Len(f) = n
  OBVIOUS
<1> QED BY <1>1, Flattened

LEMMA GatheredOver ==
    ASSUME NEW S, NEW I, NEW s \in Seq(I), NEW F \in [I -> Seq(S)]
    PROVE  LET t == FlattenSeq([i \in DOMAIN s |-> F[s[i]]])
           IN  t \in Seq(S) /\ \A x : x \in Range(t) <=> \E o \in Range(s) : x \in Range(F[o])
<1> DEFINE n == Len(s)
           f == [i \in DOMAIN s |-> F[s[i]]]
<1>1. n \in Nat /\ DOMAIN s = 1..n /\ \A i \in 1..n : s[i] \in I
  OBVIOUS
<1> HIDE DEF n
<1>2. f \in [1..n -> Seq(S)] /\ \A i \in 1..n : f[i] = F[s[i]]
  BY <1>1
<1> HIDE DEF f
<1>3. FlattenSeq(f) \in Seq(S) /\ \A x : x \in Range(FlattenSeq(f)) <=> \E i \in 1..n : x \in Range(f[i])
  BY <1>1, <1>2, Gathered
<1>4. \A o : o \in Range(s) <=> \E i \in 1..n : o = s[i]
  BY <1>1 DEF Range
<1> DEFINE t == FlattenSeq(f)
<1> HIDE DEF t
<1>6. \A x : x \in Range(t) <=> \E i \in 1..n : x \in Range(F[s[i]])
  BY <1>2, <1>3 DEF t
<1>7. ASSUME NEW x PROVE x \in Range(t) <=> \E o \in Range(s) : x \in Range(F[o])
  <2>1. ASSUME NEW o \in Range(s), x \in Range(F[o]) PROVE x \in Range(t)
    BY <1>4, <1>6, <2>1
  <2>2. ASSUME x \in Range(t) PROVE \E o \in Range(s) : x \in Range(F[o])
    <3>1. PICK i \in 1..n : x \in Range(F[s[i]])
      BY <1>6, <2>2
    <3>2. s[i] \in Range(s)
      BY <1>4
    <3> QED BY <3>1, <3>2
  <2> QED BY <2>1, <2>2
<1>5. \A x : x \in Range(FlattenSeq(f)) <=> \E o \in Range(s) : x \in Range(F[o])
  BY <1>7 DEF t
<1> QED BY <1>3, <1>5 DEF f

LEMMA JoinedOnce ==
    ASSUME NEW S, NEW s \in Seq(S), NEW t \in Seq(S), IsInjective(s), IsInjective(t),
           Range(s) \cap Range(t) = {}
    PROVE  IsInjective(s \o t)
<1> DEFINE m == Len(s)
           n == Len(t)
           u == s \o t
<1>1. /\ m \in Nat /\ n \in Nat /\ DOMAIN s = 1..m /\ DOMAIN t = 1..n /\ DOMAIN u = 1..(m + n)
      /\ \A i \in 1..m : u[i] = s[i]
      /\ \A i \in (m + 1)..(m + n) : u[i] = t[i - m]
  OBVIOUS
<1>2. \A i, j \in 1..m : s[i] = s[j] => i = j
  BY <1>1 DEF IsInjective
<1>3. \A i, j \in 1..n : t[i] = t[j] => i = j
  BY <1>1 DEF IsInjective
<1>4. \A i \in 1..m, j \in 1..n : s[i] # t[j]
  BY <1>1 DEF Range
<1> HIDE DEF m, n, u
<1>5. \A i \in 1..(m + n) : i \in 1..m \/ (i \in (m + 1)..(m + n) /\ i - m \in 1..n)
  BY <1>1
<1>6. ASSUME NEW i \in 1..(m + n), NEW j \in 1..(m + n), u[i] = u[j] PROVE i = j
  <2>1. CASE i \in 1..m /\ j \in 1..m
    BY <1>1, <1>2, <1>6, <2>1
  <2>2. CASE i \in 1..m /\ j \in (m + 1)..(m + n) /\ j - m \in 1..n
    BY <1>1, <1>4, <1>6, <2>2
  <2>3. CASE j \in 1..m /\ i \in (m + 1)..(m + n) /\ i - m \in 1..n
    BY <1>1, <1>4, <1>6, <2>3
  <2>4. CASE /\ i \in (m + 1)..(m + n) /\ i - m \in 1..n
             /\ j \in (m + 1)..(m + n) /\ j - m \in 1..n
    <3>1. t[i - m] = t[j - m]
      BY <1>1, <1>6, <2>4
    <3>2. i - m = j - m
      BY <1>3, <2>4, <3>1
    <3> QED BY <1>1, <3>2
  <2> QED BY <1>5, <2>1, <2>2, <2>3, <2>4
<1> QED BY <1>1, <1>6 DEF IsInjective, u

LEMMA FlattenedOnce ==
    ASSUME NEW S, NEW ss \in Seq(Seq(S)), \A i \in 1..Len(ss) : IsInjective(ss[i]),
           \A i, j \in 1..Len(ss) : i # j => Range(ss[i]) \cap Range(ss[j]) = {}
    PROVE  IsInjective(FlattenSeq(ss))
<1> DEFINE n == Len(ss)
<1>1. n \in Nat /\ \A k \in 1..n : ss[k] \in Seq(S)
  OBVIOUS
<1>2. PICK f \in [0..n -> Seq(S)] :
         /\ f[0] = <<>> /\ f[n] = FlattenSeq(ss)
         /\ \A k \in 1..n : f[k] = f[k - 1] \o ss[k]
  BY Flattening
<1>7. /\ \A i \in 1..n : IsInjective(ss[i])
      /\ \A i, j \in 1..n : i # j => Range(ss[i]) \cap Range(ss[j]) = {}
  OBVIOUS
<1> HIDE DEF n
<1> DEFINE Holds(k) ==
             /\ IsInjective(f[k])
             /\ \A x \in Range(f[k]) : \E i \in 1..k : x \in Range(ss[i])
           P == {k \in Nat : k <= n => Holds(k)}
<1>3. 0 \in P
  <2>1. Range(f[0]) = {} /\ IsInjective(f[0])
    BY <1>2 DEF Range, IsInjective
  <2> QED BY <2>1
<1>4. ASSUME NEW k \in Nat, k \in P PROVE k + 1 \in P
  <2> SUFFICES ASSUME k + 1 <= n PROVE Holds(k + 1)
    OBVIOUS
  <2>1. k + 1 \in 1..n /\ k \in 0..n /\ (k + 1) - 1 = k
    BY <1>1
  <2>2. Holds(k)
    BY <1>4, <2>1
  <2>3. f[k + 1] = f[k] \o ss[k + 1] /\ f[k] \in Seq(S) /\ ss[k + 1] \in Seq(S)
    BY <1>1, <1>2, <2>1
  <2>4. Range(f[k + 1]) = Range(f[k]) \cup Range(ss[k + 1])
    BY <2>3, JoinedRange
  <2>5. \A i \in 1..k : i \in 1..n /\ i # k + 1 /\ i \in 1..(k + 1)
    BY <1>1, <2>1
  <2>6. Range(f[k]) \cap Range(ss[k + 1]) = {}
    BY <1>7, <2>1, <2>2, <2>5
  <2>7. IsInjective(f[k + 1])
    <3>1. IsInjective(f[k]) /\ IsInjective(ss[k + 1])
      BY <1>7, <2>1, <2>2
    <3> QED BY <2>3, <2>6, <3>1, JoinedOnce
  <2>8. k + 1 \in 1..(k + 1)
    OBVIOUS
  <2> QED BY <2>2, <2>4, <2>5, <2>7, <2>8
<1> HIDE DEF P
<1>5. n \in P
  BY <1>1, <1>3, <1>4, NumbersBySteps
<1> QED BY <1>1, <1>2, <1>5 DEF P

\* What F makes of the members of a list that has none twice, one after the other.
LEMMA GatheredOnce ==
    ASSUME NEW S, NEW I, NEW s, NEW F, NEW f, s \in Seq(I), F \in [I -> Seq(S)], IsInjective(s),
           \A a \in Range(s) : IsInjective(F[a]),
           \A a, b \in Range(s) : \A x : x \in Range(F[a]) /\ x \in Range(F[b]) => a = b,
           f \in [1..Len(s) -> Seq(S)], \A i \in 1..Len(s) : f[i] = F[s[i]]
    PROVE  IsInjective(FlattenSeq(f))
<1> DEFINE n == Len(s)
<1>1. n \in Nat /\ DOMAIN s = 1..n /\ \A i \in 1..n : s[i] \in I
  OBVIOUS
<1>2. \A i \in 1..n : s[i] \in Range(s)
  BY <1>1 DEF Range
<1>3. \A i, j \in 1..n : s[i] = s[j] => i = j
  BY <1>1 DEF IsInjective
<1>4. f \in [1..n -> Seq(S)] /\ \A i \in 1..n : f[i] = F[s[i]]
  OBVIOUS
<1> HIDE DEF n
<1>5. f \in Seq(Seq(S)) /\ Len(f) = n
  BY <1>1, <1>4, Gathered
<1>6. \A i \in 1..n : IsInjective(f[i])
  BY <1>2, <1>4
<1>7. \A i, j \in 1..n : i # j => Range(f[i]) \cap Range(f[j]) = {}
  <2> SUFFICES ASSUME NEW i \in 1..n, NEW j \in 1..n, i # j PROVE Range(f[i]) \cap Range(f[j]) = {}
    OBVIOUS
  <2>1. s[i] \in Range(s) /\ s[j] \in Range(s) /\ s[i] # s[j]
    BY <1>2, <1>3
  <2> QED BY <1>4, <2>1
<1> QED BY <1>5, <1>6, <1>7, FlattenedOnce

=============================================================================
