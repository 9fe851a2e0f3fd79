----------------------------- MODULE ReadsProofs -----------------------------
(***************************************************************************)
(* What is read of a table, whatever its rows and the writes in between: the *)
(* relation loaders deal every row in hand what belongs to it, and paging    *)
(* delivers what it promises, for any order, key and page size.             *)
(***************************************************************************)
EXTENDS Pagination, RelationLoad, FoldProofs, FunctionTheorems

-----------------------------------------------------------------------------
(* The loops of the relation loaders, element by element.                    *)

Maps(V) == UNION {[S -> V] : S \in SUBSET Key}

LEMMA EmptyMap == ASSUME NEW V PROVE <<>> \in Maps(V) /\ DOMAIN <<>> = {}
<1>1. <<>> \in [{} -> V]
  OBVIOUS
<1>2. {} \in SUBSET Key
  OBVIOUS
<1> QED BY <1>1, <1>2 DEF Maps

LEMMA MapPut ==
    ASSUME NEW V, NEW m \in Maps(V), NEW k \in Key, NEW v \in V
    PROVE  /\ Put(m, k, v) \in Maps(V)
           /\ DOMAIN Put(m, k, v) = DOMAIN m \cup {k}
           /\ Put(m, k, v)[k] = v
           /\ \A x \in DOMAIN m : x # k => Put(m, k, v)[x] = m[x]
<1>1. PICK S \in SUBSET Key : m \in [S -> V]
  BY DEF Maps
<1>2. Put(m, k, v) \in [S \cup {k} -> V]
  BY <1>1 DEF Put
<1>3. S \cup {k} \in SUBSET Key
  OBVIOUS
<1> QED BY <1>1, <1>2, <1>3 DEF Maps, Put

\* The same, named: what setting one key does.
Sets(new, m, k, v) ==
    /\ DOMAIN new = DOMAIN m \cup {k}
    /\ new[k] = v
    /\ \A x \in DOMAIN m : x # k => new[x] = m[x]

LEMMA PutSets == ASSUME NEW V, NEW m \in Maps(V), NEW k \in Key, NEW v \in V PROVE Sets(Put(m, k, v), m, k, v)
<1>1. PICK S \in SUBSET Key : m \in [S -> V]
  BY DEF Maps
<1> QED BY <1>1 DEF Maps, Put, Sets

LEMMA CountFold ==
    ASSUME NEW s \in Seq(Key \cup {Null})
    PROVE  \E f \in [0..Len(s) -> Maps(Nat)] :
              /\ f[0] = <<>> /\ f[Len(s)] = FoldLeft(Count, <<>>, s)
              /\ \A k \in 1..Len(s) : f[k] = Count(f[k - 1], s[k])
<1> DEFINE n == Len(s)
           D == Maps(Nat)
           op == [p \in D \X (1..n) |-> Count(p[1], s[p[2]])]
           iter == CHOOSE iter : iter = [t \in SUBSET DOMAIN s |->
                      IF t = {} THEN <<>> ELSE Count(iter[t \ {Max(t)}], s[Max(t)])]
<1>1. n \in Nat /\ DOMAIN s = 1..n /\ <<>> \in D
  BY EmptyMap
<1>2. ASSUME NEW d \in D, NEW i \in 1..n PROVE Count(d, s[i]) \in D
  <2>1. s[i] \in Key \cup {Null}
    BY <1>1
  <2>2. Get(d, s[i], 0) + 1 \in Nat
    BY DEF Get, Maps
  <2> QED BY <2>1, <2>2, MapPut DEF Count
<1>3. op \in [D \X (1..n) -> D] /\ \A d \in D, i \in 1..n : op[<<d, i>>] = Count(d, s[i])
  BY <1>2
<1> HIDE DEF op, D, n
<1>4. PICK g : FoldsSets(g, n, D, <<>>, op)
  BY <1>1, <1>3, FoldExists
<1>5. ASSUME NEW t \in SUBSET (1..n), t # {}
      PROVE  Max(t) \in 1..n /\ t \ {Max(t)} \in SUBSET (1..n)
  BY <1>1, <1>5, MaxOfIndices
<1>6. g = [t \in SUBSET DOMAIN s |-> IF t = {} THEN <<>> ELSE Count(g[t \ {Max(t)}], s[Max(t)])]
  <2>1. \A t \in SUBSET (1..n) : g[t] = IF t = {} THEN <<>> ELSE Count(g[t \ {Max(t)}], s[Max(t)])
    BY <1>3, <1>4, <1>5 DEF FoldsSets
  <2>2. g \in [SUBSET DOMAIN s -> D]
    BY <1>1, <1>4 DEF FoldsSets
  <2> QED BY <1>1, <2>1, <2>2
<1>7. iter = [t \in SUBSET DOMAIN s |-> IF t = {} THEN <<>> ELSE Count(iter[t \ {Max(t)}], s[Max(t)])]
  BY <1>6
<1>8. FoldLeft(Count, <<>>, s) = iter[1..n]
  BY <1>1 DEF FoldLeft, MapThenFoldSet
<1> HIDE DEF iter
<1>9. FoldsWithin(iter, n, D, <<>>, op)
  BY <1>1, <1>3, <1>5, <1>7 DEF FoldsWithin
<1>10. PICK f : FoldsTo(iter[1..n], f, n, D, <<>>, op)
  BY <1>1, <1>3, <1>9, FoldMeans
<1>11. ASSUME NEW k \in 1..n PROVE f[k] = Count(f[k - 1], s[k])
  <2>1. k - 1 \in 0..n
    BY <1>1
  <2> QED BY <1>3, <1>10, <2>1 DEF FoldsTo
<1> QED BY <1>1, <1>8, <1>10, <1>11 DEF n, D, FoldsTo

LEMMA WantFold ==
    ASSUME NEW s \in Seq(Key \cup {Null})
    PROVE  \E f \in [0..Len(s) -> Seq(Key)] :
              /\ f[0] = <<>> /\ f[Len(s)] = FoldLeft(Want, <<>>, s)
              /\ \A k \in 1..Len(s) : f[k] = Want(f[k - 1], s[k])
<1> DEFINE n == Len(s)
           D == Seq(Key)
           op == [p \in D \X (1..n) |-> Want(p[1], s[p[2]])]
           iter == CHOOSE iter : iter = [t \in SUBSET DOMAIN s |->
                      IF t = {} THEN <<>> ELSE Want(iter[t \ {Max(t)}], s[Max(t)])]
<1>1. n \in Nat /\ DOMAIN s = 1..n /\ <<>> \in D
  OBVIOUS
<1>2. ASSUME NEW d \in D, NEW i \in 1..n PROVE Want(d, s[i]) \in D
  <2>1. s[i] \in Key \cup {Null}
    BY <1>1
  <2>2. s[i] = Null \/ Append(d, s[i]) \in Seq(Key)
    BY <2>1
  <2> QED BY <2>2 DEF Want
<1>3. op \in [D \X (1..n) -> D] /\ \A d \in D, i \in 1..n : op[<<d, i>>] = Want(d, s[i])
  BY <1>2
<1> HIDE DEF op, D, n
<1>4. PICK g : FoldsSets(g, n, D, <<>>, op)
  BY <1>1, <1>3, FoldExists
<1>5. ASSUME NEW t \in SUBSET (1..n), t # {}
      PROVE  Max(t) \in 1..n /\ t \ {Max(t)} \in SUBSET (1..n)
  BY <1>1, <1>5, MaxOfIndices
<1>6. g = [t \in SUBSET DOMAIN s |-> IF t = {} THEN <<>> ELSE Want(g[t \ {Max(t)}], s[Max(t)])]
  <2>1. \A t \in SUBSET (1..n) : g[t] = IF t = {} THEN <<>> ELSE Want(g[t \ {Max(t)}], s[Max(t)])
    BY <1>3, <1>4, <1>5 DEF FoldsSets
  <2>2. g \in [SUBSET DOMAIN s -> D]
    BY <1>1, <1>4 DEF FoldsSets
  <2> QED BY <1>1, <2>1, <2>2
<1>7. iter = [t \in SUBSET DOMAIN s |-> IF t = {} THEN <<>> ELSE Want(iter[t \ {Max(t)}], s[Max(t)])]
  BY <1>6
<1>8. FoldLeft(Want, <<>>, s) = iter[1..n]
  BY <1>1 DEF FoldLeft, MapThenFoldSet
<1> HIDE DEF iter
<1>9. FoldsWithin(iter, n, D, <<>>, op)
  BY <1>1, <1>3, <1>5, <1>7 DEF FoldsWithin
<1>10. PICK f : FoldsTo(iter[1..n], f, n, D, <<>>, op)
  BY <1>1, <1>3, <1>9, FoldMeans
<1>11. ASSUME NEW k \in 1..n PROVE f[k] = Want(f[k - 1], s[k])
  <2>1. k - 1 \in 0..n
    BY <1>1
  <2> QED BY <1>3, <1>10, <2>1 DEF FoldsTo
<1> QED BY <1>1, <1>8, <1>10, <1>11 DEF n, D, FoldsTo

LEMMA ChildFold ==
    ASSUME NEW s \in Seq([row : Far, key : Key])
    PROVE  \E f \in [0..Len(s) -> Maps(Seq(Far))] :
              /\ f[0] = <<>> /\ f[Len(s)] = FoldLeft(AddChild, <<>>, s)
              /\ \A k \in 1..Len(s) : f[k] = AddChild(f[k - 1], s[k])
<1> DEFINE n == Len(s)
           D == Maps(Seq(Far))
           op == [p \in D \X (1..n) |-> AddChild(p[1], s[p[2]])]
           iter == CHOOSE iter : iter = [t \in SUBSET DOMAIN s |->
                      IF t = {} THEN <<>> ELSE AddChild(iter[t \ {Max(t)}], s[Max(t)])]
<1>1. n \in Nat /\ DOMAIN s = 1..n /\ <<>> \in D
  BY EmptyMap
<1>2. ASSUME NEW d \in D, NEW i \in 1..n PROVE AddChild(d, s[i]) \in D
  <2>0. s[i] \in [row : Far, key : Key]
    BY ElementOf DEF n
  <2>1. s[i].key \in Key /\ s[i].row \in Far
    BY <2>0
  <2>2. Get(d, s[i].key, <<>>) \in Seq(Far)
    BY DEF Get, Maps
  <2>3. Append(Get(d, s[i].key, <<>>), s[i].row) \in Seq(Far)
    BY <2>1, <2>2
  <2> QED BY <2>1, <2>3, MapPut DEF AddChild
<1>3. op \in [D \X (1..n) -> D] /\ \A d \in D, i \in 1..n : op[<<d, i>>] = AddChild(d, s[i])
  BY <1>2
<1> HIDE DEF op, D, n
<1>4. PICK g : FoldsSets(g, n, D, <<>>, op)
  BY <1>1, <1>3, FoldExists
<1>5. ASSUME NEW t \in SUBSET (1..n), t # {}
      PROVE  Max(t) \in 1..n /\ t \ {Max(t)} \in SUBSET (1..n)
  BY <1>1, <1>5, MaxOfIndices
<1>6. g = [t \in SUBSET DOMAIN s |-> IF t = {} THEN <<>> ELSE AddChild(g[t \ {Max(t)}], s[Max(t)])]
  <2>1. \A t \in SUBSET (1..n) : g[t] = IF t = {} THEN <<>> ELSE AddChild(g[t \ {Max(t)}], s[Max(t)])
    BY <1>3, <1>4, <1>5 DEF FoldsSets
  <2>2. g \in [SUBSET DOMAIN s -> D]
    BY <1>1, <1>4 DEF FoldsSets
  <2> QED BY <1>1, <2>1, <2>2
<1>7. iter = [t \in SUBSET DOMAIN s |-> IF t = {} THEN <<>> ELSE AddChild(iter[t \ {Max(t)}], s[Max(t)])]
  BY <1>6
<1>8. FoldLeft(AddChild, <<>>, s) = iter[1..n]
  BY <1>1 DEF FoldLeft, MapThenFoldSet
<1> HIDE DEF iter
<1>9. FoldsWithin(iter, n, D, <<>>, op)
  BY <1>1, <1>3, <1>5, <1>7 DEF FoldsWithin
<1>10. PICK f : FoldsTo(iter[1..n], f, n, D, <<>>, op)
  BY <1>1, <1>3, <1>9, FoldMeans
<1>11. ASSUME NEW k \in 1..n PROVE f[k] = AddChild(f[k - 1], s[k])
  <2>1. k - 1 \in 0..n
    BY <1>1
  <2> QED BY <1>3, <1>10, <2>1 DEF FoldsTo
<1> QED BY <1>1, <1>8, <1>10, <1>11 DEF n, D, FoldsTo

LEMMA TargetFold ==
    ASSUME NEW s \in Seq([row : Far, key : Key])
    PROVE  \E f \in [0..Len(s) -> Maps(Far)] :
              /\ f[0] = <<>> /\ f[Len(s)] = FoldLeft(InsertTarget, <<>>, s)
              /\ \A k \in 1..Len(s) : f[k] = InsertTarget(f[k - 1], s[k])
<1> DEFINE n == Len(s)
           D == Maps(Far)
           op == [p \in D \X (1..n) |-> InsertTarget(p[1], s[p[2]])]
           iter == CHOOSE iter : iter = [t \in SUBSET DOMAIN s |->
                      IF t = {} THEN <<>> ELSE InsertTarget(iter[t \ {Max(t)}], s[Max(t)])]
<1>1. n \in Nat /\ DOMAIN s = 1..n /\ <<>> \in D
  BY EmptyMap
<1>2. ASSUME NEW d \in D, NEW i \in 1..n PROVE InsertTarget(d, s[i]) \in D
  <2>0. s[i] \in [row : Far, key : Key]
    BY ElementOf DEF n
  <2>1. s[i].key \in Key /\ s[i].row \in Far
    BY <2>0
  <2> QED BY <2>1, MapPut DEF InsertTarget
<1>3. op \in [D \X (1..n) -> D] /\ \A d \in D, i \in 1..n : op[<<d, i>>] = InsertTarget(d, s[i])
  BY <1>2
<1> HIDE DEF op, D, n
<1>4. PICK g : FoldsSets(g, n, D, <<>>, op)
  BY <1>1, <1>3, FoldExists
<1>5. ASSUME NEW t \in SUBSET (1..n), t # {}
      PROVE  Max(t) \in 1..n /\ t \ {Max(t)} \in SUBSET (1..n)
  BY <1>1, <1>5, MaxOfIndices
<1>6. g = [t \in SUBSET DOMAIN s |-> IF t = {} THEN <<>> ELSE InsertTarget(g[t \ {Max(t)}], s[Max(t)])]
  <2>1. \A t \in SUBSET (1..n) : g[t] = IF t = {} THEN <<>> ELSE InsertTarget(g[t \ {Max(t)}], s[Max(t)])
    BY <1>3, <1>4, <1>5 DEF FoldsSets
  <2>2. g \in [SUBSET DOMAIN s -> D]
    BY <1>1, <1>4 DEF FoldsSets
  <2> QED BY <1>1, <2>1, <2>2
<1>7. iter = [t \in SUBSET DOMAIN s |-> IF t = {} THEN <<>> ELSE InsertTarget(iter[t \ {Max(t)}], s[Max(t)])]
  BY <1>6
<1>8. FoldLeft(InsertTarget, <<>>, s) = iter[1..n]
  BY <1>1 DEF FoldLeft, MapThenFoldSet
<1> HIDE DEF iter
<1>9. FoldsWithin(iter, n, D, <<>>, op)
  BY <1>1, <1>3, <1>5, <1>7 DEF FoldsWithin
<1>10. PICK f : FoldsTo(iter[1..n], f, n, D, <<>>, op)
  BY <1>1, <1>3, <1>9, FoldMeans
<1>11. ASSUME NEW k \in 1..n PROVE f[k] = InsertTarget(f[k - 1], s[k])
  <2>1. k - 1 \in 0..n
    BY <1>1
  <2> QED BY <1>3, <1>10, <2>1 DEF FoldsTo
<1> QED BY <1>1, <1>8, <1>10, <1>11 DEF n, D, FoldsTo

LEMMA MatchFold ==
    ASSUME NEW s \in Seq([row : Far, key : Key]), NEW q
    PROVE  \E f \in [0..Len(s) -> Seq(Far)] :
              /\ f[0] = <<>> /\ f[Len(s)] = Matches(q, s)
              /\ \A k \in 1..Len(s) : f[k] = AddMatch(q, f[k - 1], s[k])
<1> DEFINE n == Len(s)
           D == Seq(Far)
           op == [p \in D \X (1..n) |-> AddMatch(q, p[1], s[p[2]])]
           iter == CHOOSE iter : iter = [t \in SUBSET DOMAIN s |->
                      IF t = {} THEN <<>> ELSE AddMatch(q, iter[t \ {Max(t)}], s[Max(t)])]
<1>1. n \in Nat /\ DOMAIN s = 1..n /\ <<>> \in D
  OBVIOUS
<1>2. ASSUME NEW d \in D, NEW i \in 1..n PROVE AddMatch(q, d, s[i]) \in D
  <2>0. s[i] \in [row : Far, key : Key]
    BY ElementOf DEF n
  <2>1. s[i].row \in Far
    BY <2>0
  <2> QED BY <2>1 DEF AddMatch
<1>3. op \in [D \X (1..n) -> D] /\ \A d \in D, i \in 1..n : op[<<d, i>>] = AddMatch(q, d, s[i])
  BY <1>2
<1> HIDE DEF op, D, n
<1>4. PICK g : FoldsSets(g, n, D, <<>>, op)
  BY <1>1, <1>3, FoldExists
<1>5. ASSUME NEW t \in SUBSET (1..n), t # {}
      PROVE  Max(t) \in 1..n /\ t \ {Max(t)} \in SUBSET (1..n)
  BY <1>1, <1>5, MaxOfIndices
<1>6. g = [t \in SUBSET DOMAIN s |-> IF t = {} THEN <<>> ELSE AddMatch(q, g[t \ {Max(t)}], s[Max(t)])]
  <2>1. \A t \in SUBSET (1..n) : g[t] = IF t = {} THEN <<>> ELSE AddMatch(q, g[t \ {Max(t)}], s[Max(t)])
    BY <1>3, <1>4, <1>5 DEF FoldsSets
  <2>2. g \in [SUBSET DOMAIN s -> D]
    BY <1>1, <1>4 DEF FoldsSets
  <2> QED BY <1>1, <2>1, <2>2
<1>7. iter = [t \in SUBSET DOMAIN s |-> IF t = {} THEN <<>> ELSE AddMatch(q, iter[t \ {Max(t)}], s[Max(t)])]
  BY <1>6
<1>8. Matches(q, s) = iter[1..n]
  BY <1>1 DEF Matches, FoldLeft, MapThenFoldSet
<1> HIDE DEF iter
<1>9. FoldsWithin(iter, n, D, <<>>, op)
  BY <1>1, <1>3, <1>5, <1>7 DEF FoldsWithin
<1>10. PICK f : FoldsTo(iter[1..n], f, n, D, <<>>, op)
  BY <1>1, <1>3, <1>9, FoldMeans
<1>11. ASSUME NEW k \in 1..n PROVE f[k] = AddMatch(q, f[k - 1], s[k])
  <2>1. k - 1 \in 0..n
    BY <1>1
  <2> QED BY <1>3, <1>10, <2>1 DEF FoldsTo
<1> QED BY <1>1, <1>8, <1>10, <1>11 DEF n, D, FoldsTo

-----------------------------------------------------------------------------
(* What the loops compute.                                                   *)

Positions(s, m, x) == {i \in 1..m : s[i] = x}

LEMMA NextPosition ==
    ASSUME NEW s, NEW m \in Nat, NEW x
    PROVE  /\ IsFiniteSet(Positions(s, m, x)) /\ Cardinality(Positions(s, 0, x)) = 0
           /\ Cardinality(Positions(s, m + 1, x)) =
                 IF s[m + 1] = x THEN Cardinality(Positions(s, m, x)) + 1
                 ELSE Cardinality(Positions(s, m, x))
<1>1. IsFiniteSet(1..m) /\ Positions(s, m, x) \in SUBSET (1..m)
  BY FS_Interval DEF Positions
<1>2. IsFiniteSet(Positions(s, m, x))
  BY <1>1, FS_Subset
<1>3. Positions(s, 0, x) = {}
  BY DEF Positions
<1>4. m + 1 \notin Positions(s, m, x)
  BY DEF Positions
<1>5. 1..(m + 1) = 1..m \cup {m + 1}
  OBVIOUS
<1>6. CASE s[m + 1] = x
  <2>1. Positions(s, m + 1, x) = Positions(s, m, x) \cup {m + 1}
    BY <1>5, <1>6 DEF Positions
  <2>2. Cardinality(Positions(s, m, x) \cup {m + 1}) = Cardinality(Positions(s, m, x)) + 1
    BY <1>2, <1>4, FS_AddElement
  <2> QED BY <1>2, <1>3, <1>6, <2>1, <2>2, FS_EmptySet
<1>7. CASE s[m + 1] # x
  <2>1. Positions(s, m + 1, x) = Positions(s, m, x)
    BY <1>5, <1>7 DEF Positions
  <2> QED BY <1>2, <1>3, <1>7, <2>1, FS_EmptySet
<1> QED BY <1>6, <1>7

\* Counting gives each key the number of its rows.
LEMMA CountsAll ==
    ASSUME NEW s \in Seq(Key \cup {Null})
    PROVE  /\ FoldLeft(Count, <<>>, s) \in Maps(Nat)
           /\ \A x \in Key : Get(FoldLeft(Count, <<>>, s), x, 0) = Cardinality(Positions(s, Len(s), x))
<1>1. PICK f \in [0..Len(s) -> Maps(Nat)] :
         /\ f[0] = <<>> /\ f[Len(s)] = FoldLeft(Count, <<>>, s)
         /\ \A k \in 1..Len(s) : f[k] = Count(f[k - 1], s[k])
  BY CountFold
<1>2. Len(s) \in Nat
  OBVIOUS
<1> DEFINE Counts(m) == \A x \in Key : Get(f[m], x, 0) = Cardinality(Positions(s, m, x))
           P == {m \in Nat : m <= Len(s) => Counts(m)}
<1>3. 0 \in P
  BY <1>1, EmptyMap, NextPosition DEF Get
<1>4. ASSUME NEW m \in Nat, m \in P PROVE m + 1 \in P
  <2> SUFFICES ASSUME m + 1 <= Len(s), NEW x \in Key
               PROVE  Get(f[m + 1], x, 0) = Cardinality(Positions(s, m + 1, x))
    OBVIOUS
  <2>1. m \in 0..Len(s) /\ m + 1 \in 1..Len(s) /\ (m + 1) - 1 = m
    BY <1>2
  <2>2. f[m + 1] = Count(f[m], s[m + 1]) /\ f[m] \in Maps(Nat)
    BY <1>1, <2>1
  <2>3. s[m + 1] \in Key \cup {Null}
    BY <2>1, ElementOf
  <2>4. Get(f[m], x, 0) = Cardinality(Positions(s, m, x)) /\ Get(f[m], s[m + 1], 0) \in Nat
    <3>1. Get(f[m], s[m + 1], 0) \in Nat
      BY <2>2 DEF Get, Maps
    <3> QED BY <1>2, <1>4, <3>1
  <2>5. CASE s[m + 1] = Null
    <3>1. s[m + 1] # x
      BY <2>5, NullAssumption
    <3> QED BY <2>2, <2>4, <2>5, <3>1, NextPosition DEF Count
  <2>6. CASE s[m + 1] # Null
    <3> DEFINE v == Get(f[m], s[m + 1], 0) + 1
    <3>1. v \in Nat /\ s[m + 1] \in Key /\ f[m + 1] = Put(f[m], s[m + 1], v)
      BY <2>2, <2>3, <2>4, <2>6 DEF Count
    <3> HIDE DEF v
    <3>2. Get(f[m + 1], x, 0) = IF s[m + 1] = x THEN v ELSE Get(f[m], x, 0)
      BY <2>2, <3>1, MapPut DEF Get
    <3> QED BY <2>4, <3>2, NextPosition DEF v
  <2> QED BY <2>5, <2>6
<1> HIDE DEF P
<1>5. Nat \subseteq P
  BY <1>3, <1>4, NumbersBySteps
<1> HIDE DEF Counts
<1>6. Counts(Len(s))
  BY <1>2, <1>5 DEF P
<1>7. f[Len(s)] \in Maps(Nat)
  BY <1>1, <1>2
<1> QED BY <1>1, <1>6, <1>7 DEF Counts

\* Nothing is wanted only if no row has a key.
LEMMA WantsAll ==
    ASSUME NEW s \in Seq(Key \cup {Null})
    PROVE  /\ FoldLeft(Want, <<>>, s) \in Seq(Key)
           /\ FoldLeft(Want, <<>>, s) = <<>> => \A i \in 1..Len(s) : s[i] = Null
<1>1. PICK f \in [0..Len(s) -> Seq(Key)] :
         /\ f[0] = <<>> /\ f[Len(s)] = FoldLeft(Want, <<>>, s)
         /\ \A k \in 1..Len(s) : f[k] = Want(f[k - 1], s[k])
  BY WantFold
<1>2. Len(s) \in Nat
  OBVIOUS
<1> DEFINE P == {m \in Nat : m <= Len(s) /\ f[m] = <<>> => \A i \in 1..m : s[i] = Null}
<1>3. 0 \in P
  OBVIOUS
<1>4. ASSUME NEW m \in Nat, m \in P PROVE m + 1 \in P
  <2> SUFFICES ASSUME m + 1 <= Len(s), f[m + 1] = <<>>, NEW i \in 1..(m + 1) PROVE s[i] = Null
    OBVIOUS
  <2>1. m \in 0..Len(s) /\ m + 1 \in 1..Len(s) /\ (m + 1) - 1 = m
    BY <1>2
  <2>2. f[m + 1] = Want(f[m], s[m + 1]) /\ f[m] \in Seq(Key)
    BY <1>1, <2>1
  <2>3. s[m + 1] \in Key \cup {Null}
    BY <2>1, ElementOf
  <2>4. s[m + 1] = Null
    <3> SUFFICES ASSUME s[m + 1] # Null PROVE FALSE
      OBVIOUS
    <3>1. s[m + 1] \in Key
      BY <2>3
    <3>2. CASE Contains(f[m], s[m + 1])
      BY <2>2, <3>2 DEF Want, Contains
    <3>3. CASE ~Contains(f[m], s[m + 1])
      <4>1. f[m + 1] = Append(f[m], s[m + 1])
        BY <2>2, <3>3 DEF Want
      <4>2. Len(f[m + 1]) = Len(f[m]) + 1 /\ Len(f[m]) \in Nat
        BY <2>2, <3>1, <4>1
      <4> QED BY <4>2
    <3> QED BY <3>2, <3>3
  <2>5. f[m] = <<>>
    BY <2>2, <2>4 DEF Want
  <2>6. CASE i = m + 1
    BY <2>4, <2>6
  <2>7. CASE i # m + 1
    BY <1>2, <1>4, <2>5, <2>7
  <2> QED BY <2>6, <2>7
<1> HIDE DEF P
<1>5. Len(s) \in P
  BY <1>2, <1>3, <1>4, NumbersBySteps
<1> QED BY <1>1, <1>2, <1>5 DEF P

\* Grouping children gives each key the rows that match it, in order.
LEMMA ChildrenMatch ==
    ASSUME answer \in Seq([row : Far, key : Key]), NEW q \in Key
    PROVE  Get(FoldLeft(AddChild, <<>>, answer), q, <<>>) = Matching(q) /\ Matching(q) \in Seq(Far)
<1>00. PICK s \in Seq([row : Far, key : Key]) : s = answer
  OBVIOUS
<1> DEFINE End == Len(s)
<1>0. s \in Seq([row : Far, key : Key]) /\ End \in Nat
  OBVIOUS
<1>1. PICK f \in [0..End -> Maps(Seq(Far))] :
         /\ f[0] = <<>> /\ f[End] = FoldLeft(AddChild, <<>>, s)
         /\ \A k \in 1..End : f[k] = AddChild(f[k - 1], s[k])
  BY <1>0, ChildFold
<1>2. PICK g \in [0..End -> Seq(Far)] :
         /\ g[0] = <<>> /\ g[End] = Matches(q, s)
         /\ \A k \in 1..End : g[k] = AddMatch(q, g[k - 1], s[k])
  BY <1>0, MatchFold
<1> DEFINE Agree(m) == Get(f[m], q, <<>>) = g[m]
           P == {m \in Nat : m <= End => Agree(m)}
<1> HIDE DEF End
<1>3. 0 \in P
  BY <1>1, <1>2, EmptyMap DEF Get
<1>4. ASSUME NEW m \in Nat, m \in P PROVE m + 1 \in P
  <2> SUFFICES ASSUME m + 1 <= End PROVE Agree(m + 1)
    OBVIOUS
  <2>1. m \in 0..End /\ m + 1 \in 1..End /\ (m + 1) - 1 = m
    BY <1>0
  <2>2. /\ f[m + 1] = AddChild(f[m], s[m + 1]) /\ f[m] \in Maps(Seq(Far))
        /\ g[m + 1] = AddMatch(q, g[m], s[m + 1]) /\ g[m] \in Seq(Far)
    BY <1>1, <1>2, <2>1
  <2>3. s[m + 1] \in [row : Far, key : Key]
    BY <1>0, <2>1, ElementOf DEF End
  <2>4. PICK x \in Key, r \in Far : s[m + 1].key = x /\ s[m + 1].row = r
    BY <2>3
  <2>5. Agree(m)
    BY <1>0, <1>4
  <2> DEFINE v == Append(Get(f[m], x, <<>>), r)
  <2>7. Get(f[m], x, <<>>) \in Seq(Far)
    BY <2>2 DEF Get, Maps
  <2>8. v \in Seq(Far) /\ f[m + 1] = Put(f[m], x, v)
    BY <2>2, <2>4, <2>7 DEF AddChild
  <2> HIDE DEF v
  <2>9. Get(f[m + 1], q, <<>>) = IF x = q THEN v ELSE Get(f[m], q, <<>>)
    <3>0. Sets(f[m + 1], f[m], x, v)
      BY <2>2, <2>8, PutSets
    <3>1. DOMAIN f[m + 1] = DOMAIN f[m] \cup {x}
      BY <3>0 DEF Sets
    <3>2. f[m + 1][x] = v
      BY <3>0 DEF Sets
    <3>3. \A y \in DOMAIN f[m] : y # x => f[m + 1][y] = f[m][y]
      BY <3>0 DEF Sets
    <3> QED BY <3>1, <3>2, <3>3 DEF Get
  <2>10. g[m + 1] = IF x = q THEN Append(g[m], r) ELSE g[m]
    BY <2>2, <2>4 DEF AddMatch
  <2> QED BY <2>5, <2>9, <2>10 DEF v
<1> HIDE DEF P
<1>5. End \in P
  BY <1>0, <1>3, <1>4, NumbersBySteps
<1> HIDE DEF Agree
<1>6. Agree(End)
  BY <1>0, <1>5 DEF P
<1>7. f[End] = FoldLeft(AddChild, <<>>, answer) /\ g[End] = Matching(q) /\ g[End] \in Seq(Far)
  BY <1>00, <1>0, <1>1, <1>2 DEF Matching
<1> QED BY <1>6, <1>7 DEF Agree

\* Inserting targets gives each key one of the rows that match it, if any does.
LEMMA TargetsMatch ==
    ASSUME answer \in Seq([row : Far, key : Key]), NEW q \in Key
    PROVE  LET targets == FoldLeft(InsertTarget, <<>>, answer) IN
           IF Matching(q) = <<>> THEN q \notin DOMAIN targets
           ELSE q \in DOMAIN targets /\ targets[q] \in ToSet(Matching(q))
<1>00. PICK s \in Seq([row : Far, key : Key]) : s = answer
  OBVIOUS
<1> DEFINE End == Len(s)
<1>0. s \in Seq([row : Far, key : Key]) /\ End \in Nat
  OBVIOUS
<1>1. PICK f \in [0..End -> Maps(Far)] :
         /\ f[0] = <<>> /\ f[End] = FoldLeft(InsertTarget, <<>>, s)
         /\ \A k \in 1..End : f[k] = InsertTarget(f[k - 1], s[k])
  BY <1>0, TargetFold
<1>2. PICK g \in [0..End -> Seq(Far)] :
         /\ g[0] = <<>> /\ g[End] = Matches(q, s)
         /\ \A k \in 1..End : g[k] = AddMatch(q, g[k - 1], s[k])
  BY <1>0, MatchFold
<1> DEFINE Agree(m) == IF g[m] = <<>> THEN q \notin DOMAIN f[m]
                       ELSE q \in DOMAIN f[m] /\ f[m][q] \in ToSet(g[m])
           P == {m \in Nat : m <= End => Agree(m)}
<1> HIDE DEF End
<1>3. 0 \in P
  BY <1>1, <1>2, EmptyMap
<1>4. ASSUME NEW m \in Nat, m \in P PROVE m + 1 \in P
  <2> SUFFICES ASSUME m + 1 <= End PROVE Agree(m + 1)
    OBVIOUS
  <2>1. m \in 0..End /\ m + 1 \in 1..End /\ (m + 1) - 1 = m
    BY <1>0
  <2>2. /\ f[m + 1] = InsertTarget(f[m], s[m + 1]) /\ f[m] \in Maps(Far)
        /\ g[m + 1] = AddMatch(q, g[m], s[m + 1]) /\ g[m] \in Seq(Far)
    BY <1>1, <1>2, <2>1
  <2>3. s[m + 1] \in [row : Far, key : Key]
    BY <1>0, <2>1, ElementOf DEF End
  <2>4. PICK x \in Key, r \in Far : s[m + 1].key = x /\ s[m + 1].row = r
    BY <2>3
  <2>5. Agree(m)
    BY <1>0, <1>4
  <2>6. f[m + 1] = Put(f[m], x, r)
    BY <2>2, <2>4 DEF InsertTarget
  <2>s. Sets(f[m + 1], f[m], x, r)
    BY <2>2, <2>6, PutSets
  <2>7. CASE x = q
    <3>1. g[m + 1] = Append(g[m], r)
      BY <2>2, <2>7, <2>4 DEF AddMatch
    <3>2. q \in DOMAIN f[m + 1] /\ f[m + 1][q] = r
      BY <2>s, <2>7 DEF Sets
    <3>3. g[m + 1] # <<>> /\ r \in ToSet(g[m + 1])
      <4>1. Len(g[m + 1]) = Len(g[m]) + 1 /\ g[m + 1][Len(g[m]) + 1] = r /\ Len(g[m]) \in Nat
        BY <2>2, <2>4, <3>1
      <4>2. Len(g[m]) + 1 \in DOMAIN g[m + 1]
        BY <2>2, <2>4, <3>1
      <4> QED BY <4>1, <4>2 DEF ToSet
    <3> QED BY <3>2, <3>3
  <2>8. CASE x # q
    <3>1. g[m + 1] = g[m]
      BY <2>2, <2>8, <2>4 DEF AddMatch
    <3>2. DOMAIN f[m + 1] = DOMAIN f[m] \cup {x} /\ \A y \in DOMAIN f[m] : y # x => f[m + 1][y] = f[m][y]
      BY <2>s DEF Sets
    <3> QED BY <2>5, <2>8, <3>1, <3>2
  <2> QED BY <2>7, <2>8
<1> HIDE DEF P
<1>5. End \in P
  BY <1>0, <1>3, <1>4, NumbersBySteps
<1> HIDE DEF Agree
<1>6. Agree(End)
  BY <1>0, <1>5 DEF P
<1>7. f[End] = FoldLeft(InsertTarget, <<>>, answer) /\ g[End] = Matching(q) /\ g[End] \in Seq(Far)
  BY <1>00, <1>0, <1>1, <1>2 DEF Matching
<1> QED BY <1>6, <1>7 DEF Agree

-----------------------------------------------------------------------------
(* The inductive invariant.                                                  *)

LoadTyped ==
    /\ load \in {"many", "one"}
    /\ phase \in {"counting", "fetching", "grouping", "dealing", "done", "failed"}
    /\ near \in Seq(Key \cup {Null})
    /\ DOMAIN far \subseteq Far
    /\ wanted \in Seq(Key)
    /\ answer \in Seq([row : Far, key : Key])
    /\ dealt \in Seq(Seq(Far) \cup Far \cup {Null})

\* Nothing is dealt before the far rows are grouped.
NotYet == phase \in {"counting", "fetching", "grouping"} => dealt = <<>>

\* The positions of the rows in hand that still want the group of a key.
Wanting(k) == {i \in 1..Len(near) : i > Len(dealt) /\ near[i] = k}

\* remaining counts the takers a group still has.
Counted ==
    load = "many" /\ phase \in {"fetching", "grouping", "dealing"} =>
        /\ remaining \in Maps(Nat)
        /\ \A k \in Key : Get(remaining, k, 0) = Cardinality(Wanting(k))

\* A group is there, whole, as long as it has a taker.
WholeGroups ==
    phase = "dealing" /\ load = "many" =>
        \A k \in Key : Wanting(k) # {} => Get(grouped, k, <<>>) = Matching(k)
Targets ==
    phase = "dealing" /\ load = "one" =>
        \A k \in Key : IF Matching(k) = <<>> THEN k \notin DOMAIN grouped
                       ELSE k \in DOMAIN grouped /\ grouped[k] \in ToSet(Matching(k))

\* What a row in hand is owed.
Owed(k, d) ==
    IF k = Null THEN d = Nothing
    ELSE IF load = "many" THEN d = Matching(k)
    ELSE IF Matching(k) = <<>> THEN d = Null
    ELSE d \in ToSet(Matching(k))

DealtRight ==
    phase \in {"dealing", "done"} =>
        /\ Len(dealt) <= Len(near)
        /\ \A i \in 1..Len(dealt) : Owed(near[i], dealt[i])
        /\ phase = "done" => Len(dealt) = Len(near)

LoadInv == LoadTyped /\ NotYet /\ Counted /\ WholeGroups /\ Targets /\ DealtRight

LEMMA LoadInvInit == ASSUME LoadInit PROVE LoadInv
<1>1. near \in Seq(Key \cup {Null})
  BY BoundsAssumption DEF LoadInit
<1>2. DOMAIN far \subseteq Far
  BY DEF LoadInit
<1> QED
  BY <1>1, <1>2 DEF LoadInit, LoadInv, LoadTyped, NotYet, Counted, WholeGroups, Targets, DealtRight

LEMMA OwedStays ==
    ASSUME load' = load, answer' = answer, NEW k, NEW d
    PROVE  Owed(k, d)' = Owed(k, d)
  BY DEF Owed, Matching, Nothing

LEMMA CountKeysKeepsInv == ASSUME LoadInv, CountKeys PROVE LoadInv'
<1> USE DEF LoadInv
<1>0. /\ phase = "counting" /\ dealt = <<>>
      /\ load' = load /\ near' = near /\ answer' = answer /\ far' = far
  BY DEF CountKeys, NotYet
<1>1. near \in Seq(Key \cup {Null}) /\ Len(near) \in Nat
  BY DEF LoadTyped
<1>2. wanted' = FoldLeft(Want, <<>>, near) /\ wanted' \in Seq(Key)
      /\ (wanted' = <<>> => \A i \in 1..Len(near) : near[i] = Null)
  BY <1>1, WantsAll DEF CountKeys
<1>3. CASE wanted' # <<>>
  <2>1. phase' = "fetching" /\ dealt' = dealt
    BY <1>3 DEF CountKeys
  <2>2. LoadTyped'
    BY <1>0, <1>2, <2>1 DEF LoadTyped
  <2>3. Counted'
    <3> SUFFICES ASSUME load = "many"
                 PROVE  remaining' \in Maps(Nat)
                        /\ \A k \in Key : Get(remaining', k, 0) = Cardinality(Wanting(k)')
      BY <1>0 DEF Counted
    <3>1. remaining' = FoldLeft(Count, <<>>, near)
      BY DEF CountKeys
    <3>2. \A k : Wanting(k)' = Positions(near, Len(near), k)
      BY <1>0, <1>1, <2>1 DEF Wanting, Positions
    <3> QED BY <1>1, <3>1, <3>2, CountsAll
  <2> QED BY <1>0, <2>1, <2>2, <2>3 DEF NotYet, WholeGroups, Targets, DealtRight
<1>4. CASE wanted' = <<>>
  <2>1. phase' = "done" /\ dealt' = [i \in DOMAIN near |-> Nothing]
    BY <1>4 DEF CountKeys
  <2>2. Nothing \in Seq(Far) \cup Far \cup {Null}
    BY DEF Nothing
  <2>3. DOMAIN near = 1..Len(near)
    BY <1>1
  <2>4. dealt' \in Seq(Seq(Far) \cup Far \cup {Null}) /\ Len(dealt') = Len(near)
    BY <1>1, <2>1, <2>2, <2>3
  <2>5. LoadTyped'
    BY <1>0, <1>2, <2>1, <2>4 DEF LoadTyped
  <2>6. ASSUME NEW i \in 1..Len(near) PROVE Owed(near[i], dealt'[i])
    BY <1>2, <1>4, <2>1, <2>3 DEF Owed
  <2>7. DealtRight'
    BY <1>0, <1>1, <2>1, <2>4, <2>6, OwedStays DEF DealtRight
  <2> QED BY <2>1, <2>5, <2>7 DEF NotYet, Counted, WholeGroups, Targets
<1> QED BY <1>3, <1>4

LEMMA FetchFarKeepsInv == ASSUME LoadInv, FetchFar PROVE LoadInv'
<1> USE DEF LoadInv
<1> DEFINE found == {r \in DOMAIN far : Contains(wanted, far[r])}
<1>1. IsFiniteSet(found) /\ Cardinality(found) \in Nat
  <2>1. found \in SUBSET Far
    BY DEF LoadTyped
  <2> QED BY <2>1, BoundsAssumption, FS_Subset, FS_CardinalityType
<1>2. ASSUME NEW r \in found PROVE r \in Far /\ far[r] \in Key
  BY DEF LoadTyped, Contains
<1>3. PICK order \in SetToSeqs(found) :
         answer' = [i \in DOMAIN order |-> [row |-> order[i], key |-> far[order[i]]]]
  BY DEF FetchFar
<1>4. order \in [1..Cardinality(found) -> found]
  BY <1>3 DEF SetToSeqs
<1> HIDE DEF found
<1>5. answer' \in [1..Cardinality(found) -> [row : Far, key : Key]]
  BY <1>2, <1>3, <1>4
<1>6. answer' \in Seq([row : Far, key : Key])
  BY <1>1, <1>5, IsSequence
<1>7. LoadTyped'
  BY <1>6 DEF FetchFar, LoadTyped
<1>8. Counted'
  BY DEF FetchFar, Counted, Wanting
<1> QED BY <1>7, <1>8 DEF FetchFar, NotYet, WholeGroups, Targets, DealtRight

LEMMA GroupFarKeepsInv == ASSUME LoadInv, GroupFar PROVE LoadInv'
<1> USE DEF LoadInv
<1>0. answer \in Seq([row : Far, key : Key]) /\ answer' = answer /\ load' = load
  BY DEF GroupFar, LoadTyped
<1>1. LoadTyped'
  BY DEF GroupFar, LoadTyped
<1>2. Counted'
  BY DEF GroupFar, Counted, Wanting
<1>3. WholeGroups'
  <2> SUFFICES ASSUME load = "many", NEW k \in Key PROVE Get(grouped', k, <<>>) = Matching(k)'
    BY <1>0 DEF WholeGroups
  <2>1. grouped' = FoldLeft(AddChild, <<>>, answer)
    BY DEF GroupFar
  <2> QED BY <1>0, <2>1, ChildrenMatch DEF Matching
<1>4. Targets'
  <2> SUFFICES ASSUME load = "one", NEW k \in Key
               PROVE  IF Matching(k)' = <<>> THEN k \notin DOMAIN grouped'
                      ELSE k \in DOMAIN grouped' /\ grouped'[k] \in ToSet(Matching(k)')
    BY <1>0 DEF Targets
  <2>1. grouped' = FoldLeft(InsertTarget, <<>>, answer)
    BY DEF GroupFar
  <2> QED BY <1>0, <2>1, TargetsMatch DEF Matching
<1>5. DealtRight'
  BY DEF GroupFar, DealtRight, NotYet, LoadTyped
<1> QED BY <1>1, <1>2, <1>3, <1>4, <1>5 DEF GroupFar, NotYet

\* Dealing to the next row takes it out of those that want its group.
LEMMA DealWants ==
    ASSUME LoadTyped, Len(dealt) < Len(near), near' = near, Len(dealt') = Len(dealt) + 1, NEW k
    PROVE  /\ Wanting(k)' = Wanting(k) \ {Len(dealt) + 1}
           /\ Len(dealt) + 1 \in Wanting(k) <=> NextKey = k
           /\ IsFiniteSet(Wanting(k)) /\ Cardinality(Wanting(k)) \in Nat
<1>1. Len(dealt) \in Nat /\ Len(near) \in Nat
  BY DEF LoadTyped
<1>2. Wanting(k) \in SUBSET (1..Len(near)) /\ IsFiniteSet(1..Len(near))
  BY <1>1, FS_Interval DEF Wanting
<1>3. IsFiniteSet(Wanting(k)) /\ Cardinality(Wanting(k)) \in Nat
  BY <1>2, FS_Subset, FS_CardinalityType
<1>4. Wanting(k)' = Wanting(k) \ {Len(dealt) + 1}
  BY <1>1 DEF Wanting
<1>5. Len(dealt) + 1 \in Wanting(k) <=> NextKey = k
  BY <1>1 DEF Wanting, NextKey
<1> QED BY <1>3, <1>4, <1>5

\* What Deal gives the next row is its due.
LEMMA DealPays ==
    ASSUME LoadInv, phase = "dealing", Len(dealt) < Len(near), NEW d, d \in Seq(Far) \cup Far \cup {Null},
           dealt' = Append(dealt, d), Owed(NextKey, d),
           load' = load, near' = near, answer' = answer, phase' = phase
    PROVE  /\ dealt' \in Seq(Seq(Far) \cup Far \cup {Null})
           /\ Len(dealt') = Len(dealt) + 1
           /\ DealtRight'
<1> DEFINE T == Seq(Far) \cup Far \cup {Null}
<1>1. dealt \in Seq(T) /\ d \in T /\ Len(dealt) \in Nat /\ Len(near) \in Nat
  BY DEF LoadInv, LoadTyped
<1> HIDE DEF T
<1>2. /\ dealt' \in Seq(T) /\ Len(dealt') = Len(dealt) + 1
      /\ dealt'[Len(dealt) + 1] = d /\ \A i \in 1..Len(dealt) : dealt'[i] = dealt[i]
  BY <1>1
<1>3. ASSUME NEW i \in 1..(Len(dealt) + 1) PROVE Owed(near[i], dealt'[i])
  <2>1. CASE i = Len(dealt) + 1
    BY <1>2, <2>1 DEF NextKey
  <2>2. CASE i # Len(dealt) + 1
    <3>1. i \in 1..Len(dealt)
      BY <1>1, <2>2
    <3> QED BY <1>2, <3>1 DEF LoadInv, DealtRight
  <2> QED BY <2>1, <2>2
<1>4. DealtRight'
  BY <1>1, <1>2, <1>3, OwedStays DEF DealtRight
<1> QED BY <1>2, <1>4 DEF T

LEMMA DealKeepsInv == ASSUME LoadInv, Deal PROVE LoadInv'
<1> USE DEF LoadInv
<1>p. PICK p : p = Len(dealt) + 1
  OBVIOUS
<1>k. PICK k : k = NextKey
  OBVIOUS
<1>0. /\ phase = "dealing" /\ phase' = "dealing" /\ Len(dealt) < Len(near)
      /\ load' = load /\ near' = near /\ far' = far /\ wanted' = wanted /\ answer' = answer
  BY DEF Deal
<1>1. Len(dealt) \in Nat /\ Len(near) \in Nat /\ p \in 1..Len(near)
  BY <1>0, <1>p DEF LoadTyped
<1>2. k \in Key \cup {Null}
  <2>1. near \in Seq(Key \cup {Null})
    BY DEF LoadTyped
  <2>2. near[p] \in Key \cup {Null}
    BY <1>1, <2>1, ElementOf
  <2> QED BY <1>k, <1>p, <2>2 DEF NextKey
<1>3. ASSUME NEW x PROVE Matching(x)' = Matching(x)
  BY <1>0 DEF Matching
<1>4. ASSUME NEW x \in Key PROVE Matching(x) \in Seq(Far)
  <2>1. answer \in Seq([row : Far, key : Key])
    BY DEF LoadTyped
  <2> QED BY <2>1, ChildrenMatch
<1>5. ASSUME LoadTyped', DealtRight', Counted', WholeGroups', Targets' PROVE LoadInv'
  BY <1>0, <1>5 DEF NotYet
<1>6. ASSUME dealt' \in Seq(Seq(Far) \cup Far \cup {Null}) PROVE LoadTyped'
  BY <1>0, <1>6 DEF LoadTyped
<1>7. ASSUME Len(dealt') = Len(dealt) + 1, NEW x
      PROVE  /\ Wanting(x)' = Wanting(x) \ {p} /\ (p \in Wanting(x) <=> k = x)
             /\ IsFiniteSet(Wanting(x)) /\ Cardinality(Wanting(x)) \in Nat
  BY <1>0, <1>7, <1>p, <1>k, DealWants
<1>8. CASE k = Null
  <2>1. dealt' = Append(dealt, Nothing) /\ remaining' = remaining /\ grouped' = grouped
    BY <1>k, <1>8 DEF Deal, TakeGroup, TakeTarget
  <2>2. Nothing \in Seq(Far) \cup Far \cup {Null} /\ Owed(NextKey, Nothing)
    BY <1>k, <1>8 DEF Nothing, Owed
  <2>3. dealt' \in Seq(Seq(Far) \cup Far \cup {Null}) /\ Len(dealt') = Len(dealt) + 1 /\ DealtRight'
    BY <1>0, <2>1, <2>2, DealPays
  <2>4. \A x \in Key : Wanting(x)' = Wanting(x)
    BY <1>7, <1>8, <2>3, NullAssumption
  <2>5. Counted' /\ WholeGroups' /\ Targets'
    BY <1>0, <1>3, <2>1, <2>4 DEF Counted, WholeGroups, Targets
  <2> QED BY <1>5, <1>6, <2>3, <2>5
<1>9. CASE k # Null /\ load = "many"
  <2>0. k \in Key /\ k # Null /\ load = "many"
    BY <1>2, <1>9
  <2>1. TakeGroup(k)
    BY <1>k, <1>9 DEF Deal
  <2> DEFINE d == Get(grouped, k, <<>>)
  <2>2. d = Matching(k)
    <3>1. p \in Wanting(k)
      BY <1>1, <1>p, <1>k DEF Wanting, NextKey
    <3> QED BY <1>0, <2>0, <3>1 DEF WholeGroups
  <2>3. d \in Seq(Far) \cup Far \cup {Null} /\ Owed(NextKey, d)
    BY <1>k, <1>4, <2>0, <2>2 DEF Owed
  <2>4. dealt' = Append(dealt, d)
    BY <2>1 DEF TakeGroup
  <2> HIDE DEF d
  <2>5. dealt' \in Seq(Seq(Far) \cup Far \cup {Null}) /\ Len(dealt') = Len(dealt) + 1 /\ DealtRight'
    BY <1>0, <2>3, <2>4, DealPays
  <2>6. remaining \in Maps(Nat) /\ \A x \in Key : Get(remaining, x, 0) = Cardinality(Wanting(x))
    BY <1>0, <2>0 DEF Counted
  <2>7. /\ Wanting(k)' = Wanting(k) \ {p} /\ p \in Wanting(k)
        /\ Cardinality(Wanting(k)) \in Nat \ {0} /\ Cardinality(Wanting(k)') = Cardinality(Wanting(k)) - 1
    <3>1. /\ Wanting(k)' = Wanting(k) \ {p} /\ p \in Wanting(k)
          /\ IsFiniteSet(Wanting(k)) /\ Cardinality(Wanting(k)) \in Nat
      BY <1>7, <2>5
    <3>2. Cardinality(Wanting(k) \ {p}) = Cardinality(Wanting(k)) - 1
      BY <3>1, FS_RemoveElement
    <3>3. Cardinality(Wanting(k)) # 0
      BY <3>1, FS_EmptySet
    <3> QED BY <3>1, <3>2, <3>3
  <2>8. /\ k \in DOMAIN remaining /\ remaining[k] = Cardinality(Wanting(k))
        /\ remaining[k] - 1 \in Nat
    BY <2>0, <2>6, <2>7 DEF Get
  <2>9. remaining' = Put(remaining, k, remaining[k] - 1)
    BY <2>1 DEF TakeGroup
  <2>10. Sets(remaining', remaining, k, remaining[k] - 1) /\ remaining' \in Maps(Nat)
    <3>1. remaining' \in Maps(Nat)
      BY <2>0, <2>6, <2>8, <2>9, MapPut
    <3> QED BY <2>0, <2>6, <2>8, <2>9, <3>1, PutSets
  <2>11. ASSUME NEW x \in Key, x # k PROVE Wanting(x)' = Wanting(x)
    BY <1>7, <2>5, <2>11
  <2>12. Counted'
    <3>1. ASSUME NEW x \in Key PROVE Get(remaining', x, 0) = Cardinality(Wanting(x)')
      <4>1. CASE x = k
        BY <2>7, <2>8, <2>10, <4>1 DEF Get, Sets
      <4>2. CASE x # k
        BY <2>6, <2>10, <2>11, <4>2 DEF Get, Sets
      <4> QED BY <4>1, <4>2
    <3> QED BY <2>10, <3>1 DEF Counted
  <2>13. WholeGroups'
    <3> SUFFICES ASSUME NEW x \in Key, Wanting(x)' # {} PROVE Get(grouped', x, <<>>) = Matching(x)
      BY <1>3 DEF WholeGroups
    <3>1. Wanting(x) # {}
      BY <2>7, <2>11
    <3>2. Get(grouped, x, <<>>) = Matching(x)
      BY <1>0, <2>0, <3>1 DEF WholeGroups
    <3>3. CASE x # k
      BY <2>1, <3>2, <3>3 DEF TakeGroup, Get, Drop
    <3>4. CASE x = k
      <4>1. Cardinality(Wanting(k)') # 0
        <5>1. IsFiniteSet(Wanting(k))
          BY <1>7, <2>5
        <5>2. IsFiniteSet(Wanting(k) \ {p})
          BY <5>1, FS_RemoveElement
        <5>3. Wanting(k)' # {}
          BY <3>4
        <5> QED BY <2>7, <5>2, <5>3, FS_EmptySet
      <4>2. remaining[k] # 1
        BY <2>7, <2>8, <4>1
      <4> QED BY <2>1, <3>2, <4>2 DEF TakeGroup
    <3> QED BY <3>3, <3>4
  <2>14. Targets'
    BY <1>0, <2>0 DEF Targets
  <2> QED BY <1>5, <1>6, <2>5, <2>12, <2>13, <2>14
<1>10. CASE k # Null /\ load = "one"
  <2>0. k \in Key /\ k # Null /\ load = "one"
    BY <1>2, <1>10
  <2>1. TakeTarget(k)
    BY <1>k, <1>10 DEF Deal
  <2> DEFINE d == Get(grouped, k, Null)
  <2>2. IF Matching(k) = <<>> THEN d = Null ELSE d \in ToSet(Matching(k))
    BY <1>0, <2>0 DEF Targets, Get
  <2>3. d \in Seq(Far) \cup Far \cup {Null} /\ Owed(NextKey, d)
    <3>1. ToSet(Matching(k)) \subseteq Far
      BY <1>4, <2>0 DEF ToSet
    <3> QED BY <1>k, <2>0, <2>2, <3>1 DEF Owed
  <2>4. dealt' = Append(dealt, d) /\ remaining' = remaining /\ grouped' = grouped
    BY <2>1 DEF TakeTarget
  <2> HIDE DEF d
  <2>5. dealt' \in Seq(Seq(Far) \cup Far \cup {Null}) /\ Len(dealt') = Len(dealt) + 1 /\ DealtRight'
    BY <1>0, <2>3, <2>4, DealPays
  <2>6. Counted' /\ WholeGroups'
    BY <1>0, <2>0 DEF Counted, WholeGroups
  <2>7. Targets'
    BY <1>0, <1>3, <2>4 DEF Targets
  <2> QED BY <1>5, <1>6, <2>5, <2>6, <2>7
<1>11. load \in {"many", "one"}
  BY DEF LoadTyped
<1> QED BY <1>8, <1>9, <1>10, <1>11

LEMMA LoadInvStep == ASSUME LoadInv, [LoadNext]_loadVars PROVE LoadInv'
<1>1. CASE CountKeys
  BY <1>1, CountKeysKeepsInv
<1>2. CASE FetchFar
  BY <1>2, FetchFarKeepsInv
<1>3. CASE GroupFar
  BY <1>3, GroupFarKeepsInv
<1>4. CASE Deal
  BY <1>4, DealKeepsInv
<1>5. CASE Finish
  <2>1. /\ phase = "dealing" /\ phase' = "done" /\ Len(dealt) = Len(near)
        /\ load' = load /\ near' = near /\ far' = far /\ wanted' = wanted /\ answer' = answer /\ dealt' = dealt
    BY <1>5 DEF Finish
  <2>2. LoadTyped'
    BY <2>1 DEF LoadInv, LoadTyped
  <2>3. DealtRight'
    BY <2>1, OwedStays DEF LoadInv, DealtRight
  <2> QED BY <2>1, <2>2, <2>3 DEF LoadInv, NotYet, Counted, WholeGroups, Targets
<1>6. CASE WriteFar
  <2>1. DOMAIN far' \subseteq Far
    <3>1. DOMAIN far \subseteq Far
      BY DEF LoadInv, LoadTyped
    <3>2. CASE \E r \in Far, k \in Key \cup {Null} : far' = Put(far, r, k)
      BY <3>1, <3>2 DEF Put
    <3>3. CASE \E r \in DOMAIN far : far' = Drop(far, r)
      BY <3>1, <3>3 DEF Drop
    <3> QED BY <1>6, <3>2, <3>3 DEF WriteFar
  <2>2. /\ phase \in {"counting", "fetching"} /\ phase' = phase /\ load' = load /\ near' = near
        /\ remaining' = remaining /\ wanted' = wanted /\ answer' = answer /\ dealt' = dealt
    BY <1>6 DEF WriteFar
  <2>3. Counted'
    BY <2>2 DEF LoadInv, Counted, Wanting
  <2> QED BY <2>1, <2>2, <2>3 DEF LoadInv, LoadTyped, NotYet, WholeGroups, Targets, DealtRight
<1>7. CASE Fail
  BY <1>7 DEF Fail, LoadInv, LoadTyped, NotYet, Counted, Wanting, WholeGroups, Targets, DealtRight
<1>8. CASE UNCHANGED loadVars
  BY <1>8 DEF loadVars, LoadInv, LoadTyped, NotYet, Counted, Wanting, WholeGroups, Targets, DealtRight,
              Owed, Matching, Nothing
<1> QED BY <1>1, <1>2, <1>3, <1>4, <1>5, <1>6, <1>7, <1>8 DEF LoadNext

LEMMA LoadInvariant == LoadSpec => []LoadInv
<1>1. LoadInit => LoadInv
  BY LoadInvInit
<1>2. LoadInv /\ [LoadNext]_loadVars => LoadInv'
  BY LoadInvStep
<1> QED BY <1>1, <1>2, PTL DEF LoadSpec

\* load_many: every parent gets the children that referenced it when the statement
\* ran, whole and in the statement's order, however keys repeat and whoever else
\* shares the group (relations.rs, the group moved out to its last taker).
THEOREM ParentsGetTheirChildren == LoadSpec => []EveryParentGetsItsChildren
<1>1. LoadInv => EveryParentGetsItsChildren
  <2> SUFFICES ASSUME LoadInv, load = "many", phase = "done"
               PROVE  Len(dealt) = Len(near) /\ \A i \in DOMAIN near :
                        dealt[i] = IF near[i] = Null THEN <<>> ELSE Matching(near[i])
    BY DEF EveryParentGetsItsChildren
  <2>1. Len(dealt) = Len(near) /\ \A i \in 1..Len(dealt) : Owed(near[i], dealt[i])
    BY DEF LoadInv, DealtRight
  <2>2. DOMAIN near = 1..Len(near)
    BY DEF LoadInv, LoadTyped
  <2> QED BY <2>1, <2>2 DEF Owed, Nothing
<1> QED BY <1>1, LoadInvariant, PTL

\* load_one: every source row gets a row that its key references, or none exactly
\* when the statement found none.
THEOREM SourcesGetTheirTarget == LoadSpec => []EverySourceGetsItsTarget
<1>1. LoadInv => EverySourceGetsItsTarget
  <2> SUFFICES ASSUME LoadInv, load = "one", phase = "done"
               PROVE  Len(dealt) = Len(near) /\ \A i \in DOMAIN near :
                        IF near[i] = Null \/ Matching(near[i]) = <<>> THEN dealt[i] = Null
                        ELSE dealt[i] \in ToSet(Matching(near[i]))
    BY DEF EverySourceGetsItsTarget
  <2>1. Len(dealt) = Len(near) /\ \A i \in 1..Len(dealt) : Owed(near[i], dealt[i])
    BY DEF LoadInv, DealtRight
  <2>2. DOMAIN near = 1..Len(near)
    BY DEF LoadInv, LoadTyped
  <2> QED BY <2>1, <2>2 DEF Owed, Nothing
<1> QED BY <1>1, LoadInvariant, PTL

-----------------------------------------------------------------------------
(* Orders of rows.                                                           *)

LEMMA KeyValue ==
    ASSUME NEW order \in Orders, NEW i \in 1..Len(order), NEW r \in Rows
    PROVE  r[order[i].column] \in Int /\ order[i].desc \in BOOLEAN
<1>1. order[i] \in [column : Columns, desc : BOOLEAN]
  BY ElementOf DEF Orders
<1>2. order[i].column \in Columns /\ order[i].desc \in BOOLEAN
  BY <1>1
<1> QED BY <1>2, RowsAssumption

LEMMA OrderIsStrict ==
    ASSUME NEW order \in Orders, NEW r \in Rows, NEW q \in Rows, OrdersBefore(order, r, q)
    PROVE  /\ r # q /\ ~OrdersBefore(order, q, r)
           /\ \A s \in Rows : OrdersBefore(order, q, s) => OrdersBefore(order, r, s)
<1> DEFINE n == Len(order)
           v(i, x) == x[order[i].column]
<1>0. n \in Nat /\ DOMAIN order = 1..n
  BY DEF Orders
<1>1. \A i \in 1..n, x \in Rows : v(i, x) \in Int
  BY KeyValue
<1>2. \A i \in 1..n : order[i].desc \in BOOLEAN
  BY KeyValue
<1> DEFINE Down(i) == order[i].desc
           Lt(i, x, y) == IF Down(i) THEN v(i, x) > v(i, y) ELSE v(i, x) < v(i, y)
<1>3. \A x, y : OrdersBefore(order, x, y) <=> \E i \in 1..n : Lt(i, x, y) /\ \A j \in 1..(i - 1) : v(j, x) = v(j, y)
  BY <1>0 DEF OrdersBefore
<1>4. \A i \in 1..n, x, y, z \in Rows :
        /\ ~Lt(i, x, x) /\ (Lt(i, x, y) => ~Lt(i, y, x) /\ v(i, x) # v(i, y))
        /\ (Lt(i, x, y) /\ Lt(i, y, z) => Lt(i, x, z))
        /\ (Lt(i, x, y) /\ v(i, y) = v(i, z) => Lt(i, x, z))
        /\ (v(i, x) = v(i, y) /\ Lt(i, y, z) => Lt(i, x, z))
  BY <1>1
<1> HIDE DEF v, Lt, n, Down
<1>5. PICK a \in 1..n : Lt(a, r, q) /\ \A j \in 1..(a - 1) : v(j, r) = v(j, q)
  BY <1>3
<1>6. r # q
  BY <1>4, <1>5
<1>7. ASSUME NEW s \in Rows, OrdersBefore(order, q, s) PROVE OrdersBefore(order, r, s)
  <2>1. PICK b \in 1..n : Lt(b, q, s) /\ \A j \in 1..(b - 1) : v(j, q) = v(j, s)
    BY <1>3, <1>7
  <2>2. CASE a < b
    <3>1. a \in 1..(b - 1) /\ v(a, q) = v(a, s)
      BY <1>0, <2>1, <2>2
    <3>2. Lt(a, r, s)
      BY <1>4, <1>5, <3>1
    <3>3. \A j \in 1..(a - 1) : v(j, r) = v(j, s)
      BY <1>0, <1>5, <2>1, <2>2
    <3> QED BY <1>3, <3>2, <3>3
  <2>3. CASE a = b
    <3>1. Lt(a, r, s)
      BY <1>4, <1>5, <2>1, <2>3
    <3>2. \A j \in 1..(a - 1) : v(j, r) = v(j, s)
      BY <1>5, <2>1, <2>3
    <3> QED BY <1>3, <3>1, <3>2
  <2>4. CASE b < a
    <3>1. b \in 1..(a - 1) /\ v(b, r) = v(b, q)
      BY <1>0, <1>5, <2>1, <2>4
    <3>2. Lt(b, r, s)
      BY <1>4, <2>1, <3>1
    <3>3. \A j \in 1..(b - 1) : v(j, r) = v(j, s)
      BY <1>0, <1>5, <2>1, <2>4
    <3> QED BY <1>3, <3>2, <3>3
  <2> QED BY <1>0, <2>2, <2>3, <2>4
<1>8. ~OrdersBefore(order, q, r)
  <2> SUFFICES ASSUME OrdersBefore(order, q, r) PROVE FALSE
    OBVIOUS
  <2>1. OrdersBefore(order, r, r)
    BY <1>7
  <2>2. PICK i \in 1..n : Lt(i, r, r)
    BY <1>3, <2>1
  <2> QED BY <1>4, <2>2
<1> QED BY <1>6, <1>7, <1>8

-----------------------------------------------------------------------------
(* The listing of a total order sorts the rows.                              *)

Sorts(L, order, rows) ==
    /\ L \in Seq(rows)
    /\ \A i, j \in 1..Len(L) : i < j => OrdersBefore(order, L[i], L[j])
    /\ \A r \in rows : \E i \in 1..Len(L) : L[i] = r

LEMMA RankIsNumber == ASSUME NEW r \in Rows PROVE AnyRank[r] \in Int
<1> DEFINE n == Cardinality(Rows)
<1>1. n \in Nat /\ ExistsBijection(1..n, Rows)
  BY TableAssumption, FS_CardinalityType
<1>2. PICK f : f \in Bijection(1..n, Rows)
  BY <1>1 DEF ExistsBijection
<1>3. Inverse(f, 1..n, Rows) \in Bijection(Rows, 1..n)
  BY <1>2, Fun_BijInverse
<1>4. \E rank \in [Rows -> 1..n] : IsInjective(rank)
  BY <1>3 DEF Bijection, Injection
<1>5. AnyRank \in [Rows -> 1..n]
  BY <1>4 DEF AnyRank
<1> HIDE DEF n
<1>6. AnyRank[r] \in 1..n
  BY <1>5
<1> QED BY <1>6

LEMMA ListingSorts ==
    ASSUME NEW order \in Orders, IsTotal(order), NEW rows \in SUBSET Rows
    PROVE  /\ Sorts(Listing(order, AnyRank, rows), order, rows)
           /\ Len(Listing(order, AnyRank, rows)) = Cardinality(rows) /\ Cardinality(rows) \in Nat
           /\ Cardinality(rows) <= I64Max
<1> DEFINE n == Cardinality(rows)
           A(r) == Ahead(order, AnyRank, rows, r)
           L == Listing(order, AnyRank, rows)
<1>1. IsFiniteSet(rows) /\ n \in Nat /\ n <= I64Max
  <2>1. IsFiniteSet(rows) /\ n <= Cardinality(Rows)
    BY TableAssumption, FS_Subset
  <2>2. n \in Nat /\ Cardinality(Rows) \in Nat
    BY <2>1, TableAssumption, FS_CardinalityType
  <2> QED BY <2>1, <2>2, TableAssumption, WidthAssumption
<1>2. ASSUME NEW r \in rows PROVE A(r) = {q \in rows : OrdersBefore(order, q, r)}
  <2>1. ASSUME NEW q \in rows, q # r
        PROVE  ~OrdersBefore(order, r, q) => OrdersBefore(order, q, r)
    BY <2>1 DEF IsTotal
  <2>2. ~(AnyRank[r] < AnyRank[r])
    <3>1. AnyRank[r] \in Int
      BY RankIsNumber
    <3> QED BY <3>1
  <2> QED BY <2>1, <2>2 DEF Ahead
<1> HIDE DEF A, n
<1>3. ASSUME NEW r \in rows PROVE IsFiniteSet(A(r)) /\ Cardinality(A(r)) \in 0..(n - 1)
  <2>1. r \notin A(r)
    BY <1>2, OrderIsStrict
  <2>2. A(r) \in SUBSET (rows \ {r})
    BY <1>2, <2>1
  <2>3. IsFiniteSet(rows \ {r}) /\ Cardinality(rows \ {r}) = n - 1
    BY <1>1, FS_RemoveElement DEF n
  <2>4. IsFiniteSet(A(r)) /\ Cardinality(A(r)) <= n - 1
    BY <2>2, <2>3, FS_Subset
  <2>5. Cardinality(A(r)) \in Nat
    BY <2>4, FS_CardinalityType
  <2> QED BY <1>1, <2>4, <2>5
<1>4. ASSUME NEW r \in rows, NEW q \in rows, OrdersBefore(order, r, q)
      PROVE  Cardinality(A(r)) < Cardinality(A(q))
  <2>1. r \notin A(r)
    BY <1>2, OrderIsStrict
  <2>2. A(r) \cup {r} \in SUBSET A(q)
    <3>1. \A x \in A(r) : x \in rows /\ OrdersBefore(order, x, q)
      BY <1>2, <1>4, OrderIsStrict
    <3> QED BY <1>2, <1>4, <3>1
  <2>3. Cardinality(A(r) \cup {r}) = Cardinality(A(r)) + 1
    BY <1>3, <2>1, FS_AddElement
  <2>4. Cardinality(A(r) \cup {r}) <= Cardinality(A(q))
    BY <1>3, <2>2, FS_Subset
  <2>5. Cardinality(A(r)) \in Int /\ Cardinality(A(q)) \in Int
    BY <1>1, <1>3
  <2> QED BY <2>3, <2>4, <2>5
<1>5. ASSUME NEW r \in rows, NEW q \in rows, Cardinality(A(r)) = Cardinality(A(q)) PROVE r = q
  <2>1. Cardinality(A(r)) \in Int /\ Cardinality(A(q)) \in Int
    BY <1>1, <1>3
  <2>2. r = q \/ OrdersBefore(order, r, q) \/ OrdersBefore(order, q, r)
    BY DEF IsTotal
  <2> QED BY <1>4, <1>5, <2>1, <2>2
<1> DEFINE f == [r \in rows |-> Cardinality(A(r))]
<1>6. f \in Surjection(rows, 0..(n - 1))
  <2>1. f \in Injection(rows, 0..(n - 1))
    BY <1>3, <1>5, Fun_IsInj
  <2>2. IsFiniteSet(0..(n - 1)) /\ Cardinality(0..(n - 1)) = n
    <3>1. /\ IsFiniteSet(0..(n - 1))
          /\ Cardinality(0..(n - 1)) = IF 0 > n - 1 THEN 0 ELSE n - 1 - 0 + 1
      BY <1>1, FS_Interval
    <3> QED BY <1>1, <3>1
  <2> HIDE DEF f
  <2>3. Cardinality(rows) = Cardinality(0..(n - 1)) <=> f \in Surjection(rows, 0..(n - 1))
    BY <2>1, <2>2, FS_Injection
  <2> QED BY <2>2, <2>3 DEF n
<1>7. ASSUME NEW k \in 0..(n - 1) PROVE \E r \in rows : Cardinality(A(r)) = k
  BY <1>6 DEF Surjection
<1>8. ASSUME NEW i \in 1..n PROVE L[i] \in rows /\ Cardinality(A(L[i])) = i - 1
  <2>1. i - 1 \in 0..(n - 1)
    BY <1>1
  <2>2. \E r \in rows : Cardinality(A(r)) = i - 1
    BY <1>7, <2>1
  <2>3. L[i] = CHOOSE r \in rows : Cardinality(A(r)) = i - 1
    BY DEF Listing, A, n
  <2> HIDE DEF L
  <2> QED BY <2>2, <2>3
<1>9. L \in [1..n -> rows]
  <2>1. L = [i \in 1..n |-> L[i]]
    BY DEF Listing, n
  <2> HIDE DEF L
  <2> QED BY <1>8, <2>1
<1> HIDE DEF L
<1>10. L \in Seq(rows) /\ Len(L) = n
  BY <1>1, <1>9
<1>11. ASSUME NEW i \in 1..n, NEW j \in 1..n, i < j PROVE OrdersBefore(order, L[i], L[j])
  <2>1. /\ L[i] \in rows /\ L[j] \in rows
        /\ Cardinality(A(L[i])) = i - 1 /\ Cardinality(A(L[j])) = j - 1
    BY <1>8
  <2>2. ~OrdersBefore(order, L[j], L[i])
    <3> SUFFICES ASSUME OrdersBefore(order, L[j], L[i]) PROVE FALSE
      OBVIOUS
    <3>1. Cardinality(A(L[j])) < Cardinality(A(L[i]))
      BY <1>4, <2>1
    <3> QED BY <1>1, <1>11, <2>1, <3>1
  <2>3. L[i] # L[j]
    BY <1>1, <1>11, <2>1
  <2> QED BY <2>1, <2>2, <2>3 DEF IsTotal
<1>12. ASSUME NEW r \in rows PROVE \E i \in 1..n : L[i] = r
  <2>1. Cardinality(A(r)) + 1 \in 1..n /\ (Cardinality(A(r)) + 1) - 1 = Cardinality(A(r))
    BY <1>1, <1>3
  <2>2. L[Cardinality(A(r)) + 1] \in rows /\ Cardinality(A(L[Cardinality(A(r)) + 1])) = Cardinality(A(r))
    BY <1>8, <2>1
  <2> QED BY <1>5, <2>1, <2>2
<1> QED BY <1>1, <1>10, <1>11, <1>12 DEF Sorts, L, n

-----------------------------------------------------------------------------
(* A numbered page is a window of the listing.                               *)

LEMMA MinOfTwo == ASSUME NEW a \in Int, NEW b \in Int PROVE Min({a, b}) = IF a <= b THEN a ELSE b
<1>1. \E x \in {a, b} : \A y \in {a, b} : x <= y
  OBVIOUS
<1>2. Min({a, b}) \in {a, b} /\ \A y \in {a, b} : Min({a, b}) <= y
  BY <1>1 DEF Min
<1> QED BY <1>2

LEMMA ListingLength ==
    ASSUME NEW order, NEW rank, NEW rows \in SUBSET Rows
    PROVE  /\ Len(Listing(order, rank, rows)) = Cardinality(rows)
           /\ Cardinality(rows) \in Nat /\ Cardinality(rows) <= I64Max
           /\ \E S : Listing(order, rank, rows) \in Seq(S)
<1> DEFINE n == Cardinality(rows)
           L == Listing(order, rank, rows)
<1>1. n \in Nat /\ n <= I64Max
  <2>1. IsFiniteSet(rows) /\ n <= Cardinality(Rows)
    BY TableAssumption, FS_Subset
  <2>2. n \in Nat /\ Cardinality(Rows) \in Nat
    BY <2>1, TableAssumption, FS_CardinalityType
  <2> QED BY <2>1, <2>2, TableAssumption, WidthAssumption
<1>2. L = [i \in 1..n |-> L[i]]
  BY DEF Listing
<1> HIDE DEF L, n
<1>3. L \in [1..n -> {L[i] : i \in 1..n}]
  BY <1>2
<1>4. L \in Seq({L[i] : i \in 1..n}) /\ Len(L) = n
  BY <1>1, <1>3
<1> QED BY <1>1, <1>4 DEF L, n

\* page is the part of L after its first x rows, no longer than size.
Window(page, L, x, size) ==
    /\ Len(page) = IF Len(L) <= x THEN 0 ELSE IF Len(L) <= x + size THEN Len(L) - x ELSE size
    /\ \E S : page \in Seq(S)
    /\ \A i \in 1..Len(page) : x + i \in 1..Len(L) /\ page[i] = L[x + i]

LEMMA SubSeqIsWindow ==
    ASSUME NEW S, NEW L \in Seq(S), NEW x \in Nat, NEW size \in Nat, NEW a \in Nat, NEW b \in Nat,
           x < Len(L) => a = x /\ b = IF Len(L) <= x + size THEN Len(L) ELSE x + size,
           x >= Len(L) => b <= a
    PROVE  Window(SubSeq(L, a + 1, b), L, x, size)
<1> DEFINE n == Len(L)
           page == SubSeq(L, a + 1, b)
<1>1. n \in Nat
  OBVIOUS
<1>2. CASE x >= n
  <2>1. page = <<>>
    BY <1>1, <1>2
  <2> QED BY <1>1, <1>2, <2>1 DEF Window
<1>3. CASE x < n
  <2>1. a = x /\ b <= n /\ x <= b /\ b = IF n <= x + size THEN n ELSE x + size
    BY <1>1, <1>3
  <2>2. Len(page) = b - x /\ page \in Seq(S) /\ \A i \in 1..(b - x) : page[i] = L[x + i]
    BY <1>1, <2>1
  <2>3. \A i \in 1..(b - x) : x + i \in 1..n
    BY <1>1, <2>1
  <2> HIDE DEF page
  <2>4. Len(page) = IF n <= x THEN 0 ELSE IF n <= x + size THEN n - x ELSE size
    BY <1>1, <1>3, <2>1, <2>2
  <2>5. \A i \in 1..Len(page) : x + i \in 1..n /\ page[i] = L[x + i]
    BY <2>2, <2>3
  <2>6. \E T : page \in Seq(T)
    BY <2>2
  <2> HIDE DEF n
  <2>7. Window(page, L, x, size)
    BY <2>4, <2>5, <2>6 DEF Window, n
  <2> QED BY <2>7 DEF page
<1> QED BY <1>1, <1>2, <1>3

LEMMA PageIsWindow ==
    ASSUME NEW base \in Selects, NEW size \in PageSizes, NEW page \in Nat,
           NEW t \in SUBSET Rows, NEW rank
    PROVE  /\ page * size \in Nat /\ size \in Nat \ {0}
           /\ Window(Answer(PageSelect(Paginator(base, size), page), t, rank),
                     Listing(base.order, rank, t \cap base.filter), page * size, size)
<1> DEFINE L == Listing(base.order, rank, t \cap base.filter)
           n == Len(L)
           x == page * size
           offset == PageOffset(page, size)
           a == CountBind(offset)
           b == Min({n, a + CountBind(size)})
<1>0. size \in Nat \ {0} /\ x \in Nat /\ I64Max \in Nat /\ U64Max \in Nat /\ I64Max < U64Max /\ size <= U64Max
  BY PageSizeAssumption, WidthAssumption
<1>1. n \in Nat /\ n <= I64Max /\ \E S : L \in Seq(S)
  <2>1. t \cap base.filter \in SUBSET Rows
    OBVIOUS
  <2> QED BY <2>1, ListingLength
<1> HIDE DEF L, n, x
<1>2. offset = (IF x <= U64Max THEN x ELSE U64Max)
  BY <1>0, MinOfTwo DEF PageOffset, x
<1> HIDE DEF offset
<1>3. a = (IF offset <= I64Max THEN offset ELSE I64Max) /\ offset \in Nat
  BY <1>0, <1>2, MinOfTwo DEF CountBind
<1>4. CountBind(size) = IF size <= I64Max THEN size ELSE I64Max
  BY <1>0, MinOfTwo DEF CountBind
<1> HIDE DEF a
<1>5. b = IF n <= a + CountBind(size) THEN n ELSE a + CountBind(size)
  BY <1>0, <1>1, <1>3, <1>4, MinOfTwo
<1> HIDE DEF b
<1>6. a \in Nat /\ b \in Nat
  BY <1>0, <1>1, <1>3, <1>4, <1>5
<1>7. x < n => a = x /\ b = IF n <= x + size THEN n ELSE x + size
  BY <1>0, <1>1, <1>2, <1>3, <1>4, <1>5
<1>8. x >= n => b <= a
  BY <1>0, <1>1, <1>2, <1>3, <1>4, <1>5
<1>9. Answer(PageSelect(Paginator(base, size), page), t, rank) = SubSeq(L, a + 1, b)
  <2> DEFINE s == PageSelect(Paginator(base, size), page)
  <2>1. /\ s.order = base.order /\ s.filter = base.filter
        /\ s.offset = offset /\ s.fetch = size
    BY DEF PageSelect, Limit, Offset, Paginator, Selects, offset
  <2>2. s.offset # NoCount /\ s.fetch # NoCount
    BY <1>0, <1>3, <2>1 DEF NoCount
  <2> HIDE DEF s
  <2>3. Listing(s.order, rank, t \cap s.filter) = L
    BY <2>1 DEF L
  <2>4. (IF s.offset = NoCount THEN 0 ELSE CountBind(s.offset)) = a
    BY <2>1, <2>2 DEF a
  <2>5. (IF s.fetch = NoCount THEN Len(L) ELSE Min({Len(L), a + CountBind(s.fetch)})) = b
    BY <2>1, <2>2 DEF b, n
  <2>6. Answer(s, t, rank) = SubSeq(L, a + 1, b)
    BY <2>3, <2>4, <2>5 DEF Answer
  <2> QED BY <2>6 DEF s
<1>10. Window(SubSeq(L, a + 1, b), L, x, size)
  BY <1>0, <1>1, <1>6, <1>7, <1>8, SubSeqIsWindow DEF n
<1> QED BY <1>0, <1>9, <1>10 DEF L, x

-----------------------------------------------------------------------------
(* The pages together have as many rows as the query.                        *)

LEMMA RowsFold ==
    ASSUME NEW T, NEW s \in Seq(T), NEW book, \A i \in 1..Len(s) : Len(book[s[i]]) \in Nat
    PROVE  \E f \in [0..Len(s) -> Nat] :
              /\ f[0] = 0 /\ f[Len(s)] = RowsOn(book, s)
              /\ \A k \in 1..Len(s) : f[k] = f[k - 1] + Len(book[s[k]])
<1> DEFINE n == Len(s)
           D == Nat
           op == [p \in D \X (1..n) |-> p[1] + Len(book[s[p[2]]])]
           iter == CHOOSE iter : iter = [t \in SUBSET DOMAIN s |->
                      IF t = {} THEN 0 ELSE iter[t \ {Max(t)}] + Len(book[s[Max(t)]])]
<1>1. n \in Nat /\ DOMAIN s = 1..n /\ 0 \in D
  OBVIOUS
<1>2. ASSUME NEW d \in D, NEW i \in 1..n PROVE d + Len(book[s[i]]) \in D
  BY <1>1
<1>3. op \in [D \X (1..n) -> D] /\ \A d \in D, i \in 1..n : op[<<d, i>>] = d + Len(book[s[i]])
  BY <1>2
<1> HIDE DEF op, D, n
<1>4. PICK g : FoldsSets(g, n, D, 0, op)
  BY <1>1, <1>3, FoldExists
<1>5. ASSUME NEW t \in SUBSET (1..n), t # {}
      PROVE  Max(t) \in 1..n /\ t \ {Max(t)} \in SUBSET (1..n)
  BY <1>1, <1>5, MaxOfIndices
<1>6. g = [t \in SUBSET DOMAIN s |-> IF t = {} THEN 0 ELSE g[t \ {Max(t)}] + Len(book[s[Max(t)]])]
  <2>1. \A t \in SUBSET (1..n) : g[t] = IF t = {} THEN 0 ELSE g[t \ {Max(t)}] + Len(book[s[Max(t)]])
    BY <1>3, <1>4, <1>5 DEF FoldsSets
  <2>2. g \in [SUBSET DOMAIN s -> D]
    BY <1>1, <1>4 DEF FoldsSets
  <2> QED BY <1>1, <2>1, <2>2
<1>7. iter = [t \in SUBSET DOMAIN s |-> IF t = {} THEN 0 ELSE iter[t \ {Max(t)}] + Len(book[s[Max(t)]])]
  BY <1>6
<1>8. RowsOn(book, s) = iter[1..n]
  BY <1>1 DEF RowsOn, FoldLeft, MapThenFoldSet
<1> HIDE DEF iter
<1>9. FoldsWithin(iter, n, D, 0, op)
  BY <1>1, <1>3, <1>5, <1>7 DEF FoldsWithin
<1>10. PICK f : FoldsTo(iter[1..n], f, n, D, 0, op)
  BY <1>1, <1>3, <1>9, FoldMeans
<1>11. ASSUME NEW k \in 1..n PROVE f[k] = f[k - 1] + Len(book[s[k]])
  <2>1. k - 1 \in 0..n
    BY <1>1
  <2> QED BY <1>3, <1>10, <2>1 DEF FoldsTo
<1> QED BY <1>1, <1>8, <1>10, <1>11 DEF n, D, FoldsTo

\* Pages of size rows but for the last, added up in any order.
LEMMA SumOfPages ==
    ASSUME NEW c \in Nat \ {0}, NEW size \in Nat, NEW rest \in Nat, NEW s \in [1..c -> 0..(c - 1)],
           IsInjective(s), NEW book,
           \A p \in 0..(c - 1) : Len(book[p]) = IF p = c - 1 THEN rest ELSE size
    PROVE  RowsOn(book, s) = (c - 1) * size + rest
<1>1. s \in Seq(0..(c - 1)) /\ Len(s) = c
  OBVIOUS
<1>2. \A i \in 1..c : Len(book[s[i]]) = IF s[i] = c - 1 THEN rest ELSE size
  OBVIOUS
<1>3. PICK f \in [0..c -> Nat] :
         f[0] = 0 /\ f[c] = RowsOn(book, s) /\ \A k \in 1..c : f[k] = f[k - 1] + Len(book[s[k]])
  <2>1. \A i \in 1..Len(s) : Len(book[s[i]]) \in Nat
    BY <1>1, <1>2
  <2>2. \E f \in [0..Len(s) -> Nat] :
           /\ f[0] = 0 /\ f[Len(s)] = RowsOn(book, s)
           /\ \A k \in 1..Len(s) : f[k] = f[k - 1] + Len(book[s[k]])
    BY <1>1, <2>1, RowsFold
  <2> QED BY <1>1, <2>2
<1>4. \E i \in 1..c : s[i] = c - 1
  <2>1. IsFiniteSet(1..c) /\ Cardinality(1..c) = c /\ IsFiniteSet(0..(c - 1)) /\ Cardinality(0..(c - 1)) = c
    <3>1. IsFiniteSet(1..c) /\ Cardinality(1..c) = IF 1 > c THEN 0 ELSE c - 1 + 1
      BY FS_Interval
    <3>2. IsFiniteSet(0..(c - 1)) /\ Cardinality(0..(c - 1)) = IF 0 > c - 1 THEN 0 ELSE (c - 1) - 0 + 1
      BY FS_Interval
    <3> QED BY <3>1, <3>2
  <2>2. s \in Injection(1..c, 0..(c - 1))
    BY DEF Injection
  <2>3. Cardinality(1..c) = Cardinality(0..(c - 1)) <=> s \in Surjection(1..c, 0..(c - 1))
    BY <2>1, <2>2, FS_Injection
  <2>4. c - 1 \in 0..(c - 1)
    OBVIOUS
  <2> QED BY <2>1, <2>3, <2>4 DEF Surjection
<1>5. PICK e \in 1..c : s[e] = c - 1 /\ \A i \in 1..c : s[i] = c - 1 => i = e
  BY <1>4 DEF IsInjective
<1> DEFINE P == {k \in Nat : k <= c => f[k] = IF k < e THEN k * size ELSE (k - 1) * size + rest}
<1>6. 0 \in P
  BY <1>3
<1>7. ASSUME NEW k \in Nat, k \in P PROVE k + 1 \in P
  <2> SUFFICES ASSUME k + 1 <= c
               PROVE  f[k + 1] = IF k + 1 < e THEN (k + 1) * size ELSE k * size + rest
    OBVIOUS
  <2>1. k + 1 \in 1..c /\ (k + 1) - 1 = k
    OBVIOUS
  <2>2. f[k] = IF k < e THEN k * size ELSE (k - 1) * size + rest
    BY <1>7
  <2>3. f[k + 1] = f[k] + IF k + 1 = e THEN rest ELSE size
    BY <1>2, <1>3, <1>5, <2>1
  <2>4. (k + 1) * size = k * size + size /\ k * size = (k - 1) * size + size
    OBVIOUS
  <2> DEFINE now == k * size
             before == (k - 1) * size
             next == (k + 1) * size
  <2>5. now \in Int /\ before \in Int /\ next = now + size /\ now = before + size
    BY <2>4
  <2>6. f[k] = IF k < e THEN now ELSE before + rest
    BY <2>2
  <2> HIDE DEF now, before, next
  <2>7. f[k + 1] = IF k + 1 < e THEN next ELSE now + rest
    <3>1. CASE k + 1 < e
      <4>1. f[k] = now /\ f[k + 1] = f[k] + size
        BY <2>3, <2>6, <3>1
      <4> QED BY <2>5, <3>1, <4>1
    <3>2. CASE k + 1 = e
      <4>1. f[k] = now /\ f[k + 1] = f[k] + rest
        BY <2>3, <2>6, <3>2
      <4> QED BY <2>5, <3>2, <4>1
    <3>3. CASE k + 1 > e
      <4>1. f[k] = before + rest /\ f[k + 1] = f[k] + size
        BY <2>3, <2>6, <3>3
      <4>2. (before + rest) + size = now + rest
        BY <2>5
      <4>3. ~(k + 1 < e)
        BY <3>3
      <4> QED BY <4>1, <4>2, <4>3
    <3> QED BY <3>1, <3>2, <3>3
  <2> QED BY <2>7 DEF now, next
<1> HIDE DEF P
<1>8. c \in P
  BY <1>6, <1>7, NumbersBySteps
<1> QED BY <1>3, <1>8 DEF P

\* The number of pages is the least that holds all rows.
LEMMA PagesNeeded ==
    ASSUME NEW n \in Nat, NEW size \in Nat \ {0}
    PROVE  /\ NumPages(n, size) \in Nat
           /\ \A p \in Nat : p < NumPages(n, size) <=> p * size < n
<1> DEFINE c == NumPages(n, size)
           m == n + size - 1
<1>1. c \in Int /\ c * size <= m /\ m < c * size + size
  <2>1. m \in Nat /\ m = size * (m \div size) + (m % size) /\ m % size \in 0..(size - 1) /\ m \div size \in Int
    OBVIOUS
  <2>2. c = m \div size
    BY DEF NumPages
  <2> QED BY <2>1, <2>2
<1> HIDE DEF c
<1>2. c >= 0
  <2> SUFFICES ASSUME c <= -1 PROVE FALSE
    BY <1>1
  <2>1. c * size <= (-1) * size
    BY <1>1
  <2> QED BY <1>1, <2>1
<1>3. ASSUME NEW p \in Nat PROVE p < c <=> p * size < n
  <2>1. ASSUME p < c PROVE p * size < n
    <3>1. p + 1 <= c
      BY <1>1, <2>1
    <3>2. (p + 1) * size <= c * size /\ (p + 1) * size = p * size + size
      BY <1>1, <3>1
    <3> QED BY <1>1, <3>2
  <2>2. ASSUME c <= p PROVE ~(p * size < n)
    <3>1. c * size <= p * size
      BY <1>1, <2>2
    <3> QED BY <1>1, <3>1
  <2> QED BY <1>1, <2>1, <2>2
<1> QED BY <1>1, <1>2, <1>3 DEF c

-----------------------------------------------------------------------------
(* The paginator: every page there is was answered from the table as it is.   *)

ReaderTyped ==
    /\ table \in SUBSET Rows
    /\ \/ \E base \in CursorBases, key \in CursorKeys, n \in PageSizes, ahead \in BOOLEAN :
             reader = Walker(base, key, n, ahead)
       \/ \E base \in PagedBases, n \in PageSizes : reader = Paginator(base, n)

PageAnswered(p) ==
    \E rank \in RanksFor(reader.select.order) :
       pages[p] = Answer(PageSelect(reader, p), table, rank)

PagedInv ==
    /\ ReaderTyped
    /\ \A p \in DOMAIN pages : Paging /\ p \in 0..U64Max /\ PageAnswered(p)
    /\ total # NoCount => Paging /\ total = CountAnswer(IntoCount(reader.select), table)

LEMMA PagedInvariant == Spec => []PagedInv
<1>1. Init => PagedInv
  BY EmptyMap DEF Init, PagedInv, ReaderTyped
<1>2. PagedInv /\ [Next]_vars => PagedInv'
  <2> SUFFICES ASSUME PagedInv, [Next]_vars PROVE PagedInv'
    OBVIOUS
  <2>1. CASE Fetch
    BY <2>1 DEF Fetch, PagedInv, ReaderTyped, Paging, PageAnswered
  <2>2. ASSUME NEW page \in 0..U64Max, FetchPage(page) PROVE PagedInv'
    <3>1. Paging /\ reader' = reader /\ table' = table /\ total' = total
      BY <2>2 DEF FetchPage
    <3>2. PICK rank \in RanksFor(reader.select.order) :
             pages' = [p \in DOMAIN pages \cup {page} |->
                         IF p = page THEN Answer(PageSelect(reader, page), table, rank) ELSE pages[p]]
      BY <2>2 DEF FetchPage
    <3>3. ASSUME NEW p \in DOMAIN pages' PROVE p \in 0..U64Max /\ PageAnswered(p)'
      <4>1. CASE p = page
        BY <3>1, <3>2, <4>1 DEF PageAnswered
      <4>2. CASE p # page
        <5>1. p \in DOMAIN pages /\ pages'[p] = pages[p]
          BY <3>2, <3>3, <4>2
        <5> QED BY <3>1, <5>1 DEF PageAnswered, PagedInv
      <4> QED BY <4>1, <4>2
    <3> QED BY <3>1, <3>3 DEF PagedInv, ReaderTyped, Paging
  <2>3. CASE NumItems
    BY <2>3 DEF NumItems, PagedInv, ReaderTyped, Paging, PageAnswered
  <2>4. CASE Write
    <3>1. reader' = reader /\ pages' = <<>> /\ total' = NoCount
      BY <2>4 DEF Write
    <3>2. table' \in SUBSET Rows
      BY <2>4 DEF Write, PagedInv, ReaderTyped
    <3> QED BY <3>1, <3>2, EmptyMap DEF PagedInv, ReaderTyped
  <2>5. CASE UNCHANGED vars
    BY <2>5 DEF vars, progress, PagedInv, ReaderTyped, Paging, PageAnswered
  <2> QED BY <2>1, <2>2, <2>3, <2>4, <2>5 DEF Next
<1> QED BY <1>1, <1>2, PTL DEF Spec

LEMMA PagesAreWindows ==
    ASSUME PagedInv, NEW p \in DOMAIN pages
    PROVE  \E rank \in RanksFor(reader.select.order) :
              Window(pages[p], Listing(reader.select.order, rank, table \cap reader.select.filter),
                     p * reader.size, reader.size)
<1>1. Paging /\ p \in Nat /\ PageAnswered(p)
  BY DEF PagedInv
<1>2. PICK base \in PagedBases, n \in PageSizes : reader = Paginator(base, n)
  BY <1>1 DEF PagedInv, ReaderTyped, Paging, Walker
<1>3. reader.select = base /\ reader.size = n /\ base \in Selects
  BY <1>2, BasesAssumption DEF Paginator
<1>4. PICK rank \in RanksFor(base.order) : pages[p] = Answer(PageSelect(Paginator(base, n), p), table, rank)
  BY <1>1, <1>2, <1>3 DEF PageAnswered
<1>5. table \in SUBSET Rows
  BY DEF PagedInv, ReaderTyped
<1>6. Window(Answer(PageSelect(Paginator(base, n), p), table, rank),
             Listing(base.order, rank, table \cap base.filter), p * n, n)
  BY <1>1, <1>3, <1>5, PageIsWindow
<1> QED BY <1>3, <1>4, <1>6

\* Paginator::fetch_page: over a total order, no row is on two pages, the rows of a page come before
\* those of a later one and nothing comes after a page that is not full, however far
\* page numbers and offsets exceed u64 and i64 (paginate.rs, saturating_mul).
THEOREM PagesSplit ==
    ASSUME \A base \in PagedBases : IsTotal(base.order)
    PROVE  Spec => []PagesSplitTheQuery
<1>1. ASSUME PagedInv PROVE PagesSplitTheQuery
  <2> SUFFICES ASSUME NEW p \in DOMAIN pages, NEW q \in DOMAIN pages, p < q
               PROVE  /\ \A i \in DOMAIN pages[p], j \in DOMAIN pages[q] :
                            /\ pages[p][i] # pages[q][j]
                            /\ ~OrdersBefore(reader.select.order, pages[q][j], pages[p][i])
                      /\ Len(pages[p]) < reader.size => pages[q] = <<>>
    BY DEF PagesSplitTheQuery
  <2>1. PICK base \in PagedBases, size \in PageSizes : reader = Paginator(base, size)
    BY <1>1 DEF PagedInv, ReaderTyped, Paging, Walker
  <2>2. reader.select = base /\ reader.size = size /\ base \in Selects
    BY <2>1, BasesAssumption DEF Paginator
  <2>3. IsTotal(base.order) /\ base.order \in Orders
    BY <2>2 DEF Selects
  <2>4. RanksFor(base.order) = {AnyRank}
    BY <2>3 DEF RanksFor
  <2> DEFINE rows == table \cap base.filter
  <2>5. rows \in SUBSET Rows
    BY <1>1 DEF PagedInv, ReaderTyped
  <2>6. PICK L : L = Listing(base.order, AnyRank, rows)
    OBVIOUS
  <2>7. Sorts(L, base.order, rows)
    BY <2>3, <2>5, <2>6, ListingSorts
  <2>8. Window(pages[p], L, p * size, size) /\ Window(pages[q], L, q * size, size)
    BY <1>1, <2>2, <2>4, <2>6, PagesAreWindows
  <2>9. p \in Nat /\ q \in Nat /\ size \in Nat \ {0}
    BY <1>1, PageSizeAssumption DEF PagedInv
  <2>10. PICK x \in Nat, y \in Nat : x = p * size /\ y = q * size /\ x + size <= y
    <3>1. p + 1 <= q /\ (p + 1) * size = p * size + size
      BY <2>9
    <3>2. (p + 1) * size <= q * size
      BY <2>9, <3>1
    <3>3. p * size \in Nat /\ q * size \in Nat
      BY <2>9
    <3> QED BY <3>1, <3>2, <3>3
  <2>11. Window(pages[p], L, x, size) /\ Window(pages[q], L, y, size)
    BY <2>8, <2>10
  <2> HIDE DEF rows
  <2>12. Len(L) \in Nat
    BY <2>7 DEF Sorts
  <2>13. ASSUME NEW i \in DOMAIN pages[p], NEW j \in DOMAIN pages[q]
         PROVE  /\ pages[p][i] # pages[q][j]
                /\ ~OrdersBefore(base.order, pages[q][j], pages[p][i])
    <3>0. /\ i \in 1..Len(pages[p]) /\ j \in 1..Len(pages[q])
      <4>1. PICK S : pages[p] \in Seq(S)
        BY <2>11 DEF Window
      <4>2. PICK T : pages[q] \in Seq(T)
        BY <2>11 DEF Window
      <4> QED BY <2>13, <4>1, <4>2
    <3>1. /\ i \in 1..Len(pages[p]) /\ j \in 1..Len(pages[q])
          /\ x + i \in 1..Len(L) /\ y + j \in 1..Len(L)
          /\ pages[p][i] = L[x + i] /\ pages[q][j] = L[y + j]
      BY <2>11, <3>0 DEF Window
    <3>2. Len(pages[p]) \in Nat /\ Len(pages[p]) <= size
      BY <2>9, <2>10, <2>11, <2>12 DEF Window
    <3>3. x + i < y + j
      <4>1. i \in Int /\ j \in Int /\ i <= size /\ 1 <= j
        BY <2>9, <3>1, <3>2
      <4> QED BY <2>9, <2>10, <4>1
    <3>4. OrdersBefore(base.order, L[x + i], L[y + j])
      BY <2>7, <3>1, <3>3 DEF Sorts
    <3>5. L[x + i] \in Rows /\ L[y + j] \in Rows
      BY <2>5, <2>7, <3>1, ElementOf DEF Sorts
    <3> QED BY <2>3, <3>1, <3>4, <3>5, OrderIsStrict
  <2>14. ASSUME Len(pages[p]) < size PROVE pages[q] = <<>>
    <3>1. Len(L) <= y
      BY <2>9, <2>10, <2>11, <2>12, <2>14 DEF Window
    <3>2. Len(pages[q]) = 0
      BY <2>11, <3>1 DEF Window
    <3>3. PICK S : pages[q] \in Seq(S)
      BY <2>11 DEF Window
    <3> QED BY <3>2, <3>3
  <2> QED BY <2>2, <2>13, <2>14
<1> QED BY <1>1, PagedInvariant, PTL

LEMMA NumbersInSomeOrder ==
    ASSUME NEW c \in Nat
    PROVE  SetToSeq(0..(c - 1)) \in [1..c -> 0..(c - 1)] /\ IsInjective(SetToSeq(0..(c - 1)))
<1>1. IsFiniteSet(0..(c - 1)) /\ Cardinality(0..(c - 1)) = c
  <2>1. IsFiniteSet(0..(c - 1)) /\ Cardinality(0..(c - 1)) = IF 0 > c - 1 THEN 0 ELSE (c - 1) - 0 + 1
    BY FS_Interval
  <2> QED BY <2>1
<1>2. ExistsBijection(1..c, 0..(c - 1))
  BY <1>1, FS_CardinalityType
<1>3. \E f \in [1..c -> 0..(c - 1)] : IsInjective(f)
  BY <1>2 DEF ExistsBijection, Bijection, Injection
<1> QED BY <1>1, <1>3 DEF SetToSeq

\* Paginator::num_items and num_pages over an unlimited select: exactly the pages
\* below num_pages have rows, and together as many as num_items says, ties or none
\* (paginate.rs, div_ceil).
THEOREM TotalsMatch ==
    ASSUME \A base \in PagedBases : base.offset = NoCount /\ base.fetch = NoCount
    PROVE  Spec => []TotalsMatchPages
<1>1. ASSUME PagedInv PROVE TotalsMatchPages
  <2> SUFFICES ASSUME total # NoCount
               PROVE  LET count == NumPages(total, reader.size) IN
                      /\ \A p \in DOMAIN pages : pages[p] # <<>> <=> p < count
                      /\ 0..(count - 1) \subseteq DOMAIN pages =>
                            total = RowsOn(pages, SetToSeq(0..(count - 1)))
    BY DEF TotalsMatchPages
  <2>1. PICK base \in PagedBases, size \in PageSizes : reader = Paginator(base, size)
    BY <1>1 DEF PagedInv, ReaderTyped, Paging, Walker
  <2>2. reader.select = base /\ reader.size = size /\ base \in Selects /\ size \in Nat \ {0}
    BY <2>1, BasesAssumption, PageSizeAssumption DEF Paginator
  <2> DEFINE rows == table \cap base.filter
  <2>3. rows \in SUBSET Rows
    BY <1>1 DEF PagedInv, ReaderTyped
  <2>4. PICK n \in Nat : n = Cardinality(rows)
    BY <2>3, ListingLength
  <2>5. total = n
    <3> DEFINE s == IntoCount(base)
               L == Listing(s.order, AnyRank, table \cap s.filter)
    <3>1. s.filter = base.filter /\ s.offset = NoCount /\ s.fetch = NoCount
      BY <2>2 DEF IntoCount, Selects
    <3>2. Len(L) = n /\ \E S : L \in Seq(S)
      BY <2>3, <2>4, <3>1, ListingLength
    <3> HIDE DEF s, L, rows
    <3>3. Answer(s, table, AnyRank) = SubSeq(L, 0 + 1, Len(L))
      BY <3>1 DEF Answer, L
    <3>4. Len(Answer(s, table, AnyRank)) = n
      BY <3>2, <3>3
    <3>5. total = CountAnswer(s, table)
      BY <1>1, <2>2 DEF PagedInv, s
    <3> QED BY <3>4, <3>5 DEF CountAnswer
  <2> HIDE DEF rows
  <2>6. ASSUME NEW p \in DOMAIN pages
        PROVE  /\ p \in Nat /\ p * size \in Nat /\ \E S : pages[p] \in Seq(S)
               /\ Len(pages[p]) = IF n <= p * size THEN 0
                                  ELSE IF n <= p * size + size THEN n - p * size ELSE size
    <3>1. p \in Nat
      BY <1>1 DEF PagedInv
    <3>2. PICK rank : Window(pages[p], Listing(base.order, rank, rows), p * size, size)
      BY <1>1, <2>2, PagesAreWindows DEF rows
    <3>3. Len(Listing(base.order, rank, rows)) = n
      BY <2>3, <2>4, ListingLength
    <3>4. p * size \in Nat
      BY <2>2, <3>1
    <3> QED BY <3>1, <3>2, <3>3, <3>4 DEF Window
  <2> DEFINE c == NumPages(n, size)
  <2>7. c \in Nat /\ \A p \in Nat : p < c <=> p * size < n
    BY <2>2, PagesNeeded
  <2> HIDE DEF c
  <2>8. ASSUME NEW p \in DOMAIN pages PROVE pages[p] # <<>> <=> p < c
    <3>1. PICK x \in Nat : x = p * size
      BY <2>6
    <3>2. PICK S : pages[p] \in Seq(S)
      BY <2>6
    <3>3. pages[p] = <<>> <=> Len(pages[p]) = 0
      BY <3>2
    <3>4. Len(pages[p]) = 0 <=> n <= x
      BY <2>2, <2>6, <3>1
    <3>5. p < c <=> x < n
      BY <2>6, <2>7, <3>1
    <3> QED BY <3>1, <3>3, <3>4, <3>5
  <2>9. ASSUME 0..(c - 1) \subseteq DOMAIN pages PROVE RowsOn(pages, SetToSeq(0..(c - 1))) = n
    <3> DEFINE s == SetToSeq(0..(c - 1))
    <3>1. s \in [1..c -> 0..(c - 1)] /\ IsInjective(s)
      BY <2>7, NumbersInSomeOrder
    <3> HIDE DEF s
    <3>2. CASE c = 0
      <4>1. n = 0
        <5>1. 0 * size = 0 /\ (0 < c <=> 0 * size < n)
          BY <2>2, <2>7
        <5> QED BY <3>2, <5>1
      <4>2. s \in Seq(Nat) /\ Len(s) = 0
        BY <3>1, <3>2
      <4>3. \A i \in 1..Len(s) : Len(pages[s[i]]) \in Nat
        BY <4>2
      <4>4. PICK f : f[0] = 0 /\ f[Len(s)] = RowsOn(pages, s)
        BY <4>2, <4>3, RowsFold
      <4> QED BY <4>1, <4>2, <4>4 DEF s
    <3>3. CASE c # 0
      <4> DEFINE x == (c - 1) * size
      <4>1. c \in Nat \ {0} /\ c - 1 \in Nat /\ x \in Nat /\ c * size = x + size
        BY <2>2, <2>7, <3>3
      <4>2. x < n /\ n <= x + size
        <5>1. c - 1 < c /\ ~(c < c)
          BY <4>1
        <5>2. /\ c - 1 < c <=> (c - 1) * size < n
              /\ c < c <=> c * size < n
          BY <2>7, <4>1
        <5>3. c * size = x + size /\ x = (c - 1) * size
          BY <4>1
        <5> QED BY <2>2, <4>1, <5>1, <5>2, <5>3
      <4> DEFINE rest == n - x
      <4>3. rest \in Nat
        BY <4>1, <4>2
      <4>4. ASSUME NEW p \in 0..(c - 1) PROVE Len(pages[p]) = IF p = c - 1 THEN rest ELSE size
        <5>1. p \in DOMAIN pages /\ p \in Nat
          BY <2>9
        <5>2. CASE p = c - 1
          <6>1. p * size = x
            BY <5>2
          <6>2. ~(n <= p * size) /\ n <= p * size + size /\ n - p * size = rest
            BY <2>2, <4>1, <4>2, <6>1
          <6> QED BY <2>6, <5>1, <5>2, <6>2
        <5>3. CASE p # c - 1
          <6>1. p + 1 <= c - 1 /\ (p + 1) * size = p * size + size
            BY <2>2, <4>1, <5>3
          <6>2. (p + 1) * size <= x
            BY <2>2, <4>1, <5>1, <6>1
          <6>3. PICK y \in Nat : y = p * size
            BY <2>6, <5>1
          <6>4. y + size <= x
            BY <6>1, <6>2, <6>3
          <6>5. ~(n <= y) /\ ~(n <= y + size)
            BY <2>2, <4>1, <4>2, <6>4
          <6> QED BY <2>6, <5>1, <5>3, <6>3, <6>5
        <5> QED BY <5>2, <5>3
      <4> HIDE DEF rest
      <4>5. RowsOn(pages, s) = (c - 1) * size + rest
        BY <2>2, <3>1, <4>1, <4>3, <4>4, SumOfPages
      <4> QED BY <4>1, <4>5 DEF rest, s
    <3> QED BY <3>2, <3>3
  <2> QED BY <2>2, <2>5, <2>8, <2>9 DEF c
<1> QED BY <1>1, PagedInvariant, PTL

-----------------------------------------------------------------------------
(* The cursor's select and its conditions.                                   *)

LEMMA OrderByFold ==
    ASSUME NEW select \in Selects, NEW s \in Orders
    PROVE  \E f \in [0..Len(s) -> Selects] :
              /\ f[0] = select /\ f[Len(s)] = FoldLeft(OrderBy, select, s)
              /\ \A k \in 1..Len(s) : f[k] = OrderBy(f[k - 1], s[k])
<1> DEFINE n == Len(s)
           D == Selects
           op == [p \in D \X (1..n) |-> OrderBy(p[1], s[p[2]])]
           iter == CHOOSE iter : iter = [t \in SUBSET DOMAIN s |->
                      IF t = {} THEN select ELSE OrderBy(iter[t \ {Max(t)}], s[Max(t)])]
<1>1. n \in Nat /\ DOMAIN s = 1..n /\ select \in D
  BY DEF Orders
<1>2. ASSUME NEW d \in D, NEW i \in 1..n PROVE OrderBy(d, s[i]) \in D
  <2>1. s[i] \in [column : Columns, desc : BOOLEAN]
    BY <1>1, ElementOf DEF Orders, n
  <2>2. Append(d.order, s[i]) \in Orders
    BY <2>1 DEF Orders, Selects
  <2> QED BY <2>2 DEF OrderBy, Selects
<1>3. op \in [D \X (1..n) -> D] /\ \A d \in D, i \in 1..n : op[<<d, i>>] = OrderBy(d, s[i])
  BY <1>2
<1> HIDE DEF op, D, n
<1>4. PICK g : FoldsSets(g, n, D, select, op)
  BY <1>1, <1>3, FoldExists
<1>5. ASSUME NEW t \in SUBSET (1..n), t # {}
      PROVE  Max(t) \in 1..n /\ t \ {Max(t)} \in SUBSET (1..n)
  BY <1>1, <1>5, MaxOfIndices
<1>6. g = [t \in SUBSET DOMAIN s |-> IF t = {} THEN select ELSE OrderBy(g[t \ {Max(t)}], s[Max(t)])]
  <2>1. \A t \in SUBSET (1..n) : g[t] = IF t = {} THEN select ELSE OrderBy(g[t \ {Max(t)}], s[Max(t)])
    BY <1>3, <1>4, <1>5 DEF FoldsSets
  <2>2. g \in [SUBSET DOMAIN s -> D]
    BY <1>1, <1>4 DEF FoldsSets
  <2> QED BY <1>1, <2>1, <2>2
<1>7. iter = [t \in SUBSET DOMAIN s |-> IF t = {} THEN select ELSE OrderBy(iter[t \ {Max(t)}], s[Max(t)])]
  BY <1>6
<1>8. FoldLeft(OrderBy, select, s) = iter[1..n]
  BY <1>1 DEF FoldLeft, MapThenFoldSet
<1> HIDE DEF iter
<1>9. FoldsWithin(iter, n, D, select, op)
  BY <1>1, <1>3, <1>5, <1>7 DEF FoldsWithin
<1>10. PICK f : FoldsTo(iter[1..n], f, n, D, select, op)
  BY <1>1, <1>3, <1>9, FoldMeans
<1>11. ASSUME NEW k \in 1..n PROVE f[k] = OrderBy(f[k - 1], s[k])
  <2>1. k - 1 \in 0..n
    BY <1>1
  <2> QED BY <1>3, <1>10, <2>1 DEF FoldsTo
<1> QED BY <1>1, <1>8, <1>10, <1>11 DEF n, D, FoldsTo

\* Ordering by keys one after the other puts them at the end of the order.
LEMMA OrderedBy ==
    ASSUME NEW select \in Selects, select.order = <<>>, NEW s \in Orders
    PROVE  FoldLeft(OrderBy, select, s) = [select EXCEPT !.order = s]
<1>1. PICK f \in [0..Len(s) -> Selects] :
         /\ f[0] = select /\ f[Len(s)] = FoldLeft(OrderBy, select, s)
         /\ \A k \in 1..Len(s) : f[k] = OrderBy(f[k - 1], s[k])
  BY OrderByFold
<1>2. s \in Seq([column : Columns, desc : BOOLEAN]) /\ Len(s) \in Nat
  BY DEF Orders
<1> DEFINE Upto(k) == SubSeq(s, 1, k)
           P == {k \in Nat : k <= Len(s) => f[k] = [select EXCEPT !.order = Upto(k)]}
<1>3. 0 \in P
  <2>1. Upto(0) = <<>>
    BY <1>2
  <2>2. [select EXCEPT !.order = <<>>] = select
    BY DEF Selects
  <2> HIDE DEF Upto
  <2> QED BY <1>1, <2>1, <2>2
<1>4. ASSUME NEW k \in Nat, k \in P PROVE k + 1 \in P
  <2> SUFFICES ASSUME k + 1 <= Len(s) PROVE f[k + 1] = [select EXCEPT !.order = Upto(k + 1)]
    OBVIOUS
  <2>1. k + 1 \in 1..Len(s) /\ (k + 1) - 1 = k
    BY <1>2
  <2>2. f[k] = [select EXCEPT !.order = Upto(k)] /\ f[k + 1] = OrderBy(f[k], s[k + 1])
    BY <1>1, <1>2, <1>4, <2>1
  <2>3. Append(Upto(k), s[k + 1]) = Upto(k + 1)
    BY <1>2, <2>1
  <2> HIDE DEF Upto
  <2> QED BY <2>2, <2>3 DEF OrderBy, Selects
<1>5. Upto(Len(s)) = s
  BY <1>2
<1> HIDE DEF P, Upto
<1>6. Len(s) \in P
  BY <1>2, <1>3, <1>4, NumbersBySteps
<1> QED BY <1>1, <1>2, <1>5, <1>6 DEF P


\* The fold of strict comparisons is the lexicographic one: the first column that
\* differs decides.
LEMMA LexicographicMeans ==
    ASSUME NEW n \in Nat \ {0}, NEW strict \in [1..n -> SUBSET Rows], NEW equal \in [1..n -> SUBSET Rows]
    PROVE  Lexicographic(strict, equal) =
              {r \in Rows : \E k \in 1..n : r \in strict[k] /\ \A j \in 1..(k - 1) : r \in equal[j]}
<1> DEFINE W(i) == {r \in Rows : \E k \in i..n : r \in strict[k] /\ \A j \in i..(k - 1) : r \in equal[j]}
           from == CHOOSE from : from = [i \in 1..n |->
                      IF i = n THEN strict[n] ELSE strict[i] \cup (equal[i] \cap from[i + 1])]
<1>1. W(n) = strict[n]
  <2>1. n..n = {n} /\ n..(n - 1) = {}
    OBVIOUS
  <2> QED BY <2>1
<1>2. ASSUME NEW i \in 1..n, i # n PROVE W(i) = strict[i] \cup (equal[i] \cap W(i + 1))
  <2>1. i + 1 \in 1..n /\ i \in Nat /\ strict[i] \in SUBSET Rows
    BY <1>2
  <2>2. ASSUME NEW r \in W(i), r \notin strict[i] PROVE r \in equal[i] \cap W(i + 1)
    <3>1. PICK k \in i..n : r \in strict[k] /\ \A j \in i..(k - 1) : r \in equal[j]
      BY <2>2
    <3>2. k \in (i + 1)..n /\ i \in i..(k - 1) /\ (i + 1)..(k - 1) \subseteq i..(k - 1)
      BY <2>1, <2>2, <3>1
    <3> QED BY <2>2, <3>1, <3>2
  <2>3. ASSUME NEW r \in strict[i] PROVE r \in W(i)
    <3>1. i \in i..n /\ i..(i - 1) = {}
      BY <2>1
    <3> QED BY <2>1, <3>1
  <2>4. ASSUME NEW r \in equal[i] \cap W(i + 1) PROVE r \in W(i)
    <3>1. PICK k \in (i + 1)..n : r \in strict[k] /\ \A j \in (i + 1)..(k - 1) : r \in equal[j]
      BY <2>4
    <3>2. k \in i..n /\ \A j \in i..(k - 1) : j = i \/ j \in (i + 1)..(k - 1)
      BY <2>1, <3>1
    <3> QED BY <2>4, <3>1, <3>2
  <2> HIDE DEF W
  <2> QED BY <2>2, <2>3, <2>4
<1> DEFINE g == [i \in 1..n |-> W(i)]
<1>3. g = [i \in 1..n |-> IF i = n THEN strict[n] ELSE strict[i] \cup (equal[i] \cap g[i + 1])]
  <2>1. \A i \in 1..n : i # n => i + 1 \in 1..n
    OBVIOUS
  <2> HIDE DEF W
  <2> QED BY <1>1, <1>2, <2>1
<1> HIDE DEF g
<1>4. from = [i \in 1..n |-> IF i = n THEN strict[n] ELSE strict[i] \cup (equal[i] \cap from[i + 1])]
  BY <1>3
<1>5. Len(strict) = n /\ Lexicographic(strict, equal) = from[1]
  <2>1. Len(strict) = n
    OBVIOUS
  <2> QED BY <2>1 DEF Lexicographic
<1> HIDE DEF from
<1> DEFINE P == {m \in Nat : m < n => from[n - m] = W(n - m)}
<1>6. 0 \in P
  <2>1. n - 0 = n /\ n \in 1..n
    OBVIOUS
  <2> HIDE DEF W
  <2> QED BY <1>1, <1>4, <2>1
<1>7. ASSUME NEW m \in Nat, m \in P PROVE m + 1 \in P
  <2> SUFFICES ASSUME m + 1 < n PROVE from[n - (m + 1)] = W(n - (m + 1))
    OBVIOUS
  <2>1. PICK i \in 1..n : i = n - (m + 1) /\ i # n /\ i + 1 = n - m /\ m < n
    OBVIOUS
  <2>2. from[i + 1] = W(i + 1)
    BY <1>7, <2>1
  <2>3. from[i] = strict[i] \cup (equal[i] \cap from[i + 1])
    BY <1>4, <2>1
  <2>4. W(i) = strict[i] \cup (equal[i] \cap W(i + 1))
    BY <1>2, <2>1
  <2> HIDE DEF W
  <2> QED BY <2>1, <2>2, <2>3, <2>4
<1> HIDE DEF P
<1>8. n - 1 \in P
  <2>1. n - 1 \in Nat
    OBVIOUS
  <2> QED BY <1>6, <1>7, <2>1, NumbersBySteps
<1>9. from[1] = W(1)
  <2>1. n - 1 < n /\ n - (n - 1) = 1
    OBVIOUS
  <2> HIDE DEF W
  <2> QED BY <1>8, <2>1 DEF P
<1> QED BY <1>5, <1>9

KeyOrder(key) == OrderKeys(key, FALSE)

LEMMA KeysOrder ==
    ASSUME NEW key \in CursorKeys
    PROVE  /\ key \in Seq(Columns) /\ Len(key) \in Nat \ {0} /\ DOMAIN key = 1..Len(key)
           /\ \A descending \in BOOLEAN :
                 OrderKeys(key, descending) \in Orders /\ IsTotal(OrderKeys(key, descending))
           /\ \A r, q : OrdersBefore(KeyOrder(key), r, q) <=>
                 \E i \in 1..Len(key) : r[key[i]] < q[key[i]] /\ \A j \in 1..(i - 1) : r[key[j]] = q[key[j]]
           /\ \A r, q \in Rows : OrdersBefore(OrderKeys(key, TRUE), r, q) <=> OrdersBefore(KeyOrder(key), q, r)
           /\ \A r \in Rows, i \in 1..Len(key) : r[key[i]] \in Int
<1> DEFINE n == Len(key)
<1>1. key \in Seq(Columns) /\ n \in Nat \ {0} /\ DOMAIN key = 1..n
  <2>1. key \in Seq(Columns) /\ key # <<>>
    BY KeysAssumption
  <2>2. n \in Nat /\ DOMAIN key = 1..n
    BY <2>1
  <2>3. n # 0
    BY <2>1
  <2> QED BY <2>1, <2>2, <2>3
<1>2. ASSUME NEW i \in 1..n PROVE key[i] \in Columns
  BY <1>1, ElementOf
<1>3. \A r \in Rows, i \in 1..n : r[key[i]] \in Int
  BY <1>2, RowsAssumption
<1> HIDE DEF n
<1>4. ASSUME NEW descending \in BOOLEAN
      PROVE  /\ OrderKeys(key, descending) \in [1..n -> [column : Columns, desc : BOOLEAN]]
             /\ \A i \in 1..n : /\ OrderKeys(key, descending)[i].column = key[i]
                                /\ OrderKeys(key, descending)[i].desc = descending
  BY <1>1, <1>2 DEF OrderKeys
<1>5. \A descending \in BOOLEAN : OrderKeys(key, descending) \in Orders
  BY <1>1, <1>4, IsSequence DEF Orders
<1>6. ASSUME NEW r, NEW q
      PROVE OrdersBefore(KeyOrder(key), r, q) <=>
              \E i \in 1..n : r[key[i]] < q[key[i]] /\ \A j \in 1..(i - 1) : r[key[j]] = q[key[j]]
  <2>1. \A i \in 1..n : \A j \in 1..(i - 1) : j \in 1..n
    BY <1>1
  <2>2. DOMAIN KeyOrder(key) = 1..n
    BY <1>4 DEF KeyOrder
  <2> DEFINE o == KeyOrder(key)
  <2>3. \A i \in 1..n : o[i].column = key[i] /\ o[i].desc = FALSE
    BY <1>4 DEF KeyOrder
  <2> HIDE DEF o
  <2>4. OrdersBefore(o, r, q) <=>
          \E i \in 1..n : /\ IF o[i].desc THEN r[o[i].column] > q[o[i].column] ELSE r[o[i].column] < q[o[i].column]
                         /\ \A j \in 1..(i - 1) : r[o[j].column] = q[o[j].column]
    BY <2>2 DEF OrdersBefore, o
  <2> QED BY <2>1, <2>3, <2>4 DEF o
<1>7. ASSUME NEW r \in Rows, NEW q \in Rows
      PROVE OrdersBefore(OrderKeys(key, TRUE), r, q) <=> OrdersBefore(KeyOrder(key), q, r)
  <2>1. \A i \in 1..n : \A j \in 1..(i - 1) : j \in 1..n
    BY <1>1
  <2>2. DOMAIN OrderKeys(key, TRUE) = 1..n
    BY <1>4
  <2>3. OrdersBefore(OrderKeys(key, TRUE), r, q) <=>
           \E i \in 1..n : r[key[i]] > q[key[i]] /\ \A j \in 1..(i - 1) : r[key[j]] = q[key[j]]
    <3> DEFINE o == OrderKeys(key, TRUE)
    <3>1. \A i \in 1..n : o[i].column = key[i] /\ o[i].desc = TRUE
      BY <1>4
    <3> HIDE DEF o
    <3>2. OrdersBefore(o, r, q) <=>
            \E i \in 1..n : /\ IF o[i].desc THEN r[o[i].column] > q[o[i].column] ELSE r[o[i].column] < q[o[i].column]
                           /\ \A j \in 1..(i - 1) : r[o[j].column] = q[o[j].column]
      BY <2>2 DEF OrdersBefore, o
    <3>3. \A i \in 1..n : (IF o[i].desc THEN r[o[i].column] > q[o[i].column] ELSE r[o[i].column] < q[o[i].column])
                          <=> r[key[i]] > q[key[i]]
      BY <3>1
    <3>4. \A i \in 1..n : (\A j \in 1..(i - 1) : r[o[j].column] = q[o[j].column])
                          <=> (\A j \in 1..(i - 1) : r[key[j]] = q[key[j]])
      BY <2>1, <3>1
    <3> QED BY <3>2, <3>3, <3>4 DEF o
  <2>4. \A i \in 1..n : r[key[i]] > q[key[i]] <=> q[key[i]] < r[key[i]]
    BY <1>3
  <2>5. OrdersBefore(KeyOrder(key), q, r) <=>
           \E i \in 1..n : q[key[i]] < r[key[i]] /\ \A j \in 1..(i - 1) : q[key[j]] = r[key[j]]
    BY <1>6
  <2>6. \A i \in 1..n : (\A j \in 1..(i - 1) : r[key[j]] = q[key[j]]) <=> (\A j \in 1..(i - 1) : q[key[j]] = r[key[j]])
    OBVIOUS
  <2> QED BY <2>3, <2>4, <2>5, <2>6
<1>8. IsTotal(OrderKeys(key, FALSE)) /\ IsTotal(OrderKeys(key, TRUE))
  <2>1. IsTotal(OrderKeys(key, FALSE))
    BY KeysAssumption
  <2> QED BY <1>7, <2>1 DEF IsTotal, KeyOrder
<1> QED BY <1>1, <1>3, <1>5, <1>6, <1>7, <1>8 DEF n

\* after_expr and before_expr hold of the rows on either side of the boundary row.
LEMMA BoundaryMeans ==
    ASSUME NEW key \in CursorKeys, NEW e \in Rows
    PROVE  LET at == [i \in DOMAIN key |-> e[key[i]]] IN
           /\ AfterExpr(key, at) = {r \in Rows : OrdersBefore(KeyOrder(key), e, r)}
           /\ BeforeExpr(key, at) = {r \in Rows : OrdersBefore(KeyOrder(key), r, e)}
<1> DEFINE n == Len(key)
           at == [i \in DOMAIN key |-> e[key[i]]]
           above == [i \in DOMAIN key |-> {r \in Rows : r[key[i]] > at[i]}]
           below == [i \in DOMAIN key |-> {r \in Rows : r[key[i]] < at[i]}]
           same == Equal(key, at)
<1>0. \A r, q : OrdersBefore(KeyOrder(key), r, q) <=>
          \E i \in 1..n : r[key[i]] < q[key[i]] /\ \A j \in 1..(i - 1) : r[key[j]] = q[key[j]]
  BY KeysOrder, Zenon
<1>1. n \in Nat \ {0} /\ DOMAIN key = 1..n
  BY KeysOrder
<1> HIDE DEF n
<1>2. above \in [1..n -> SUBSET Rows] /\ below \in [1..n -> SUBSET Rows] /\ same \in [1..n -> SUBSET Rows]
  BY <1>1 DEF Equal
<1>3. ASSUME NEW i \in 1..n, NEW r \in Rows
      PROVE  /\ r \in above[i] <=> e[key[i]] < r[key[i]]
             /\ r \in below[i] <=> r[key[i]] < e[key[i]]
             /\ r \in same[i] <=> e[key[i]] = r[key[i]]
  <2>1. r[key[i]] \in Int /\ e[key[i]] \in Int
    BY KeysOrder DEF n
  <2> QED BY <1>1, <2>1 DEF Equal
<1>4. AfterExpr(key, at) = Lexicographic(above, same) /\ BeforeExpr(key, at) = Lexicographic(below, same)
  BY DEF AfterExpr, BeforeExpr
<1> HIDE DEF above, below, same
<1>5. \A i \in 1..n : \A j \in 1..(i - 1) : j \in 1..n
  BY <1>1
<1>6. AfterExpr(key, at) = {r \in Rows : OrdersBefore(KeyOrder(key), e, r)}
  <2>1. AfterExpr(key, at) = {r \in Rows : \E k \in 1..n : r \in above[k] /\ \A j \in 1..(k - 1) : r \in same[j]}
    BY <1>1, <1>2, <1>4, LexicographicMeans
  <2>2. ASSUME NEW r \in Rows
        PROVE  OrdersBefore(KeyOrder(key), e, r) <=>
                 \E k \in 1..n : r \in above[k] /\ \A j \in 1..(k - 1) : r \in same[j]
    <3>1. OrdersBefore(KeyOrder(key), e, r) <=>
            \E i \in 1..n : e[key[i]] < r[key[i]] /\ \A j \in 1..(i - 1) : e[key[j]] = r[key[j]]
      BY <1>0
    <3> QED BY <1>3, <1>5, <3>1
  <2> HIDE DEF at
  <2> QED BY <2>1, <2>2
<1>7. BeforeExpr(key, at) = {r \in Rows : OrdersBefore(KeyOrder(key), r, e)}
  <2>1. BeforeExpr(key, at) = {r \in Rows : \E k \in 1..n : r \in below[k] /\ \A j \in 1..(k - 1) : r \in same[j]}
    BY <1>1, <1>2, <1>4, LexicographicMeans
  <2>2. ASSUME NEW r \in Rows
        PROVE  OrdersBefore(KeyOrder(key), r, e) <=>
                 \E k \in 1..n : r \in below[k] /\ \A j \in 1..(k - 1) : r \in same[j]
    <3>1. OrdersBefore(KeyOrder(key), r, e) <=>
            \E i \in 1..n : r[key[i]] < e[key[i]] /\ \A j \in 1..(i - 1) : r[key[j]] = e[key[j]]
      BY <1>0
    <3>2. \A i \in 1..n : r \in same[i] <=> r[key[i]] = e[key[i]]
      BY <1>3
    <3> QED BY <1>3, <1>5, <3>1, <3>2
  <2> HIDE DEF at
  <2> QED BY <2>1, <2>2
<1> QED BY <1>6, <1>7

-----------------------------------------------------------------------------
(* What one page of a walk holds.                                            *)

Ascending(order, s) ==
    /\ s \in Seq(Rows)
    /\ \A i, j \in 1..Len(s) : i < j => OrdersBefore(order, s[i], s[j])

\* page begins, or ends, the rows: the others come after its last, before its first.
Leads(page, order, rows) ==
    /\ Ascending(order, page) /\ ToSet(page) \subseteq rows
    /\ page = <<>> => rows = {}
    /\ \A r \in rows : r \in ToSet(page) \/ OrdersBefore(order, page[Len(page)], r)
Trails(page, order, rows) ==
    /\ Ascending(order, page) /\ ToSet(page) \subseteq rows
    /\ page = <<>> => rows = {}
    /\ \A r \in rows : r \in ToSet(page) \/ OrdersBefore(order, r, page[1])

LEMMA InToSet ==
    ASSUME NEW S, NEW s \in Seq(S)
    PROVE  /\ Len(s) \in Nat /\ DOMAIN s = 1..Len(s)
           /\ \A x : x \in ToSet(s) <=> \E i \in 1..Len(s) : s[i] = x
  BY DEF ToSet

LEMMA LimitedLeads ==
    ASSUME NEW select \in Selects, IsTotal(select.order), select.offset = NoCount,
           NEW size \in PageSizes, select.fetch = size, NEW t \in SUBSET Rows
    PROVE  Leads(Answer(select, t, AnyRank), select.order, t \cap select.filter)
<1> DEFINE order == select.order
           rows == t \cap select.filter
           L == Listing(order, AnyRank, rows)
           n == Len(L)
           m == Min({n, 0 + CountBind(size)})
           page == SubSeq(L, 0 + 1, m)
<1>1. order \in Orders /\ rows \in SUBSET Rows
  BY DEF Selects
<1>2. Sorts(L, order, rows) /\ n \in Nat /\ n <= I64Max
  BY <1>1, ListingSorts
<1>3. size \in Nat \ {0} /\ I64Max \in Nat
  BY PageSizeAssumption, WidthAssumption
<1>4. size # NoCount
  BY <1>3 DEF NoCount
<1>5. Answer(select, t, AnyRank) = page
  BY <1>4 DEF Answer
<1> HIDE DEF L, n, rows, order
<1>6. CountBind(size) = (IF size <= I64Max THEN size ELSE I64Max)
  BY <1>3, MinOfTwo DEF CountBind
<1> DEFINE c == CountBind(size)
<1>7. c \in Nat /\ (c = 0 => I64Max = 0)
  BY <1>3, <1>6
<1> HIDE DEF c
<1>8. m = IF n <= c THEN n ELSE c
  <2>1. m = Min({n, c})
    BY <1>7 DEF c
  <2> HIDE DEF m
  <2> QED BY <1>2, <1>7, <2>1, MinOfTwo
<1> HIDE DEF m
<1>9. m \in 0..n /\ (m = 0 => n = 0)
  BY <1>2, <1>3, <1>7, <1>8
<1>10. L \in Seq(rows) /\ n = Len(L)
  BY <1>2 DEF Sorts, n
<1>11. page \in Seq(rows) /\ Len(page) = m /\ \A i \in 1..m : page[i] = L[i]
  BY <1>2, <1>9, <1>10
<1> HIDE DEF page
<1>12. \A i \in 1..m : i \in 1..n
  BY <1>2, <1>9
<1>13. Ascending(order, page)
  <2>1. page \in Seq(Rows)
    BY <1>1, <1>11
  <2>2. \A i, j \in 1..n : i < j => OrdersBefore(order, L[i], L[j])
    BY <1>2, <1>10 DEF Sorts
  <2> QED BY <1>11, <1>12, <2>1, <2>2 DEF Ascending
<1>14. ToSet(page) \subseteq rows
  BY <1>11, InToSet, ElementOf
<1>15. ASSUME NEW r \in rows PROVE n # 0 /\ (r \in ToSet(page) \/ OrdersBefore(order, page[m], r))
  <2>1. PICK i \in 1..n : L[i] = r
    BY <1>2, <1>10, <1>15 DEF Sorts
  <2>2. n # 0
    BY <1>2, <2>1
  <2>3. CASE i <= m
    <3>1. i \in 1..m
      BY <2>1, <2>3
    <3>2. page[i] = r
      BY <1>11, <2>1, <3>1
    <3> QED BY <1>11, <2>2, <3>1, <3>2, InToSet
  <2>4. CASE m < i
    <3>1. m \in 1..n /\ m \in 1..m
      BY <1>2, <1>9, <2>2
    <3>2. OrdersBefore(order, L[m], L[i])
      BY <1>2, <1>10, <2>1, <2>4, <3>1 DEF Sorts
    <3> QED BY <1>11, <2>1, <2>2, <3>1, <3>2
  <2> QED BY <1>9, <2>1, <2>3, <2>4
<1>16. page = <<>> => rows = {}
  <2>1. page = <<>> => m = 0
    BY <1>11
  <2> QED BY <1>9, <1>15, <2>1
<1>17. Leads(page, order, rows)
  BY <1>11, <1>13, <1>14, <1>15, <1>16 DEF Leads
<1> QED BY <1>5, <1>17 DEF rows, order

\* CursorExecute::all of Cursor::last: turned around, the page ends the rows.
LEMMA ReversedTrails ==
    ASSUME NEW up, NEW down, NEW rows \in SUBSET Rows,
           \A r, q \in Rows : OrdersBefore(down, r, q) <=> OrdersBefore(up, q, r),
           NEW page, Leads(page, down, rows)
    PROVE  Trails(Reverse(page), up, rows)
<1> DEFINE n == Len(page)
           back == Reverse(page)
<1>1. page \in Seq(Rows) /\ n \in Nat
  BY DEF Leads, Ascending
<1>2. back = [i \in 1..n |-> page[n - i + 1]]
  BY DEF Reverse
<1>3. \A i \in 1..n : n - i + 1 \in 1..n
  BY <1>1
<1> HIDE DEF n, back
<1>4. \A i \in 1..n : page[i] \in Rows
  BY <1>1, ElementOf DEF n
<1>5. back \in [1..n -> Rows] /\ \A i \in 1..n : back[i] = page[n - i + 1]
  BY <1>2, <1>3, <1>4
<1>6. back \in Seq(Rows) /\ Len(back) = n
  BY <1>1, <1>5
<1>7. ASSUME NEW i \in 1..n, NEW j \in 1..n, i < j PROVE OrdersBefore(up, back[i], back[j])
  <2>1. PICK a \in 1..n, b \in 1..n : a = n - j + 1 /\ b = n - i + 1 /\ a < b
    BY <1>1, <1>3, <1>7
  <2>2. OrdersBefore(down, page[a], page[b])
    BY <2>1 DEF Leads, Ascending, n
  <2> QED BY <1>4, <1>5, <2>1, <2>2
<1>8. ToSet(back) = ToSet(page)
  <2>1. \A x : x \in ToSet(back) <=> \E i \in 1..n : back[i] = x
    BY <1>6, InToSet
  <2>2. \A x : x \in ToSet(page) <=> \E i \in 1..n : page[i] = x
    BY <1>1, InToSet DEF n
  <2>3. \A i \in 1..n : \E j \in 1..n : back[i] = page[j]
    BY <1>3, <1>5
  <2>4. \A j \in 1..n : \E i \in 1..n : back[i] = page[j]
    <3> SUFFICES ASSUME NEW j \in 1..n PROVE \E i \in 1..n : back[i] = page[j]
      OBVIOUS
    <3>1. PICK i \in 1..n : i = n - j + 1 /\ n - i + 1 = j
      BY <1>1
    <3> QED BY <1>5, <3>1
  <2>5. \A x : x \in ToSet(back) <=> x \in ToSet(page)
    BY <2>1, <2>2, <2>3, <2>4
  <2> QED BY <2>5
<1>9. ASSUME NEW r \in rows PROVE r \in ToSet(back) \/ OrdersBefore(up, r, back[1])
  <2>1. r \in ToSet(page) \/ OrdersBefore(down, page[n], r)
    BY <1>9 DEF Leads, n
  <2>2. n # 0
    <3>1. page # <<>>
      BY <1>9 DEF Leads
    <3> QED BY <1>1, <3>1 DEF n
  <2>3. 1 \in 1..n /\ n \in 1..n /\ n - 1 + 1 = n
    BY <1>1, <2>2
  <2>4. back[1] = page[n] /\ page[n] \in Rows
    BY <1>4, <1>5, <2>3
  <2> QED BY <1>8, <2>1, <2>4
<1>10. back = <<>> => rows = {}
  <2>1. back = <<>> => page = <<>>
    BY <1>1, <1>6 DEF n
  <2> QED BY <2>1 DEF Leads
<1>11. Ascending(up, back)
  BY <1>6, <1>7 DEF Ascending
<1>12. ToSet(back) \subseteq rows
  BY <1>8 DEF Leads
<1>13. Trails(back, up, rows)
  BY <1>9, <1>10, <1>11, <1>12 DEF Trails
<1> QED BY <1>13 DEF back

\* A walker's next page within a region of the table, ahead or back.
LEMMA CursorReads ==
    ASSUME NEW base \in CursorBases, base.offset = NoCount, NEW key \in CursorKeys,
           NEW size \in PageSizes, NEW region \in SUBSET Rows, NEW t \in SUBSET Rows,
           NEW c,
           c.key = key, c.select = Filter(CursorBy(base, key).select, region)
    PROVE  LET rows == t \cap base.filter \cap region IN
           /\ IsTotal(FirstRows(c, size).select.order) /\ IsTotal(LastRows(c, size).select.order)
           /\ Leads(All(FirstRows(c, size), t, AnyRank), KeyOrder(key), rows)
           /\ Trails(All(LastRows(c, size), t, AnyRank), KeyOrder(key), rows)
<1> SUFFICES ASSUME NEW descending \in BOOLEAN
             PROVE  LET rows == t \cap base.filter \cap region
                        page == CursorPage(c, size, descending)
                    IN  /\ IsTotal(page.select.order)
                        /\ ~descending => Leads(All(page, t, AnyRank), KeyOrder(key), rows)
                        /\ descending => Trails(All(page, t, AnyRank), KeyOrder(key), rows)
  BY DEF FirstRows, LastRows
<1> DEFINE page == CursorPage(c, size, descending)
           order == OrderKeys(key, descending)
           select == page.select
<1>1. base \in Selects /\ size \in Nat /\ order \in Orders /\ IsTotal(order)
  <2>1. \A down \in BOOLEAN : OrderKeys(key, down) \in Orders /\ IsTotal(OrderKeys(key, down))
    BY KeysOrder
  <2>2. base \in Selects /\ size \in Nat
    BY BasesAssumption, PageSizeAssumption
  <2> QED BY <2>1, <2>2
<1>2. /\ c.key = key /\ c.select \in Selects /\ c.select.order = <<>> /\ c.select.offset = NoCount
      /\ c.select.filter = base.filter \cap region
  <2>1. c.key = key /\ c.select = [base EXCEPT !.order = <<>>, !.filter = base.filter \cap region]
    BY <1>1 DEF CursorBy, Filter, Selects
  <2>2. <<>> \in Orders
    BY DEF Orders
  <2>3. /\ base.filter \in SUBSET Rows /\ base.offset = NoCount
        /\ base.offset \in Nat \cup {NoCount} /\ base.fetch \in Nat \cup {NoCount}
    BY <1>1 DEF Selects
  <2>4. c.select = [filter |-> base.filter \cap region, order |-> <<>>, offset |-> NoCount, fetch |-> base.fetch]
    BY <1>1, <2>1, <2>3 DEF Selects
  <2> QED BY <2>1, <2>2, <2>3, <2>4 DEF Selects
<1>3. FoldLeft(OrderBy, c.select, order) = [c.select EXCEPT !.order = order]
  BY <1>1, <1>2, OrderedBy
<1>4. select = [c.select EXCEPT !.order = order, !.fetch = size] /\ page.reversed = descending
  <2>1. select = Limit(FoldLeft(OrderBy, c.select, OrderKeys(c.key, descending)), size) /\ page.reversed = descending
    BY DEF CursorPage
  <2>2. select = Limit([c.select EXCEPT !.order = order], size)
    BY <1>2, <1>3, <2>1
  <2> QED BY <1>2, <2>1, <2>2 DEF Limit, Selects
<1>5. /\ select \in Selects /\ select.order = order /\ select.offset = NoCount
      /\ select.fetch = size /\ select.filter = base.filter \cap region
  BY <1>1, <1>2, <1>4 DEF Selects
<1> DEFINE rows == t \cap base.filter \cap region
           reply == Answer(select, t, AnyRank)
<1> HIDE DEF page, order, select
<1>6. rows = t \cap select.filter /\ rows \in SUBSET Rows
  BY <1>5
<1>7. Leads(reply, order, rows)
  BY <1>1, <1>5, <1>6, LimitedLeads
<1>8. IsTotal(page.select.order)
  BY <1>1, <1>5 DEF select
<1>9. All(page, t, AnyRank) = IF descending THEN Reverse(reply) ELSE reply
  BY <1>4 DEF All, select
<1> HIDE DEF reply, rows
<1>10. CASE ~descending
  BY <1>7, <1>8, <1>9, <1>10 DEF KeyOrder, order, page, rows
<1>11. CASE descending
  <2>1. \A r, q \in Rows : OrdersBefore(order, r, q) <=> OrdersBefore(KeyOrder(key), q, r)
    BY <1>11, KeysOrder DEF order
  <2>2. Trails(Reverse(reply), KeyOrder(key), rows)
    BY <1>6, <1>7, <2>1, ReversedTrails
  <2> QED BY <1>8, <1>9, <1>11, <2>2 DEF page, rows
<1> QED BY <1>10, <1>11

LEMMA Appending ==
    ASSUME NEW order, NEW s, Ascending(order, s), NEW u, Ascending(order, u),
           \A i \in 1..Len(s), j \in 1..Len(u) : OrdersBefore(order, s[i], u[j])
    PROVE  /\ Ascending(order, s \o u) /\ ToSet(s \o u) = ToSet(s) \cup ToSet(u)
           /\ Len(s \o u) = Len(s) + Len(u)
           /\ \A i \in 1..Len(s) : (s \o u)[i] = s[i]
           /\ \A j \in 1..Len(u) : (s \o u)[Len(s) + j] = u[j]
<1> DEFINE n == Len(s)
           m == Len(u)
           w == s \o u
<1>1. s \in Seq(Rows) /\ u \in Seq(Rows) /\ n \in Nat /\ m \in Nat
  BY DEF Ascending
<1>2. /\ w \in Seq(Rows) /\ Len(w) = n + m
      /\ \A i \in 1..n : w[i] = s[i]
      /\ \A j \in 1..m : w[n + j] = u[j]
  BY <1>1
<1> HIDE DEF w
<1>3. \A i \in 1..(n + m) : i \in 1..n \/ \E j \in 1..m : i = n + j
  <2> SUFFICES ASSUME NEW i \in 1..(n + m), i \notin 1..n PROVE \E j \in 1..m : i = n + j
    OBVIOUS
  <2>1. i - n \in 1..m /\ i = n + (i - n)
    BY <1>1
  <2> QED BY <2>1
<1>4. \A i \in 1..n : i \in 1..(n + m)
  BY <1>1
<1>5. \A j \in 1..m : n + j \in 1..(n + m)
  BY <1>1
<1>6. /\ \A i, j \in 1..n : i < j => OrdersBefore(order, s[i], s[j])
      /\ \A i, j \in 1..m : i < j => OrdersBefore(order, u[i], u[j])
  BY DEF Ascending
<1> HIDE DEF n, m
<1>7. ASSUME NEW i \in 1..(n + m), NEW k \in 1..(n + m), i < k PROVE OrdersBefore(order, w[i], w[k])
  <2>1. CASE k \in 1..n
    <3>1. i \in 1..n
      BY <1>1, <1>7, <2>1
    <3> QED BY <1>2, <1>6, <1>7, <2>1, <3>1
  <2>2. CASE k \notin 1..n
    <3>1. PICK b \in 1..m : k = n + b
      BY <1>3, <2>2
    <3>2. CASE i \in 1..n
      BY <1>2, <3>1, <3>2 DEF n, m
    <3>3. CASE i \notin 1..n
      <4>1. PICK a \in 1..m : i = n + a
        BY <1>3, <3>3
      <4>2. a < b
        BY <1>1, <1>7, <3>1, <4>1
      <4> QED BY <1>2, <1>6, <3>1, <4>1, <4>2
    <3> QED BY <3>2, <3>3
  <2> QED BY <2>1, <2>2
<1>8. ToSet(w) = ToSet(s) \cup ToSet(u)
  <2>1. \A x : x \in ToSet(w) <=> \E i \in 1..(n + m) : w[i] = x
    BY <1>2, InToSet
  <2>2. \A x : x \in ToSet(s) <=> \E i \in 1..n : s[i] = x
    BY <1>1, InToSet DEF n
  <2>3. \A x : x \in ToSet(u) <=> \E i \in 1..m : u[i] = x
    BY <1>1, InToSet DEF m
  <2>4. ASSUME NEW x \in ToSet(w) PROVE x \in ToSet(s) \cup ToSet(u)
    BY <1>2, <1>3, <2>1, <2>2, <2>3, <2>4
  <2>5. ASSUME NEW x \in ToSet(s) \cup ToSet(u) PROVE x \in ToSet(w)
    BY <1>2, <1>4, <1>5, <2>1, <2>2, <2>3, <2>5
  <2> QED BY <2>4, <2>5
<1>9. Ascending(order, w)
  BY <1>2, <1>7 DEF Ascending
<1> QED BY <1>2, <1>8, <1>9 DEF n, m, w

\* The rows a walk has yet to reach.
Beyond(order, s, ahead) ==
    {r \in Rows : \/ s = <<>>
                  \/ IF ahead THEN OrdersBefore(order, s[Len(s)], r) ELSE OrdersBefore(order, r, s[1])}

LEMMA StepAhead ==
    ASSUME NEW order \in Orders, NEW s, Ascending(order, s), NEW T \in SUBSET Rows,
           NEW page, page # <<>>, Leads(page, order, T \cap Beyond(order, s, TRUE))
    PROVE  /\ Ascending(order, s \o page) /\ s \o page # <<>>
           /\ page[Len(page)] \in Rows /\ (s \o page)[Len(s \o page)] = page[Len(page)]
           /\ \A r \in T : r \in ToSet(s) \cup Beyond(order, s, TRUE) =>
                 r \in ToSet(s \o page) \cup Beyond(order, s \o page, TRUE)
<1> DEFINE n == Len(s)
           m == Len(page)
           B == Beyond(order, s, TRUE)
           w == s \o page
<1>1. /\ s \in Seq(Rows) /\ page \in Seq(Rows) /\ n \in Nat /\ m \in Nat \ {0}
      /\ Ascending(order, page)
  <2>1. s \in Seq(Rows) /\ page \in Seq(Rows) /\ Ascending(order, page)
    BY DEF Ascending, Leads
  <2> QED BY <2>1
<1>2. \A j \in 1..m : page[j] \in B
  <2>1. \A j \in 1..m : page[j] \in ToSet(page)
    BY <1>1, InToSet
  <2> QED BY <2>1 DEF Leads
<1>3. \A i \in 1..n : s[i] \in Rows
  BY <1>1, ElementOf
<1>4. ASSUME NEW i \in 1..n, NEW j \in 1..m PROVE OrdersBefore(order, s[i], page[j])
  <2>1. s # <<>> /\ n \in 1..n
    BY <1>1, <1>4
  <2>2. OrdersBefore(order, s[n], page[j]) /\ page[j] \in Rows
    BY <1>2, <2>1 DEF Beyond
  <2>3. i = n \/ OrdersBefore(order, s[i], s[n])
    BY <1>1, <2>1 DEF Ascending
  <2> QED BY <1>3, <2>1, <2>2, <2>3, OrderIsStrict
<1>5. /\ Ascending(order, w) /\ ToSet(w) = ToSet(s) \cup ToSet(page)
      /\ Len(w) = n + m /\ w[n + m] = page[m]
  <2>1. m \in 1..m
    BY <1>1
  <2> QED BY <1>1, <1>4, <2>1, Appending
<1>6. w # <<>>
  <2>1. Len(w) # 0 /\ w \in Seq(Rows)
    BY <1>1, <1>5 DEF Ascending
  <2> HIDE DEF w
  <2> QED BY <2>1
<1> HIDE DEF w, n, m, B
<1>7. page[m] \in Rows
  <2>1. m \in 1..m
    BY <1>1
  <2> QED BY <1>2, <2>1 DEF B, Beyond
<1>8. ASSUME NEW r \in T, r \in B, r \notin ToSet(page) PROVE r \in Beyond(order, w, TRUE)
  <2>1. OrdersBefore(order, page[m], r)
    BY <1>8 DEF Leads, B, m
  <2> QED BY <1>5, <2>1 DEF Beyond
<1>9. \A r \in T : r \in ToSet(s) \cup B => r \in ToSet(w) \cup Beyond(order, w, TRUE)
  BY <1>5, <1>8
<1> QED BY <1>5, <1>6, <1>7, <1>9 DEF w, n, m, B

LEMMA StepBack ==
    ASSUME NEW order \in Orders, NEW s, Ascending(order, s), NEW T \in SUBSET Rows,
           NEW page, page # <<>>, Trails(page, order, T \cap Beyond(order, s, FALSE))
    PROVE  /\ Ascending(order, page \o s) /\ page \o s # <<>>
           /\ page[1] \in Rows /\ (page \o s)[1] = page[1]
           /\ \A r \in T : r \in ToSet(s) \cup Beyond(order, s, FALSE) =>
                 r \in ToSet(page \o s) \cup Beyond(order, page \o s, FALSE)
<1> DEFINE n == Len(s)
           m == Len(page)
           B == Beyond(order, s, FALSE)
           w == page \o s
<1>1. /\ s \in Seq(Rows) /\ page \in Seq(Rows) /\ n \in Nat /\ m \in Nat \ {0}
      /\ Ascending(order, page)
  <2>1. s \in Seq(Rows) /\ page \in Seq(Rows) /\ Ascending(order, page)
    BY DEF Ascending, Trails
  <2> QED BY <2>1
<1>2. \A j \in 1..m : page[j] \in B
  <2>1. \A j \in 1..m : page[j] \in ToSet(page)
    BY <1>1, InToSet
  <2> QED BY <2>1 DEF Trails
<1>3. \A i \in 1..n : s[i] \in Rows
  BY <1>1, ElementOf
<1>4. ASSUME NEW j \in 1..m, NEW i \in 1..n PROVE OrdersBefore(order, page[j], s[i])
  <2>1. s # <<>> /\ 1 \in 1..n
    BY <1>1, <1>4
  <2>2. OrdersBefore(order, page[j], s[1]) /\ page[j] \in Rows
    BY <1>2, <2>1 DEF Beyond
  <2>3. i = 1 \/ OrdersBefore(order, s[1], s[i])
    BY <1>1, <2>1 DEF Ascending
  <2> QED BY <1>3, <2>1, <2>2, <2>3, OrderIsStrict
<1>5. /\ Ascending(order, w) /\ ToSet(w) = ToSet(page) \cup ToSet(s)
      /\ Len(w) = m + n /\ w[1] = page[1]
  <2>1. 1 \in 1..m
    BY <1>1
  <2> QED BY <1>1, <1>4, <2>1, Appending
<1>6. w # <<>>
  <2>1. Len(w) # 0 /\ w \in Seq(Rows)
    BY <1>1, <1>5 DEF Ascending
  <2> HIDE DEF w
  <2> QED BY <2>1
<1> HIDE DEF w, n, m, B
<1>7. page[1] \in Rows
  <2>1. 1 \in 1..m
    BY <1>1
  <2> QED BY <1>2, <2>1 DEF B, Beyond
<1>8. ASSUME NEW r \in T, r \in B, r \notin ToSet(page) PROVE r \in Beyond(order, w, FALSE)
  <2>1. OrdersBefore(order, r, page[1])
    BY <1>8 DEF Trails, B
  <2> QED BY <1>5, <2>1 DEF Beyond
<1>9. \A r \in T : r \in ToSet(s) \cup B => r \in ToSet(w) \cup Beyond(order, w, FALSE)
  BY <1>5, <1>8
<1> QED BY <1>5, <1>6, <1>7, <1>9 DEF w, B

-----------------------------------------------------------------------------
(* A walk.                                                                   *)

CursorOrder == KeyOrder(reader.cursor.key)
Wanted == kept \cap reader.cursor.select.filter
Reached == IF reader.forward THEN seen[Len(seen)] ELSE seen[1]
ToCome == Beyond(CursorOrder, seen, reader.forward)

\* What was delivered is sorted and ends at the edge; what is wanted was
\* delivered or lies beyond.
WalkInv ==
    /\ ReaderTyped
    /\ Walking =>
         /\ kept \subseteq table
         /\ Ascending(CursorOrder, seen)
         /\ edge = NoKey <=> seen = <<>>
         /\ seen # <<>> => Reached \in Rows /\ edge = KeyOf(reader.cursor, Reached)
         /\ Wanted \subseteq ToSet(seen) \cup ToCome
         /\ done => Wanted \subseteq ToSet(seen)

LEMMA NextPageReads ==
    ASSUME \A base \in CursorBases : base.offset = NoCount,
           WalkInv, Walking, NEW rank \in RanksFor(NextPage.select.order)
    PROVE  LET rows == table \cap reader.cursor.select.filter \cap ToCome
               page == All(NextPage, table, rank)
           IN  IF reader.forward THEN Leads(page, CursorOrder, rows) ELSE Trails(page, CursorOrder, rows)
<1>1. PICK base \in CursorBases, key \in CursorKeys, size \in PageSizes, ahead \in BOOLEAN :
         reader = Walker(base, key, size, ahead)
  BY DEF WalkInv, ReaderTyped, Walking, Paginator
<1> DEFINE c == CursorBy(base, key)
           o == KeyOrder(key)
<1>2. /\ reader.cursor = c /\ reader.size = size /\ reader.forward = ahead /\ base \in Selects
      /\ c.key = key /\ c.select.filter = base.filter /\ c = [select |-> c.select, key |-> key]
      /\ base.filter \in SUBSET Rows /\ c.select.filter \in SUBSET Rows
      /\ \A region \in SUBSET Rows : Filter(c.select, region).filter = base.filter \cap region
  BY <1>1, BasesAssumption DEF Walker, CursorBy, Selects, Filter
<1> DEFINE region == Beyond(o, seen, ahead)
           d == [c EXCEPT !.select = Filter(@, region)]
<1>3. CursorOrder = o /\ ToCome = region /\ region \in SUBSET Rows /\ table \in SUBSET Rows
  BY <1>2 DEF CursorOrder, ToCome, Beyond, WalkInv, ReaderTyped
<1>4. NextPage = IF ahead THEN FirstRows(d, size) ELSE LastRows(d, size)
  <2>1. CASE seen = <<>>
    <3>1. region = Rows /\ edge = NoKey
      BY <2>1 DEF Beyond, WalkInv
    <3>2. d = c
      <4>1. c.select = [base EXCEPT !.order = <<>>]
        BY DEF CursorBy
      <4>2. Filter(c.select, Rows) = c.select
        BY <1>2, <4>1 DEF Filter, Selects
      <4> HIDE DEF c, region
      <4>3. [c EXCEPT !.select = Filter(@, Rows)] = [select |-> c.select, key |-> key]
        BY <1>2, <4>2
      <4> QED BY <1>2, <3>1, <4>3
    <3>3. NextPage = IF ahead THEN FirstRows(c, size) ELSE LastRows(c, size)
      BY <1>2, <3>1 DEF NextPage
    <3> QED BY <3>2, <3>3
  <2>2. CASE seen # <<>>
    <3>1. PICK e \in Rows : e = Reached
      BY <2>2 DEF WalkInv
    <3>2. edge # NoKey /\ edge = [i \in DOMAIN key |-> e[key[i]]]
      BY <1>2, <2>2, <3>1 DEF WalkInv, KeyOf
    <3>3. /\ AfterExpr(key, edge) = {r \in Rows : OrdersBefore(o, e, r)}
          /\ BeforeExpr(key, edge) = {r \in Rows : OrdersBefore(o, r, e)}
      BY <3>2, BoundaryMeans
    <3>4. NextPage = IF ahead THEN FirstRows(After(c, edge), size) ELSE LastRows(Before(c, edge), size)
      BY <1>2, <3>2 DEF NextPage
    <3>5. CASE ahead
      <4>1. region = {r \in Rows : OrdersBefore(o, e, r)}
        BY <1>2, <2>2, <3>1, <3>5 DEF Beyond, Reached
      <4>2. After(c, edge) = d
        BY <1>2, <3>3, <4>1 DEF After
      <4> QED BY <3>4, <3>5, <4>2
    <3>6. CASE ~ahead
      <4>1. region = {r \in Rows : OrdersBefore(o, r, e)}
        BY <1>2, <2>2, <3>1, <3>6 DEF Beyond, Reached
      <4>2. Before(c, edge) = d
        BY <1>2, <3>3, <4>1 DEF Before
      <4> QED BY <3>4, <3>6, <4>2
    <3> QED BY <3>5, <3>6
  <2> QED BY <2>1, <2>2
<1> HIDE DEF c, o, region
<1>5. /\ RanksFor(NextPage.select.order) = {AnyRank}
      /\ IF ahead THEN Leads(All(NextPage, table, AnyRank), o, table \cap base.filter \cap region)
                  ELSE Trails(All(NextPage, table, AnyRank), o, table \cap base.filter \cap region)
  <2>1. base.offset = NoCount
    BY <1>1
  <2>2. PICK t \in SUBSET Rows, R \in SUBSET Rows : t = table /\ R = region
    BY <1>3
  <2>3. PICK e : e = [CursorBy(base, key) EXCEPT !.select = Filter(@, R)]
    OBVIOUS
  <2>4. e.key = key /\ e.select = Filter(CursorBy(base, key).select, R)
    BY <1>2, <2>3 DEF c
  <2>5. /\ IsTotal(FirstRows(e, size).select.order) /\ IsTotal(LastRows(e, size).select.order)
        /\ Leads(All(FirstRows(e, size), t, AnyRank), KeyOrder(key), t \cap base.filter \cap R)
        /\ Trails(All(LastRows(e, size), t, AnyRank), KeyOrder(key), t \cap base.filter \cap R)
    BY <2>1, <2>4, CursorReads
  <2>6. NextPage = IF ahead THEN FirstRows(e, size) ELSE LastRows(e, size)
    BY <1>4, <2>2, <2>3 DEF c
  <2>7. RanksFor(NextPage.select.order) = {AnyRank}
    BY <2>5, <2>6 DEF RanksFor
  <2> QED BY <2>2, <2>5, <2>6, <2>7 DEF o
<1>6. rank = AnyRank
  BY <1>5
<1> QED BY <1>2, <1>3, <1>5, <1>6

LEMMA KeyIsSome ==
    ASSUME NEW c, c.key \in CursorKeys, NEW row
    PROVE  KeyOf(c, row) # NoKey
<1> DEFINE at == [i \in DOMAIN c.key |-> row[c.key[i]]]
<1>1. DOMAIN c.key = 1..Len(c.key) /\ Len(c.key) \in Nat \ {0}
  BY KeysOrder
<1>2. 1 \in DOMAIN at
  BY <1>1
<1>3. DOMAIN <<>> = {}
  OBVIOUS
<1> HIDE DEF at
<1>4. at # <<>>
  BY <1>2, <1>3
<1> QED BY <1>4 DEF KeyOf, NoKey, at

LEMMA WalkFetch ==
    ASSUME \A base \in CursorBases : base.offset = NoCount, WalkInv, Fetch
    PROVE  WalkInv'
<1>1. Walking /\ ~done
  BY DEF Fetch
<1>2. reader' = reader /\ table' = table /\ kept' = kept
  BY DEF Fetch
<1>3. PICK o, f, ahead, s :
         /\ o = CursorOrder /\ f = reader.cursor.select.filter /\ ahead = reader.forward /\ s = seen
         /\ f \in SUBSET Rows
  <2>1. PICK base \in CursorBases, key \in CursorKeys, n \in PageSizes, fwd \in BOOLEAN :
           reader = Walker(base, key, n, fwd)
    BY <1>1 DEF WalkInv, ReaderTyped, Walking, Paginator
  <2>2. reader.cursor.select.filter = base.filter /\ base.filter \in SUBSET Rows
    BY <2>1, BasesAssumption DEF Walker, CursorBy, Selects
  <2>3. reader.cursor.select.filter \in SUBSET Rows
    BY <2>2
  <2> QED BY <2>3
<1>4. reader.cursor.key \in CursorKeys /\ o \in Orders /\ ahead \in BOOLEAN
  <2>1. PICK base \in CursorBases, key \in CursorKeys, n \in PageSizes, fwd \in BOOLEAN :
           reader = Walker(base, key, n, fwd)
    BY <1>1 DEF WalkInv, ReaderTyped, Walking, Paginator
  <2>2. reader.cursor.key = key /\ reader.forward = fwd
    BY <2>1 DEF Walker, CursorBy
  <2> QED BY <1>3, <2>2, KeysOrder DEF CursorOrder, KeyOrder
<1>5. /\ kept \subseteq table /\ table \in SUBSET Rows /\ Ascending(o, s)
      /\ kept \cap f \subseteq ToSet(s) \cup Beyond(o, s, ahead)
  BY <1>1, <1>3 DEF WalkInv, ReaderTyped, Wanted, ToCome
<1>6. PICK rank, page :
         /\ rank \in RanksFor(NextPage.select.order) /\ page = All(NextPage, table, rank)
         /\ IF page = <<>>
            THEN done' = TRUE /\ UNCHANGED <<edge, seen>>
            ELSE /\ seen' = IF reader.forward THEN seen \o page ELSE page \o seen
                 /\ edge' = KeyOf(reader.cursor, IF reader.forward THEN Last(page) ELSE Head(page))
                 /\ UNCHANGED done
  BY DEF Fetch
<1>7. IF ahead THEN Leads(page, o, table \cap f \cap Beyond(o, s, ahead))
               ELSE Trails(page, o, table \cap f \cap Beyond(o, s, ahead))
  <2>1. IF reader.forward THEN Leads(page, CursorOrder, table \cap reader.cursor.select.filter \cap ToCome)
                          ELSE Trails(page, CursorOrder, table \cap reader.cursor.select.filter \cap ToCome)
    BY <1>1, <1>6, NextPageReads
  <2>2. ToCome = Beyond(o, s, ahead)
    BY <1>3 DEF ToCome
  <2> QED BY <1>3, <2>1, <2>2
<1>8. ReaderTyped' /\ CursorOrder' = o
  BY <1>2, <1>3 DEF WalkInv, ReaderTyped, CursorOrder
<1>9. CASE page = <<>>
  <2>1. done' = TRUE /\ edge' = edge /\ seen' = seen
    BY <1>6, <1>9
  <2>2. table \cap f \cap Beyond(o, s, ahead) = {}
    BY <1>7, <1>9 DEF Leads, Trails
  <2>3. kept \cap f \subseteq ToSet(s)
    BY <1>5, <2>2
  <2>4. Wanted' = kept \cap f /\ Reached' = Reached /\ ToCome' = ToCome
    BY <1>2, <1>3, <2>1 DEF Wanted, Reached, ToCome, CursorOrder
  <2> QED BY <1>1, <1>2, <1>3, <1>5, <1>8, <2>1, <2>3, <2>4 DEF WalkInv
<1>10. ASSUME page # <<>>, NEW w, NEW e \in Rows, w = seen', e = IF ahead THEN w[Len(w)] ELSE w[1],
              w # <<>>, edge' = KeyOf(reader.cursor, e), Ascending(o, w),
              \A r \in table \cap f : r \in ToSet(s) \cup Beyond(o, s, ahead) => r \in ToSet(w) \cup Beyond(o, w, ahead)
       PROVE  WalkInv'
  <2>1. edge' # NoKey
    BY <1>4, <1>10, KeyIsSome
  <2>2. Wanted' = kept \cap f /\ Reached' = e /\ ToCome' = Beyond(o, w, ahead)
    BY <1>2, <1>3, <1>10 DEF Wanted, Reached, ToCome, CursorOrder
  <2>3. kept \cap f \subseteq ToSet(w) \cup Beyond(o, w, ahead)
    BY <1>5, <1>10
  <2>4. done' = FALSE
    BY <1>1, <1>6, <1>10
  <2> QED BY <1>2, <1>5, <1>8, <1>10, <2>1, <2>2, <2>3, <2>4 DEF WalkInv
<1>11. CASE page # <<>> /\ ahead
  <2>1. Leads(page, o, (table \cap f) \cap Beyond(o, s, TRUE))
    BY <1>7, <1>11
  <2>2. seen' = s \o page /\ edge' = KeyOf(reader.cursor, page[Len(page)])
    BY <1>3, <1>6, <1>11 DEF Last
  <2>3. /\ Ascending(o, s \o page) /\ s \o page # <<>>
        /\ page[Len(page)] \in Rows /\ (s \o page)[Len(s \o page)] = page[Len(page)]
        /\ \A r \in table \cap f : r \in ToSet(s) \cup Beyond(o, s, TRUE) =>
              r \in ToSet(s \o page) \cup Beyond(o, s \o page, TRUE)
    <3>1. table \cap f \in SUBSET Rows
      BY <1>5
    <3> QED BY <1>4, <1>5, <1>11, <2>1, <3>1, StepAhead
  <2>4. ahead = TRUE
    BY <1>4, <1>11
  <2> QED BY <1>10, <1>11, <2>2, <2>3, <2>4
<1>12. CASE page # <<>> /\ ~ahead
  <2>1. Trails(page, o, (table \cap f) \cap Beyond(o, s, FALSE))
    BY <1>4, <1>7, <1>12
  <2>2. seen' = page \o s /\ edge' = KeyOf(reader.cursor, page[1])
    <3>1. page \in Seq(Rows)
      BY <2>1 DEF Trails, Ascending
    <3>2. Head(page) = page[1]
      BY <1>12, <3>1
    <3> QED BY <1>3, <1>6, <1>12, <3>2
  <2>3. /\ Ascending(o, page \o s) /\ page \o s # <<>>
        /\ page[1] \in Rows /\ (page \o s)[1] = page[1]
        /\ \A r \in table \cap f : r \in ToSet(s) \cup Beyond(o, s, FALSE) =>
              r \in ToSet(page \o s) \cup Beyond(o, page \o s, FALSE)
    <3>1. table \cap f \in SUBSET Rows
      BY <1>5
    <3> QED BY <1>4, <1>5, <1>12, <2>1, <3>1, StepBack
  <2>4. ahead = FALSE
    BY <1>4, <1>12
  <2> QED BY <1>10, <1>12, <2>2, <2>3, <2>4
<1> QED BY <1>9, <1>11, <1>12

\* Cursor::after, before, first and last: a walk to the end delivers every matching
\* row that was there all along, whatever is written between its pages, and its
\* rows in strictly ascending key order.
THEOREM WalkIsComplete ==
    ASSUME \A base \in CursorBases : base.offset = NoCount
    PROVE  Spec => []WalkMissesNothing
<1>1. Init => WalkInv
  <2> SUFFICES ASSUME Init PROVE WalkInv
    OBVIOUS
  <2>1. ReaderTyped
    BY DEF Init, ReaderTyped
  <2>2. kept = table /\ edge = NoKey /\ seen = <<>> /\ done = FALSE /\ table \in SUBSET Rows
    BY DEF Init
  <2>3. Ascending(CursorOrder, seen)
    <3>1. <<>> \in Seq(Rows) /\ Len(<<>>) = 0
      OBVIOUS
    <3>2. \A i \in 1..0 : FALSE
      OBVIOUS
    <3> QED BY <2>2, <3>1, <3>2 DEF Ascending
  <2>4. Wanted \subseteq ToCome
    BY <2>2 DEF Wanted, ToCome, Beyond
  <2> QED BY <2>1, <2>2, <2>3, <2>4 DEF WalkInv
<1>2. ASSUME WalkInv, [Next]_vars PROVE WalkInv'
  <2>1. CASE Fetch
    BY <1>2, <2>1, WalkFetch
  <2>2. ASSUME NEW page \in 0..U64Max, FetchPage(page) PROVE WalkInv'
    <3>1. reader' = reader /\ table' = table /\ ~Walking
      BY <2>2 DEF FetchPage, Paging, Walking
    <3> QED BY <1>2, <3>1 DEF WalkInv, ReaderTyped, Walking
  <2>3. CASE NumItems
    <3>1. reader' = reader /\ table' = table /\ ~Walking
      BY <2>3 DEF NumItems, Paging, Walking
    <3> QED BY <1>2, <3>1 DEF WalkInv, ReaderTyped, Walking
  <2>4. CASE Write
    <3>1. reader' = reader /\ edge' = edge /\ seen' = seen /\ done' = done
      BY <2>4 DEF Write, progress
    <3>2. table' \in SUBSET Rows
      BY <1>2, <2>4 DEF Write, WalkInv, ReaderTyped
    <3>3. ReaderTyped'
      BY <1>2, <3>1, <3>2 DEF WalkInv, ReaderTyped
    <3>4. CASE Walking
      <4>1. kept' = kept \cap table' /\ ~done
        BY <2>4, <3>4 DEF Write
      <4>2. Wanted' \subseteq Wanted /\ Reached' = Reached /\ ToCome' = ToCome /\ CursorOrder' = CursorOrder
        BY <3>1, <4>1 DEF Wanted, Reached, ToCome, CursorOrder
      <4> QED BY <1>2, <3>1, <3>3, <3>4, <4>1, <4>2 DEF WalkInv
    <3>5. CASE ~Walking
      BY <3>1, <3>3, <3>5 DEF WalkInv, Walking
    <3> QED BY <3>4, <3>5
  <2>5. CASE UNCHANGED vars
    BY <1>2, <2>5 DEF vars, progress, WalkInv, ReaderTyped, Walking, Wanted, Reached, ToCome, CursorOrder
  <2> QED BY <1>2, <2>1, <2>2, <2>3, <2>4, <2>5 DEF Next
<1>3. WalkInv => WalkMissesNothing
  <2> SUFFICES ASSUME WalkInv, Walking
               PROVE  /\ done => kept \cap reader.cursor.select.filter \subseteq ToSet(seen)
                      /\ \A i, j \in DOMAIN seen : i < j => KeyBefore(seen[i], seen[j])
    BY DEF WalkMissesNothing
  <2>1. Ascending(CursorOrder, seen) /\ (done => Wanted \subseteq ToSet(seen))
    BY DEF WalkInv
  <2>2. DOMAIN seen = 1..Len(seen)
    BY <2>1 DEF Ascending
  <2> QED BY <2>1, <2>2 DEF Ascending, Wanted, KeyBefore, CursorOrder, KeyOrder
<1> QED BY <1>1, <1>2, <1>3, PTL DEF Spec

==============================================================================
