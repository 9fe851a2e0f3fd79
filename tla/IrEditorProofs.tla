----------------------------- MODULE IrEditorProofs -----------------------------
(***************************************************************************)
(* Every edit of IrEditor keeps a module typed and the two directions of all *)
(* its relations in agreement, whatever the size of the module and the       *)
(* handles callers pass; refused edits change nothing and erase never panics.*)
(*                                                                         *)
(* Arenas are reasoned about by which handles live in them and what stands   *)
(* behind each.  Agreement is split into who owns what (Owned) and the use   *)
(* lists agreeing with a set of linked uses (UsesAgree), which the steps of  *)
(* an edit grow or shrink one use at a time.  For erase, the pre- and        *)
(* postorder walks are shown to list the ownership tree: a set of operations *)
(* closed under `owned by'.  Ownership has no cycle, so everything can be    *)
(* reached from the root.                                                    *)
(*                                                                         *)
(* In a verified module, dominance is scope, in both directions; edits keep  *)
(* the order of what stays, and with it the enclosing operations and every   *)
(* definition that dominates, so that rewrites keep modules verified.        *)
(***************************************************************************)
EXTENDS IrEditor, FoldProofs

-----------------------------------------------------------------------------
(* Arenas.                                                                   *)

Slots(Data) == [generation : 0..MaxGeneration, value : Data \cup {Nothing}]

LEMMA ArenaShape ==
    ASSUME NEW Data, NEW a \in Arenas(Data)
    PROVE  /\ a = [slots |-> a.slots, free |-> a.free]
           /\ a.slots \in Seq(Slots(Data)) /\ a.free \in Seq(Nat)
           /\ \A s \in DOMAIN a.slots :
                 /\ s \in Nat /\ s # 0 /\ a.slots[s] \in Slots(Data)
                 /\ a.slots[s].generation \in Nat /\ a.slots[s].value \in Data \cup {Nothing}
                 /\ a.slots[s] = [generation |-> a.slots[s].generation, value |-> a.slots[s].value]
           /\ \A i \in DOMAIN a.free : a.free[i] \in DOMAIN a.slots /\ a.slots[a.free[i]].value = Nothing
           /\ \A i, j \in DOMAIN a.free : a.free[i] = a.free[j] => i = j
           /\ \A x : x \in LiveHandles(a) <=>
                 \E s \in DOMAIN a.slots : x = <<s, a.slots[s].generation>> /\ a.slots[s].value # Nothing
<1>1. a \in [slots : Seq(Slots(Data)), free : Seq(Nat)]
  BY DEF Arenas, Slots
<1>2. a.slots \in Seq(Slots(Data)) /\ a.free \in Seq(Nat) /\ a = [slots |-> a.slots, free |-> a.free]
  BY <1>1
<1>3. \A s \in DOMAIN a.slots : s \in Nat /\ s # 0 /\ a.slots[s] \in Slots(Data)
  BY <1>2
<1>4. \A x \in Slots(Data) : /\ x.generation \in Nat /\ x.value \in Data \cup {Nothing}
                             /\ x = [generation |-> x.generation, value |-> x.value]
  BY GenerationAssumption DEF Slots
<1>5. \A x : x \in LiveHandles(a) <=>
         \E s \in DOMAIN a.slots : x = <<s, a.slots[s].generation>> /\ a.slots[s].value # Nothing
  BY DEF LiveHandles, Handle
<1>6. /\ \A i \in DOMAIN a.free : a.free[i] \in DOMAIN a.slots /\ a.slots[a.free[i]].value = Nothing
      /\ \A i, j \in DOMAIN a.free : a.free[i] = a.free[j] => i = j
  BY DEF Arenas
<1> QED BY <1>2, <1>3, <1>4, <1>5, <1>6

LEMMA SlotTyped ==
    ASSUME NEW Data, NEW a \in Arenas(Data), NEW s \in DOMAIN a.slots
    PROVE  s \in Nat /\ s # 0 /\ a.slots[s].generation \in Nat /\ a.slots[s].value \in Data \cup {Nothing}
<1>1. a.slots \in Seq(Slots(Data))
  BY ArenaShape
<1>2. s \in Nat /\ s # 0 /\ a.slots[s] \in Slots(Data)
  BY <1>1
<1>3. \A x \in Slots(Data) : x.generation \in Nat /\ x.value \in Data \cup {Nothing}
  BY GenerationAssumption DEF Slots
<1> QED BY <1>2, <1>3

LEMMA SlotMade ==
    ASSUME NEW Data, NEW g \in 0..MaxGeneration, NEW v \in Data \cup {Nothing}
    PROVE  [generation |-> g, value |-> v] \in Slots(Data)
BY DEF Slots

LEMMA SlotChanged ==
    ASSUME NEW Data, NEW x \in Slots(Data), NEW v \in Data \cup {Nothing}
    PROVE  LET y == [x EXCEPT !.value = v]
           IN  y \in Slots(Data) /\ y.value = v /\ y.generation = x.generation
BY DEF Slots

LEMMA ArenaMade ==
    ASSUME NEW Data, NEW slots \in Seq(Slots(Data)), NEW free \in Seq(Nat),
           \A i \in DOMAIN free : free[i] \in DOMAIN slots /\ slots[free[i]].value = Nothing,
           \A i, j \in DOMAIN free : free[i] = free[j] => i = j
    PROVE  [slots |-> slots, free |-> free] \in Arenas(Data)
BY DEF Arenas, Slots

LEMMA LiveIsResolved ==
    ASSUME NEW Data, Nothing \notin Data, NEW a \in Arenas(Data)
    PROVE  /\ LiveHandles(a) \subseteq Handles
           /\ ModuleOwned \notin LiveHandles(a)
           /\ \A h \in LiveHandles(a) : At(a, h) \in Data
           /\ \A h \in Handles : Resolves(a, h) <=> h \in LiveHandles(a)
<1>1. ASSUME NEW h \in LiveHandles(a) PROVE h \in Handles /\ h # ModuleOwned /\ At(a, h) \in Data /\ Resolves(a, h)
  <2>1. PICK s \in DOMAIN a.slots : h = <<s, a.slots[s].generation>> /\ a.slots[s].value # Nothing
    BY ArenaShape
  <2>2. h[1] = s /\ h[2] = a.slots[s].generation
    BY <2>1
  <2>3. \A t \in DOMAIN a.slots :
           t \in Nat /\ t # 0 /\ a.slots[t].generation \in Nat /\ a.slots[t].value \in Data \cup {Nothing}
    BY SlotTyped
  <2> QED BY <2>1, <2>2, <2>3 DEF Handles, ModuleOwned, At, Resolves
<1>2. ASSUME NEW h \in Handles, Resolves(a, h) PROVE h \in LiveHandles(a)
  <2>1. h = <<h[1], h[2]>>
    BY DEF Handles
  <2>2. h[1] \in DOMAIN a.slots /\ a.slots[h[1]].generation = h[2] /\ a.slots[h[1]].value # Nothing
    BY <1>2 DEF Resolves
  <2> QED BY <2>1, <2>2, ArenaShape
<1> QED BY <1>1, <1>2

LEMMA Inserting ==
    ASSUME NEW Data, Nothing \notin Data, NEW a \in Arenas(Data), NEW v \in Data
    PROVE  LET h == NextHandle(a)
               b == InsertInto(a, v)
           IN  /\ b \in Arenas(Data)
               /\ h \in Handles /\ h \notin LiveHandles(a)
               /\ LiveHandles(b) = LiveHandles(a) \cup {h}
               /\ At(b, h) = v
               /\ \A k \in LiveHandles(a) : At(b, k) = At(a, k)
<1> DEFINE Slot == Slots(Data)
           h == NextHandle(a)
           b == InsertInto(a, v)
<1>1. v # Nothing
  OBVIOUS
<1>5. CASE a.free # <<>>
  <2> DEFINE n == Len(a.free)
             s == a.free[n]
             new == [a.slots[s] EXCEPT !.value = v]
             slots == [a.slots EXCEPT ![s] = new]
             free == SubSeq(a.free, 1, n - 1)
  <2>1. n \in DOMAIN a.free /\ n \in Nat /\ n >= 1 /\ DOMAIN a.free = 1..n
    BY <1>5, ArenaShape
  <2>2. s \in DOMAIN a.slots /\ a.slots[s].value = Nothing /\ a.slots[s].generation \in Nat /\ s \in Nat
    BY <2>1, ArenaShape, ZenonT(60)
  <2>3. h = <<s, a.slots[s].generation>>
    BY <1>5 DEF NextHandle, Handle
  <2>4. b = [slots |-> slots, free |-> free]
    BY <1>5 DEF InsertInto
  <2>5. new \in Slot /\ new.value = v /\ new.generation = a.slots[s].generation
    <3>1. a.slots[s] \in Slot
      BY <2>2, ArenaShape
    <3> HIDE DEF s
    <3> QED BY <3>1, SlotChanged
  <2> HIDE DEF new
  <2>6. /\ slots \in Seq(Slot) /\ DOMAIN slots = DOMAIN a.slots /\ slots[s] = new
        /\ \A t \in DOMAIN a.slots : t # s => slots[t] = a.slots[t]
    BY <2>2, <2>5, ArenaShape, SlotSet
  <2>7. /\ free \in Seq(Nat) /\ DOMAIN free = 1..(n - 1)
        /\ \A i \in 1..(n - 1) : free[i] = a.free[i] /\ i \in DOMAIN a.free /\ i # n
    <3>1. a.free \in Seq(Nat) /\ n - 1 <= Len(a.free)
      BY <2>1, ArenaShape
    <3>2. free \in Seq(Nat) /\ Len(free) = n - 1 /\ \A i \in 1..(n - 1) : free[i] = a.free[i]
      BY <2>1, <3>1
    <3>3. DOMAIN free = 1..(n - 1)
      BY <2>1, <3>2
    <3>4. \A i \in 1..(n - 1) : i \in 1..n /\ i # n
      BY <2>1
    <3> HIDE DEF free
    <3> QED BY <2>1, <3>2, <3>3, <3>4
  <2> HIDE DEF slots, free, s
  <2>8. b \in Arenas(Data)
    <3>1. \A i \in DOMAIN free : free[i] \in DOMAIN slots /\ slots[free[i]].value = Nothing
      <4> SUFFICES ASSUME NEW i \in DOMAIN free PROVE free[i] \in DOMAIN slots /\ slots[free[i]].value = Nothing
        OBVIOUS
      <4>1. free[i] = a.free[i] /\ i \in DOMAIN a.free /\ i # n
        BY <2>7
      <4>2. a.free[i] \in DOMAIN a.slots /\ a.slots[a.free[i]].value = Nothing /\ a.free[i] # s
        BY <2>1, <4>1, ArenaShape DEF s
      <4> QED BY <2>6, <4>1, <4>2
    <3>2. \A i, j \in DOMAIN free : free[i] = free[j] => i = j
      <4>1. \A i, j \in DOMAIN a.free : a.free[i] = a.free[j] => i = j
        BY ArenaShape
      <4> QED BY <2>7, <4>1
    <3>3. slots \in Seq(Slots(Data)) /\ free \in Seq(Nat)
      BY <2>6, <2>7
    <3> QED BY <2>4, <3>1, <3>2, <3>3, ArenaMade
  <2>9. h \in Handles /\ h \notin LiveHandles(a)
    <3>1. \A t \in DOMAIN a.slots : h = <<t, a.slots[t].generation>> => t = s
      BY <2>3
    <3> HIDE DEF h
    <3>2. h \notin LiveHandles(a)
      BY <2>2, <3>1, ArenaShape
    <3> QED BY <2>2, <2>3, <3>2 DEF Handles
  <2>10. LiveHandles(b) = LiveHandles(a) \cup {h}
    <3>0. b.slots = slots
      BY <2>4
    <3> HIDE DEF b, h
    <3>1. ASSUME NEW x \in LiveHandles(b) PROVE x \in LiveHandles(a) \cup {h}
      <4>1. PICK t \in DOMAIN slots : x = <<t, slots[t].generation>> /\ slots[t].value # Nothing
        BY <2>8, <3>0, ArenaShape
      <4> QED BY <2>3, <2>5, <2>6, <4>1, ArenaShape
    <3>2. ASSUME NEW x \in LiveHandles(a) PROVE x \in LiveHandles(b)
      <4>1. PICK t \in DOMAIN a.slots : x = <<t, a.slots[t].generation>> /\ a.slots[t].value # Nothing
        BY ArenaShape
      <4>2. t # s /\ slots[t] = a.slots[t] /\ t \in DOMAIN slots
        BY <2>2, <2>6, <4>1
      <4> QED BY <2>8, <3>0, <4>1, <4>2, ArenaShape
    <3>3. h \in LiveHandles(b)
      <4>1. h = <<s, slots[s].generation>> /\ slots[s].value # Nothing /\ s \in DOMAIN slots
        BY <1>1, <2>2, <2>3, <2>5, <2>6
      <4> QED BY <2>8, <3>0, <4>1, ArenaShape
    <3> QED BY <3>1, <3>2, <3>3
  <2>11. At(b, h) = v
    BY <2>3, <2>4, <2>5, <2>6 DEF At
  <2>12. ASSUME NEW k \in LiveHandles(a) PROVE At(b, k) = At(a, k)
    <3>1. PICK t \in DOMAIN a.slots : k = <<t, a.slots[t].generation>> /\ a.slots[t].value # Nothing
      BY ArenaShape
    <3>2. t # s /\ k[1] = t
      BY <2>2, <3>1
    <3> QED BY <2>4, <2>6, <3>2 DEF At
  <2> HIDE DEF b, h
  <2> QED BY <2>8, <2>9, <2>10, <2>11, <2>12 DEF b, h
<1>6. CASE a.free = <<>>
  <2> DEFINE n == Len(a.slots)
             new == [generation |-> 0, value |-> v]
             slots == Append(a.slots, new)
  <2>1. n \in Nat /\ DOMAIN a.slots = 1..n /\ new \in Slot /\ new.value = v /\ new.generation = 0
    <3>1. 0 \in 0..MaxGeneration
      BY GenerationAssumption
    <3>2. new \in Slot
      BY <3>1, SlotMade
    <3>3. a.slots \in Seq(Slots(Data))
      BY ArenaShape
    <3> QED BY <3>2, <3>3
  <2>2. h = <<n + 1, 0>>
    BY <1>6 DEF NextHandle, Handle
  <2>3. b = [slots |-> slots, free |-> a.free]
    BY <1>6 DEF InsertInto
  <2> HIDE DEF new
  <2>4. /\ slots \in Seq(Slot) /\ DOMAIN slots = 1..(n + 1) /\ slots[n + 1] = new
        /\ \A t \in 1..n : slots[t] = a.slots[t]
    BY <2>1, ArenaShape
  <2> HIDE DEF slots
  <2>5. b \in Arenas(Data)
    <3>1. DOMAIN a.free = {} /\ a.free \in Seq(Nat)
      BY <1>6
    <3> QED BY <2>3, <2>4, <3>1, ArenaMade
  <2>6. h \in Handles /\ h \notin LiveHandles(a)
    <3>1. \A t \in 1..n : h # <<t, a.slots[t].generation>>
      BY <2>1, <2>2
    <3> HIDE DEF h
    <3>2. h \notin LiveHandles(a)
      BY <2>1, <3>1, ArenaShape
    <3> QED BY <2>1, <2>2, <3>2 DEF Handles
  <2>7. LiveHandles(b) = LiveHandles(a) \cup {h}
    <3>0. b.slots = slots
      BY <2>3
    <3> HIDE DEF b, h
    <3>1. ASSUME NEW x \in LiveHandles(b) PROVE x \in LiveHandles(a) \cup {h}
      <4>1. PICK t \in DOMAIN slots : x = <<t, slots[t].generation>> /\ slots[t].value # Nothing
        BY <2>5, <3>0, ArenaShape
      <4>2. t = n + 1 \/ t \in 1..n
        BY <2>1, <2>4
      <4> QED BY <2>1, <2>2, <2>4, <4>1, <4>2, ArenaShape
    <3>2. ASSUME NEW x \in LiveHandles(a) PROVE x \in LiveHandles(b)
      <4>1. PICK t \in DOMAIN a.slots : x = <<t, a.slots[t].generation>> /\ a.slots[t].value # Nothing
        BY ArenaShape
      <4>2. t \in DOMAIN slots /\ slots[t] = a.slots[t]
        BY <2>1, <2>4
      <4> QED BY <2>5, <3>0, <4>1, <4>2, ArenaShape
    <3>3. h \in LiveHandles(b)
      <4>1. h = <<n + 1, slots[n + 1].generation>> /\ slots[n + 1].value # Nothing /\ n + 1 \in DOMAIN slots
        BY <1>1, <2>1, <2>2, <2>4
      <4> QED BY <2>5, <3>0, <4>1, ArenaShape
    <3> QED BY <3>1, <3>2, <3>3
  <2>9. At(b, h) = v
    BY <2>1, <2>2, <2>3, <2>4 DEF At
  <2>10. ASSUME NEW k \in LiveHandles(a) PROVE At(b, k) = At(a, k)
    <3>1. PICK t \in DOMAIN a.slots : k = <<t, a.slots[t].generation>> /\ a.slots[t].value # Nothing
      BY ArenaShape
    <3>2. slots[t] = a.slots[t] /\ k[1] = t
      BY <2>1, <2>4, <3>1
    <3> QED BY <2>3, <3>2 DEF At
  <2> HIDE DEF b, h
  <2> QED BY <2>5, <2>6, <2>7, <2>9, <2>10 DEF b, h
<1> QED BY <1>5, <1>6

LEMMA Storing ==
    ASSUME NEW Data, Nothing \notin Data, NEW a \in Arenas(Data), NEW h \in LiveHandles(a), NEW v \in Data
    PROVE  LET b == Store(a, h, v)
           IN  /\ b \in Arenas(Data)
               /\ LiveHandles(b) = LiveHandles(a)
               /\ At(b, h) = v
               /\ \A k \in LiveHandles(a) : k # h => At(b, k) = At(a, k)
<1> DEFINE b == Store(a, h, v)
<1>4. PICK s \in DOMAIN a.slots : h = <<s, a.slots[s].generation>> /\ a.slots[s].value # Nothing
  BY ArenaShape
<1> DEFINE new == [a.slots[s] EXCEPT !.value = v]
           slots == [a.slots EXCEPT ![s] = new]
<1>5. h[1] = s /\ new \in Slots(Data) /\ new.value = v /\ new.generation = a.slots[s].generation
  <2>1. a.slots[s] \in Slots(Data)
    BY ArenaShape
  <2> QED BY <1>4, <2>1, SlotChanged
<1>6. b = [slots |-> slots, free |-> a.free]
  <2>1. a = [slots |-> a.slots, free |-> a.free]
    BY ArenaShape
  <2> QED BY <1>5, <2>1 DEF Store
<1> HIDE DEF new
<1>7. /\ slots \in Seq(Slots(Data)) /\ DOMAIN slots = DOMAIN a.slots /\ slots[s] = new
      /\ \A t \in DOMAIN a.slots : t # s => slots[t] = a.slots[t]
  BY <1>5, ArenaShape, SlotSet
<1> HIDE DEF slots
<1>9. b \in Arenas(Data)
  <2>1. \A i \in DOMAIN a.free : a.free[i] \in DOMAIN slots /\ slots[a.free[i]].value = Nothing
    <3>1. \A i \in DOMAIN a.free : a.free[i] \in DOMAIN a.slots /\ a.slots[a.free[i]].value = Nothing
      BY ArenaShape
    <3> QED BY <1>4, <1>7, <3>1
  <2>2. a.free \in Seq(Nat) /\ \A i, j \in DOMAIN a.free : a.free[i] = a.free[j] => i = j
    BY ArenaShape
  <2> QED BY <1>6, <1>7, <2>1, <2>2, ArenaMade, SMTT(40)
<1>10. LiveHandles(b) = LiveHandles(a)
  <2>0. b.slots = slots
    BY <1>6
  <2> HIDE DEF b
  <2>1. \A t \in DOMAIN slots : slots[t].generation = a.slots[t].generation /\ (slots[t].value = Nothing <=> a.slots[t].value = Nothing)
    BY <1>4, <1>5, <1>7
  <2>2. ASSUME NEW x PROVE x \in LiveHandles(b) <=>
           \E t \in DOMAIN slots : x = <<t, slots[t].generation>> /\ slots[t].value # Nothing
    BY <1>9, <2>0, ArenaShape
  <2>3. ASSUME NEW x PROVE x \in LiveHandles(a) <=>
           \E t \in DOMAIN a.slots : x = <<t, a.slots[t].generation>> /\ a.slots[t].value # Nothing
    BY ArenaShape
  <2>4. \A x \in LiveHandles(b) : x \in LiveHandles(a)
    BY <1>7, <2>1, <2>2, <2>3
  <2>5. \A x \in LiveHandles(a) : x \in LiveHandles(b)
    BY <1>7, <2>1, <2>2, <2>3
  <2> QED BY <2>4, <2>5
<1>11. At(b, h) = v
  BY <1>5, <1>6, <1>7 DEF At
<1>12. ASSUME NEW k \in LiveHandles(a), k # h PROVE At(b, k) = At(a, k)
  <2>1. PICK t \in DOMAIN a.slots : k = <<t, a.slots[t].generation>> /\ a.slots[t].value # Nothing
    BY ArenaShape
  <2>2. t # s /\ k[1] = t
    BY <1>4, <1>12, <2>1
  <2> QED BY <1>6, <1>7, <2>2 DEF At
<1> HIDE DEF b
<1> QED BY <1>9, <1>10, <1>11, <1>12 DEF b

LEMMA Removing ==
    ASSUME NEW Data, Nothing \notin Data, NEW a \in Arenas(Data), NEW h \in Handles
    PROVE  LET b == RemoveFrom(a, h)
           IN  /\ b \in Arenas(Data)
               /\ LiveHandles(b) = LiveHandles(a) \ {h}
               /\ \A k \in LiveHandles(b) : At(b, k) = At(a, k)
<1> DEFINE b == RemoveFrom(a, h)
<1>4. CASE h \notin LiveHandles(a)
  <2>1. b = a
    BY <1>4, LiveIsResolved DEF RemoveFrom
  <2> QED BY <1>4, <2>1
<1>5. CASE h \in LiveHandles(a)
  <2>1. PICK s \in DOMAIN a.slots : h = <<s, a.slots[s].generation>> /\ a.slots[s].value # Nothing
    BY <1>5, ArenaShape
  <2> DEFINE n == Len(a.free)
  <2>2. h[1] = s /\ h[2] = a.slots[s].generation /\ Resolves(a, h) /\ s \in Nat
    BY <2>1, ArenaShape DEF Resolves
  <2>3. n \in Nat /\ DOMAIN a.free = 1..n /\ a.free \in Seq(Nat)
    BY ArenaShape
  <2>4. /\ b = [slots |-> b.slots, free |-> b.free]
        /\ b.slots \in Seq(Slots(Data)) /\ b.free \in {a.free, Append(a.free, s)}
        /\ DOMAIN b.slots = DOMAIN a.slots /\ b.slots[s].value = Nothing
        /\ \A t \in DOMAIN a.slots : t # s => b.slots[t] = a.slots[t]
    <3>1. CASE h[2] < MaxGeneration
      <4> DEFINE new == [generation |-> h[2] + 1, value |-> Nothing]
                 slots == [a.slots EXCEPT ![s] = new]
      <4>1. h[2] \in Nat /\ MaxGeneration \in Nat
        BY <2>1, <2>2, ArenaShape, GenerationAssumption
      <4>2. new \in Slots(Data) /\ new.value = Nothing
        BY <3>1, <4>1 DEF Slots
      <4>3. b = [slots |-> slots, free |-> Append(a.free, s)]
        BY <2>2, <3>1 DEF RemoveFrom
      <4> HIDE DEF new
      <4>4. /\ slots \in Seq(Slots(Data)) /\ DOMAIN slots = DOMAIN a.slots /\ slots[s] = new
            /\ \A t \in DOMAIN a.slots : t # s => slots[t] = a.slots[t]
        BY <4>2, ArenaShape, SlotSet
      <4> HIDE DEF slots
      <4> QED BY <4>2, <4>3, <4>4
    <3>2. CASE ~(h[2] < MaxGeneration)
      <4> DEFINE new == [a.slots[s] EXCEPT !.value = Nothing]
                 slots == [a.slots EXCEPT ![s] = new]
      <4>1. a = [slots |-> a.slots, free |-> a.free]
        BY ArenaShape
      <4>2. new \in Slots(Data) /\ new.value = Nothing
        <5>1. a.slots[s] \in Slots(Data)
          BY ArenaShape
        <5> QED BY <5>1, SlotChanged
      <4>3. b = [slots |-> slots, free |-> a.free]
        BY <2>2, <3>2, <4>1 DEF RemoveFrom
      <4> HIDE DEF new
      <4>4. /\ slots \in Seq(Slots(Data)) /\ DOMAIN slots = DOMAIN a.slots /\ slots[s] = new
            /\ \A t \in DOMAIN a.slots : t # s => slots[t] = a.slots[t]
        BY <4>2, ArenaShape, SlotSet
      <4> HIDE DEF slots
      <4> QED BY <4>2, <4>3, <4>4
    <3> QED BY <3>1, <3>2
  <2> HIDE DEF b
  <2>5. b \in Arenas(Data)
    <3>1. \A i \in DOMAIN a.free : a.free[i] # s /\ a.free[i] \in DOMAIN b.slots /\ b.slots[a.free[i]].value = Nothing
      BY <2>1, <2>4, ArenaShape
    <3>2. \A i, j \in DOMAIN a.free : a.free[i] = a.free[j] => i = j
      BY ArenaShape
    <3>3. /\ b.free \in Seq(Nat)
          /\ \A i \in DOMAIN b.free : b.free[i] \in DOMAIN b.slots /\ b.slots[b.free[i]].value = Nothing
          /\ \A i, j \in DOMAIN b.free : b.free[i] = b.free[j] => i = j
      <4>1. CASE b.free = a.free
        BY <2>3, <3>1, <3>2, <4>1
      <4>2. CASE b.free = Append(a.free, s)
        <5>1. /\ b.free \in Seq(Nat) /\ DOMAIN b.free = 1..(n + 1) /\ b.free[n + 1] = s
              /\ \A i \in 1..n : b.free[i] = a.free[i]
          BY <2>2, <2>3, <4>2
        <5>2. \A i \in 1..(n + 1) : i = n + 1 \/ i \in 1..n
          BY <2>3
        <5>3. \A i \in DOMAIN b.free : b.free[i] \in DOMAIN b.slots /\ b.slots[b.free[i]].value = Nothing
          <6> SUFFICES ASSUME NEW i \in 1..(n + 1) PROVE b.free[i] \in DOMAIN b.slots /\ b.slots[b.free[i]].value = Nothing
            BY <5>1
          <6>1. CASE i = n + 1
            BY <2>4, <5>1, <6>1
          <6>2. CASE i \in 1..n
            BY <2>3, <3>1, <5>1, <6>2
          <6> QED BY <5>2, <6>1, <6>2
        <5>4. \A i, j \in DOMAIN b.free : b.free[i] = b.free[j] => i = j
          BY <2>3, <3>1, <3>2, <5>1, <5>2
        <5> QED BY <5>1, <5>3, <5>4
      <4> QED BY <2>4, <4>1, <4>2
    <3> QED BY <2>4, <3>3, ArenaMade
  <2>6. LiveHandles(b) = LiveHandles(a) \ {h}
    <3>1. \A t \in DOMAIN a.slots : h = <<t, a.slots[t].generation>> => t = s
      BY <2>1
    <3>2. ASSUME NEW x \in LiveHandles(b) PROVE x \in LiveHandles(a) /\ x # h
      <4>1. PICK t \in DOMAIN b.slots : x = <<t, b.slots[t].generation>> /\ b.slots[t].value # Nothing
        BY <2>5, ArenaShape
      <4>2. t # s /\ b.slots[t] = a.slots[t] /\ t \in DOMAIN a.slots
        BY <2>4, <4>1
      <4> QED BY <2>1, <4>1, <4>2, ArenaShape
    <3>3. ASSUME NEW x \in LiveHandles(a), x # h PROVE x \in LiveHandles(b)
      <4>1. PICK t \in DOMAIN a.slots : x = <<t, a.slots[t].generation>> /\ a.slots[t].value # Nothing
        BY ArenaShape
      <4>2. t # s /\ b.slots[t] = a.slots[t] /\ t \in DOMAIN b.slots
        BY <2>1, <2>4, <3>3, <4>1
      <4> QED BY <2>5, <4>1, <4>2, ArenaShape
    <3> QED BY <3>2, <3>3
  <2>7. ASSUME NEW k \in LiveHandles(b) PROVE At(b, k) = At(a, k)
    <3>1. PICK t \in DOMAIN b.slots : k = <<t, b.slots[t].generation>> /\ b.slots[t].value # Nothing
      BY <2>5, ArenaShape
    <3>2. t # s /\ k[1] = t /\ b.slots[t] = a.slots[t]
      BY <2>4, <3>1
    <3> QED BY <3>2 DEF At
  <2> QED BY <2>5, <2>6, <2>7 DEF b
<1> QED BY <1>4, <1>5

-----------------------------------------------------------------------------
(* Modules: what lives in the four arenas.                                   *)

Changed(m, n, field) == \A f \in {"regions", "blocks", "operations", "values", "attached"} \ {field} : n[f] = m[f]

\* Behind handle h of an arena stands x now, and all else is as it was.
Puts(a, b, h, x) ==
    /\ LiveHandles(b) = LiveHandles(a) \cup {h}
    /\ At(b, h) = x
    /\ \A k \in LiveHandles(a) : k # h => At(b, k) = At(a, k)

LEMMA DataIsSomething ==
    Nothing \notin RegionData /\ Nothing \notin BlockData /\ Nothing \notin OperationData /\ Nothing \notin ValueData(Types)
BY NothingAssumption

LEMMA ModuleParts ==
    ASSUME NEW m \in Modules(Types)
    PROVE  /\ m = [regions |-> m.regions, blocks |-> m.blocks, operations |-> m.operations,
                   values |-> m.values, attached |-> m.attached]
           /\ m.regions \in Arenas(RegionData) /\ m.blocks \in Arenas(BlockData)
           /\ m.operations \in Arenas(OperationData) /\ m.values \in Arenas(ValueData(Types))
           /\ m.attached \in SUBSET Handles
BY DEF Modules

LEMMA ModuleHandles ==
    ASSUME NEW m \in Modules(Types)
    PROVE  /\ Regions(m) \subseteq Handles /\ Blocks(m) \subseteq Handles
           /\ Operations(m) \subseteq Handles /\ Values(m) \subseteq Handles
           /\ ModuleOwned \notin Operations(m)
           /\ \A h \in Handles : /\ Resolves(m.regions, h) <=> h \in Regions(m)
                                 /\ Resolves(m.blocks, h) <=> h \in Blocks(m)
                                 /\ Resolves(m.operations, h) <=> h \in Operations(m)
                                 /\ Resolves(m.values, h) <=> h \in Values(m)
<1>1. m.regions \in Arenas(RegionData) /\ m.blocks \in Arenas(BlockData)
      /\ m.operations \in Arenas(OperationData) /\ m.values \in Arenas(ValueData(Types))
  BY ModuleParts
<1>2. Regions(m) \subseteq Handles /\ \A h \in Handles : Resolves(m.regions, h) <=> h \in Regions(m)
  BY <1>1, DataIsSomething, LiveIsResolved DEF Regions
<1>3. Blocks(m) \subseteq Handles /\ \A h \in Handles : Resolves(m.blocks, h) <=> h \in Blocks(m)
  BY <1>1, DataIsSomething, LiveIsResolved DEF Blocks
<1>4. /\ Operations(m) \subseteq Handles /\ ModuleOwned \notin Operations(m)
      /\ \A h \in Handles : Resolves(m.operations, h) <=> h \in Operations(m)
  BY <1>1, DataIsSomething, LiveIsResolved DEF Operations
<1>5. Values(m) \subseteq Handles /\ \A h \in Handles : Resolves(m.values, h) <=> h \in Values(m)
  BY <1>1, DataIsSomething, LiveIsResolved DEF Values
<1> QED BY <1>2, <1>3, <1>4, <1>5

LEMMA RegionFields ==
    ASSUME NEW m \in Modules(Types), NEW r \in Regions(m)
    PROVE  /\ Region(m, r) \in RegionData
           /\ Region(m, r).parent \in Handles /\ Region(m, r).blocks \in Seq(Handles)
<1>1. m.regions \in Arenas(RegionData)
  BY ModuleParts
<1>2. Region(m, r) \in RegionData
  BY <1>1, DataIsSomething, LiveIsResolved DEF Regions, Region
<1> QED BY <1>2 DEF RegionData

LEMMA BlockFields ==
    ASSUME NEW m \in Modules(Types), NEW b \in Blocks(m)
    PROVE  /\ Block(m, b) \in BlockData
           /\ Block(m, b).parent \in Handles
           /\ Block(m, b).arguments \in Seq(Handles) /\ Block(m, b).operations \in Seq(Handles)
<1>1. m.blocks \in Arenas(BlockData)
  BY ModuleParts
<1>2. Block(m, b) \in BlockData
  BY <1>1, DataIsSomething, LiveIsResolved DEF Blocks, Block
<1> QED BY <1>2 DEF BlockData

LEMMA OperationFields ==
    ASSUME NEW m \in Modules(Types), NEW o \in Operations(m)
    PROVE  /\ Operation(m, o) \in OperationData
           /\ Operation(m, o).parent \in Handles /\ Operation(m, o).terminator \in BOOLEAN
           /\ Operation(m, o).operands \in Seq(Handles) /\ Operation(m, o).links \in Seq(Nat)
           /\ Operation(m, o).results \in Seq(Handles) /\ Operation(m, o).regions \in Seq(Handles)
           /\ Operation(m, o).successors \in SUBSET Handles
<1>1. m.operations \in Arenas(OperationData)
  BY ModuleParts
<1>2. Operation(m, o) \in OperationData
  BY <1>1, DataIsSomething, LiveIsResolved DEF Operations, Operation
<1> QED BY <1>2 DEF OperationData

UseEntries == [user : Handles, index : Nat]
Definitions == [kind : {"argument", "result"}, owner : Handles, index : Nat]

LEMMA ValueFields ==
    ASSUME NEW m \in Modules(Types), NEW v \in Values(m)
    PROVE  /\ Value(m, v) \in ValueData(Types)
           /\ Value(m, v).ty \in Types /\ Value(m, v).definition \in Definitions
           /\ Value(m, v).uses \in Seq(UseEntries)
<1>1. m.values \in Arenas(ValueData(Types))
  BY ModuleParts
<1>2. Value(m, v) \in ValueData(Types)
  BY <1>1, DataIsSomething, LiveIsResolved DEF Values, Value
<1> QED BY <1>2 DEF ValueData, UseEntries, Definitions

\* What stands behind one handle is replaced.
LEMMA RegionStored ==
    ASSUME NEW m \in Modules(Types), NEW r \in Regions(m), NEW x \in RegionData
    PROVE  LET n == WithRegion(m, r, x)
           IN  n \in Modules(Types) /\ Changed(m, n, "regions") /\ Puts(m.regions, n.regions, r, x)
<1> DEFINE n == WithRegion(m, r, x)
<1>1. /\ Store(m.regions, r, x) \in Arenas(RegionData)
      /\ Puts(m.regions, Store(m.regions, r, x), r, x)
  BY ModuleParts, DataIsSomething, Storing DEF Regions, Puts
<1>2. n = [m EXCEPT !.regions = Store(m.regions, r, x)]
  BY DEF WithRegion
<1> HIDE DEF n
<1>3. n.regions = Store(m.regions, r, x) /\ n \in Modules(Types) /\ Changed(m, n, "regions")
  BY <1>1, <1>2, ModuleParts DEF Modules, Changed
<1> QED BY <1>1, <1>3 DEF n

LEMMA BlockStored ==
    ASSUME NEW m \in Modules(Types), NEW b \in Blocks(m), NEW x \in BlockData
    PROVE  LET n == WithBlock(m, b, x)
           IN  n \in Modules(Types) /\ Changed(m, n, "blocks") /\ Puts(m.blocks, n.blocks, b, x)
<1> DEFINE n == WithBlock(m, b, x)
<1>1. /\ Store(m.blocks, b, x) \in Arenas(BlockData)
      /\ Puts(m.blocks, Store(m.blocks, b, x), b, x)
  BY ModuleParts, DataIsSomething, Storing DEF Blocks, Puts
<1>2. n = [m EXCEPT !.blocks = Store(m.blocks, b, x)]
  BY DEF WithBlock
<1> HIDE DEF n
<1>3. n.blocks = Store(m.blocks, b, x) /\ n \in Modules(Types) /\ Changed(m, n, "blocks")
  BY <1>1, <1>2, ModuleParts DEF Modules, Changed
<1> QED BY <1>1, <1>3 DEF n

LEMMA OperationStored ==
    ASSUME NEW m \in Modules(Types), NEW o \in Operations(m), NEW x \in OperationData
    PROVE  LET n == WithOperation(m, o, x)
           IN  n \in Modules(Types) /\ Changed(m, n, "operations") /\ Puts(m.operations, n.operations, o, x)
<1> DEFINE n == WithOperation(m, o, x)
<1>1. /\ Store(m.operations, o, x) \in Arenas(OperationData)
      /\ Puts(m.operations, Store(m.operations, o, x), o, x)
  BY ModuleParts, DataIsSomething, Storing DEF Operations, Puts
<1>2. n = [m EXCEPT !.operations = Store(m.operations, o, x)]
  BY DEF WithOperation
<1> HIDE DEF n
<1>3. n.operations = Store(m.operations, o, x) /\ n \in Modules(Types) /\ Changed(m, n, "operations")
  BY <1>1, <1>2, ModuleParts DEF Modules, Changed
<1> QED BY <1>1, <1>3 DEF n

LEMMA ValueStored ==
    ASSUME NEW m \in Modules(Types), NEW v \in Values(m), NEW x \in ValueData(Types)
    PROVE  LET n == WithValue(m, v, x)
           IN  n \in Modules(Types) /\ Changed(m, n, "values") /\ Puts(m.values, n.values, v, x)
<1> DEFINE n == WithValue(m, v, x)
<1>1. /\ Store(m.values, v, x) \in Arenas(ValueData(Types))
      /\ Puts(m.values, Store(m.values, v, x), v, x)
  BY ModuleParts, DataIsSomething, Storing DEF Values, Puts
<1>2. n = [m EXCEPT !.values = Store(m.values, v, x)]
  BY DEF WithValue
<1> HIDE DEF n
<1>3. n.values = Store(m.values, v, x) /\ n \in Modules(Types) /\ Changed(m, n, "values")
  BY <1>1, <1>2, ModuleParts DEF Modules, Changed
<1> QED BY <1>1, <1>3 DEF n

\* A new entity: its handle is one that nobody has.
LEMMA RegionInserted ==
    ASSUME NEW m \in Modules(Types), NEW x \in RegionData
    PROVE  LET n == [m EXCEPT !.regions = InsertInto(@, x)]
               r == NextHandle(m.regions)
           IN  /\ n \in Modules(Types) /\ Changed(m, n, "regions") /\ Puts(m.regions, n.regions, r, x)
               /\ r \in Handles /\ r \notin Regions(m)
<1> DEFINE n == [m EXCEPT !.regions = InsertInto(@, x)]
           r == NextHandle(m.regions)
<1>1. /\ InsertInto(m.regions, x) \in Arenas(RegionData) /\ r \in Handles /\ r \notin Regions(m)
      /\ Puts(m.regions, InsertInto(m.regions, x), r, x)
  BY ModuleParts, DataIsSomething, Inserting DEF Regions, Puts
<1>3. n.regions = InsertInto(m.regions, x) /\ n \in Modules(Types) /\ Changed(m, n, "regions")
  BY <1>1, ModuleParts DEF Modules, Changed
<1> QED BY <1>1, <1>3

LEMMA BlockInserted ==
    ASSUME NEW m \in Modules(Types), NEW x \in BlockData
    PROVE  LET n == [m EXCEPT !.blocks = InsertInto(@, x)]
               b == NextHandle(m.blocks)
           IN  /\ n \in Modules(Types) /\ Changed(m, n, "blocks") /\ Puts(m.blocks, n.blocks, b, x)
               /\ b \in Handles /\ b \notin Blocks(m)
<1> DEFINE n == [m EXCEPT !.blocks = InsertInto(@, x)]
           b == NextHandle(m.blocks)
<1>1. /\ InsertInto(m.blocks, x) \in Arenas(BlockData) /\ b \in Handles /\ b \notin Blocks(m)
      /\ Puts(m.blocks, InsertInto(m.blocks, x), b, x)
  BY ModuleParts, DataIsSomething, Inserting DEF Blocks, Puts
<1>3. n.blocks = InsertInto(m.blocks, x) /\ n \in Modules(Types) /\ Changed(m, n, "blocks")
  BY <1>1, ModuleParts DEF Modules, Changed
<1> QED BY <1>1, <1>3

LEMMA OperationInserted ==
    ASSUME NEW m \in Modules(Types), NEW x \in OperationData
    PROVE  LET n == [m EXCEPT !.operations = InsertInto(@, x)]
               o == NextHandle(m.operations)
           IN  /\ n \in Modules(Types) /\ Changed(m, n, "operations") /\ Puts(m.operations, n.operations, o, x)
               /\ o \in Handles /\ o \notin Operations(m)
<1> DEFINE n == [m EXCEPT !.operations = InsertInto(@, x)]
           o == NextHandle(m.operations)
<1>1. /\ InsertInto(m.operations, x) \in Arenas(OperationData) /\ o \in Handles /\ o \notin Operations(m)
      /\ Puts(m.operations, InsertInto(m.operations, x), o, x)
  BY ModuleParts, DataIsSomething, Inserting DEF Operations, Puts
<1>3. n.operations = InsertInto(m.operations, x) /\ n \in Modules(Types) /\ Changed(m, n, "operations")
  BY <1>1, ModuleParts DEF Modules, Changed
<1> QED BY <1>1, <1>3

LEMMA ValueInserted ==
    ASSUME NEW m \in Modules(Types), NEW x \in ValueData(Types)
    PROVE  LET n == [m EXCEPT !.values = InsertInto(@, x)]
               v == NextHandle(m.values)
           IN  /\ n \in Modules(Types) /\ Changed(m, n, "values") /\ Puts(m.values, n.values, v, x)
               /\ v \in Handles /\ v \notin Values(m)
<1> DEFINE n == [m EXCEPT !.values = InsertInto(@, x)]
           v == NextHandle(m.values)
<1>1. /\ InsertInto(m.values, x) \in Arenas(ValueData(Types)) /\ v \in Handles /\ v \notin Values(m)
      /\ Puts(m.values, InsertInto(m.values, x), v, x)
  BY ModuleParts, DataIsSomething, Inserting DEF Values, Puts
<1>3. n.values = InsertInto(m.values, x) /\ n \in Modules(Types) /\ Changed(m, n, "values")
  BY <1>1, ModuleParts DEF Modules, Changed
<1> QED BY <1>1, <1>3

-----------------------------------------------------------------------------
(* Operands and use lists.  While an edit is under way only some of the      *)
(* operands are linked: the agreement is stated for a set of linked ones.    *)

OperandAt(m, u) == Operation(m, u.user).operands[u.index]
LinkAt(m, u) == Operation(m, u.user).links[u.index]
UsesOf(m, v) == Value(m, v).uses

HasOperand(m, u) ==
    /\ u \in UseEntries /\ u.user \in Operations(m)
    /\ u.index \in DOMAIN Operation(m, u.user).operands
    /\ u.index \in DOMAIN Operation(m, u.user).links

UsesAgree(m, linked) ==
    /\ \A u \in linked :
          /\ HasOperand(m, u) /\ OperandAt(m, u) \in Values(m)
          /\ LinkAt(m, u) \in DOMAIN UsesOf(m, OperandAt(m, u))
          /\ UsesOf(m, OperandAt(m, u))[LinkAt(m, u)] = u
    /\ \A v \in Values(m) : \A k \in DOMAIN UsesOf(m, v) :
          /\ UsesOf(m, v)[k] \in linked
          /\ OperandAt(m, UsesOf(m, v)[k]) = v
          /\ LinkAt(m, UsesOf(m, v)[k]) = k

AllUses(m) == {u \in UseEntries : HasOperand(m, u)}

\* Everything but which values are used is the same.
SameShape(m, n) ==
    /\ n.regions = m.regions /\ n.blocks = m.blocks /\ n.attached = m.attached
    /\ Operations(n) = Operations(m) /\ Values(n) = Values(m)
    /\ \A o \in Operations(m) :
          /\ Operation(n, o).parent = Operation(m, o).parent
          /\ Operation(n, o).terminator = Operation(m, o).terminator
          /\ Operation(n, o).results = Operation(m, o).results
          /\ Operation(n, o).regions = Operation(m, o).regions
          /\ Operation(n, o).successors = Operation(m, o).successors
          /\ Len(Operation(n, o).operands) = Len(Operation(m, o).operands)
          /\ Len(Operation(n, o).links) = Len(Operation(m, o).links)
    /\ \A v \in Values(m) :
          /\ Value(n, v).ty = Value(m, v).ty
          /\ Value(n, v).definition = Value(m, v).definition

\* Nothing that was there moves, and what comes is put where something was.
Enlarges(m, n) ==
    /\ n.attached = m.attached /\ Operations(m) \subseteq Operations(n)
    /\ \A o \in Operations(m) : Operation(n, o).parent = Operation(m, o).parent
    /\ \A b \in Blocks(m) : Block(n, b).parent = Block(m, b).parent
    /\ \A r \in Regions(m) : Region(n, r).parent = Region(m, r).parent
    /\ \A o \in Operations(n) \ Operations(m) : Operation(n, o).parent \in Blocks(m)
    /\ ListsRegionsOnce(m) => ListsRegionsOnce(n)

LEMMA ShapeEnlarges ==
    ASSUME NEW m, NEW n, SameShape(m, n)
    PROVE  Enlarges(m, n)
<1>1. n.regions = m.regions /\ n.blocks = m.blocks /\ n.attached = m.attached
  BY DEF SameShape
<1>2. /\ \A b \in Blocks(m) : Block(n, b).parent = Block(m, b).parent
      /\ \A r \in Regions(m) : Region(n, r).parent = Region(m, r).parent
  BY <1>1 DEF Block, Region
<1>3. Operations(n) = Operations(m) /\ \A o \in Operations(m) : Operation(n, o).parent = Operation(m, o).parent
  BY DEF SameShape
<1>4. ListsRegionsOnce(m) => ListsRegionsOnce(n)
  BY DEF SameShape, ListsRegionsOnce
<1> QED BY <1>1, <1>2, <1>3, <1>4 DEF Enlarges

LEMMA SameIsLarge == \A m : Enlarges(m, m)
BY DEF Enlarges

LEMMA ShapesChain ==
    ASSUME NEW m, NEW n, NEW p, SameShape(m, n), SameShape(n, p)
    PROVE  SameShape(m, p)
BY DEF SameShape

LEMMA UseEntry ==
    /\ \A u \in UseEntries : u = Use(u.user, u.index) /\ u.user \in Handles /\ u.index \in Nat
    /\ \A o \in Handles, i \in Nat : Use(o, i) \in UseEntries /\ Use(o, i).user = o /\ Use(o, i).index = i
BY DEF UseEntries, Use

LEMMA SameOperands ==
    ASSUME NEW m \in Modules(Types), NEW n \in Modules(Types), SameShape(m, n)
    PROVE  \A u : HasOperand(n, u) <=> HasOperand(m, u)
<1>1. \A o \in Operations(m) :
         /\ DOMAIN Operation(n, o).operands = DOMAIN Operation(m, o).operands
         /\ DOMAIN Operation(n, o).links = DOMAIN Operation(m, o).links
  <2> SUFFICES ASSUME NEW o \in Operations(m)
               PROVE  /\ DOMAIN Operation(n, o).operands = DOMAIN Operation(m, o).operands
                      /\ DOMAIN Operation(n, o).links = DOMAIN Operation(m, o).links
    OBVIOUS
  <2>1. /\ Operation(m, o).operands \in Seq(Handles) /\ Operation(m, o).links \in Seq(Nat)
        /\ Operation(n, o).operands \in Seq(Handles) /\ Operation(n, o).links \in Seq(Nat)
    BY OperationFields DEF SameShape
  <2>2. /\ Len(Operation(n, o).operands) = Len(Operation(m, o).operands)
        /\ Len(Operation(n, o).links) = Len(Operation(m, o).links)
    BY DEF SameShape
  <2> QED BY <2>1, <2>2
<1>2. Operations(n) = Operations(m)
  BY DEF SameShape
<1> QED BY <1>1, <1>2 DEF HasOperand

\* The two stores of an edit of a use: of the value and of an operation.
StoredUse(m, v, uses, o, operands, links) ==
    WithOperation(WithValue(m, v, [Value(m, v) EXCEPT !.uses = uses]), o,
                  [Operation(m, o) EXCEPT !.operands = operands, !.links = links])

LEMMA UseStored ==
    ASSUME NEW m \in Modules(Types), NEW v \in Values(m), NEW uses \in Seq(UseEntries),
           NEW o \in Operations(m), NEW operands \in Seq(Handles), NEW links \in Seq(Nat),
           Len(operands) = Len(Operation(m, o).operands), Len(links) = Len(Operation(m, o).links)
    PROVE  LET n == StoredUse(m, v, uses, o, operands, links)
           IN  /\ n \in Modules(Types) /\ SameShape(m, n)
               /\ UsesOf(n, v) = uses
               /\ \A w \in Values(m) : w # v => UsesOf(n, w) = UsesOf(m, w)
               /\ Operation(n, o).operands = operands /\ Operation(n, o).links = links
               /\ \A p \in Operations(m) : p # o => Operation(n, p) = Operation(m, p)
<1> DEFINE x == [Value(m, v) EXCEPT !.uses = uses]
           y == [Operation(m, o) EXCEPT !.operands = operands, !.links = links]
           m1 == WithValue(m, v, x)
           n == StoredUse(m, v, uses, o, operands, links)
<1>1. /\ x \in ValueData(Types) /\ x.uses = uses
      /\ x.ty = Value(m, v).ty /\ x.definition = Value(m, v).definition
  BY ValueFields DEF ValueData, UseEntries
<1>2. /\ y \in OperationData /\ y.operands = operands /\ y.links = links
      /\ y.parent = Operation(m, o).parent /\ y.terminator = Operation(m, o).terminator
      /\ y.results = Operation(m, o).results /\ y.regions = Operation(m, o).regions
      /\ y.successors = Operation(m, o).successors
  BY OperationFields DEF OperationData
<1>0. n = WithOperation(m1, o, y)
  BY DEF StoredUse
<1> HIDE DEF x, y, n
<1>3. m1 \in Modules(Types) /\ Changed(m, m1, "values") /\ Puts(m.values, m1.values, v, x)
  BY <1>1, ValueStored
<1>4. Operations(m1) = Operations(m) /\ m1.operations = m.operations
  BY <1>3 DEF Changed, Operations
<1> HIDE DEF m1
<1>5. n \in Modules(Types) /\ Changed(m1, n, "operations") /\ Puts(m1.operations, n.operations, o, y)
  BY <1>0, <1>2, <1>3, <1>4, OperationStored
<1>6. n.regions = m.regions /\ n.blocks = m.blocks /\ n.attached = m.attached /\ n.values = m1.values
  BY <1>3, <1>5 DEF Changed
<1>7. /\ Operations(n) = Operations(m) /\ Operation(n, o) = y
      /\ \A p \in Operations(m) : p # o => Operation(n, p) = Operation(m, p)
  BY <1>4, <1>5 DEF Puts, Operations, Operation
<1>8. /\ Values(n) = Values(m) /\ Value(n, v) = x
      /\ \A w \in Values(m) : w # v => Value(n, w) = Value(m, w)
  BY <1>3, <1>6 DEF Puts, Values, Value
<1>9. SameShape(m, n)
  BY <1>1, <1>2, <1>6, <1>7, <1>8 DEF SameShape
<1> QED BY <1>1, <1>2, <1>5, <1>7, <1>8, <1>9 DEF UsesOf, n, m1, x, y

LEMMA LinkStored ==
    ASSUME NEW m \in Modules(Types), NEW w, HasOperand(m, w), NEW v \in Values(m)
    PROVE  LET n == LinkUse(m, w.user, w.index, v)
           IN  /\ n \in Modules(Types) /\ SameShape(m, n)
               /\ UsesOf(n, v) = Append(UsesOf(m, v), w)
               /\ \A x \in Values(m) : x # v => UsesOf(n, x) = UsesOf(m, x)
               /\ OperandAt(n, w) = v /\ LinkAt(n, w) = Len(UsesOf(m, v)) + 1
               /\ \A u : HasOperand(m, u) /\ u # w =>
                     OperandAt(n, u) = OperandAt(m, u) /\ LinkAt(n, u) = LinkAt(m, u)
<1> DEFINE n == LinkUse(m, w.user, w.index, v)
           o == w.user
           i == w.index
           uses == Append(UsesOf(m, v), Use(o, i))
           operands == ReplaceAt(Operation(m, o).operands, i, v)
           links == ReplaceAt(Operation(m, o).links, i, Len(uses))
           len == Len(UsesOf(m, v))
<1>1. /\ o \in Operations(m) /\ o \in Handles /\ i \in Nat /\ Use(o, i) = w /\ w \in UseEntries
      /\ i \in DOMAIN Operation(m, o).operands /\ i \in DOMAIN Operation(m, o).links
  BY UseEntry DEF HasOperand
<1>2. UsesOf(m, v) \in Seq(UseEntries) /\ len \in Nat /\ v \in Handles
  BY ValueFields, ModuleHandles DEF UsesOf
<1>3. /\ uses \in Seq(UseEntries) /\ Len(uses) = len + 1 /\ Len(uses) \in Nat
      /\ DOMAIN uses = 1..(len + 1) /\ DOMAIN UsesOf(m, v) = 1..len /\ uses[len + 1] = w
      /\ \A k \in 1..len : uses[k] = UsesOf(m, v)[k]
  BY <1>1, <1>2
<1>4. Operation(m, o).operands \in Seq(Handles) /\ Operation(m, o).links \in Seq(Nat)
  BY <1>1, OperationFields
<1>5. /\ operands \in Seq(Handles) /\ Len(operands) = Len(Operation(m, o).operands) /\ operands[i] = v
      /\ \A j \in DOMAIN Operation(m, o).operands : j # i => operands[j] = Operation(m, o).operands[j]
  BY <1>1, <1>2, <1>4 DEF ReplaceAt
<1>6. /\ links \in Seq(Nat) /\ Len(links) = Len(Operation(m, o).links) /\ links[i] = len + 1
      /\ \A j \in DOMAIN Operation(m, o).links : j # i => links[j] = Operation(m, o).links[j]
  BY <1>1, <1>3, <1>4 DEF ReplaceAt
<1>7. n = StoredUse(m, v, uses, o, operands, links)
  BY DEF LinkUse, UsesOf, StoredUse
<1> HIDE DEF n, uses, operands, links
<1>8. /\ n \in Modules(Types) /\ SameShape(m, n)
      /\ UsesOf(n, v) = uses
      /\ \A x \in Values(m) : x # v => UsesOf(n, x) = UsesOf(m, x)
      /\ Operation(n, o).operands = operands /\ Operation(n, o).links = links
      /\ \A p \in Operations(m) : p # o => Operation(n, p) = Operation(m, p)
  <2>1. /\ o \in Operations(m) /\ uses \in Seq(UseEntries)
        /\ operands \in Seq(Handles) /\ Len(operands) = Len(Operation(m, o).operands)
        /\ links \in Seq(Nat) /\ Len(links) = Len(Operation(m, o).links)
    BY <1>1, <1>3, <1>5, <1>6
  <2> HIDE DEF o
  <2> QED BY <1>7, <2>1, UseStored
<1>9. OperandAt(n, w) = v /\ LinkAt(n, w) = len + 1
  BY <1>5, <1>6, <1>8 DEF OperandAt, LinkAt
<1>10. ASSUME NEW u, HasOperand(m, u), u # w
       PROVE  OperandAt(n, u) = OperandAt(m, u) /\ LinkAt(n, u) = LinkAt(m, u)
  <2>1. u.user = o => u.index # i
    BY <1>1, <1>10, UseEntry DEF HasOperand
  <2> QED BY <1>5, <1>6, <1>8, <1>10, <2>1 DEF HasOperand, OperandAt, LinkAt
<1>11. uses = Append(UsesOf(m, v), w)
  BY <1>1 DEF uses
<1> QED BY <1>8, <1>9, <1>10, <1>11 DEF n

LEMMA Linking ==
    ASSUME NEW m \in Modules(Types), NEW linked, UsesAgree(m, linked),
           NEW w, HasOperand(m, w), w \notin linked, NEW v \in Values(m)
    PROVE  LET n == LinkUse(m, w.user, w.index, v)
           IN  /\ n \in Modules(Types) /\ SameShape(m, n)
               /\ UsesAgree(n, linked \cup {w})
               /\ OperandAt(n, w) = v
               /\ \A u : HasOperand(m, u) /\ u # w => OperandAt(n, u) = OperandAt(m, u)
<1> DEFINE n == LinkUse(m, w.user, w.index, v)
           len == Len(UsesOf(m, v))
           uses == Append(UsesOf(m, v), w)
<1>2. UsesOf(m, v) \in Seq(UseEntries) /\ len \in Nat /\ w \in UseEntries
  BY ValueFields DEF UsesOf, HasOperand
<1>3. /\ DOMAIN uses = 1..(len + 1) /\ DOMAIN UsesOf(m, v) = 1..len /\ uses[len + 1] = w
      /\ \A k \in 1..len : uses[k] = UsesOf(m, v)[k]
  BY <1>2
<1>8. /\ n \in Modules(Types) /\ SameShape(m, n)
      /\ UsesOf(n, v) = uses
      /\ \A x \in Values(m) : x # v => UsesOf(n, x) = UsesOf(m, x)
      /\ OperandAt(n, w) = v /\ LinkAt(n, w) = len + 1
      /\ \A u : HasOperand(m, u) /\ u # w =>
            OperandAt(n, u) = OperandAt(m, u) /\ LinkAt(n, u) = LinkAt(m, u)
  BY LinkStored
<1> HIDE DEF n, uses
<1>9. OperandAt(n, w) = v /\ LinkAt(n, w) = len + 1
  BY <1>8
<1>10. ASSUME NEW u, HasOperand(m, u), u # w
       PROVE  OperandAt(n, u) = OperandAt(m, u) /\ LinkAt(n, u) = LinkAt(m, u)
  BY <1>8, <1>10
<1>11. \A u : HasOperand(n, u) <=> HasOperand(m, u)
  BY <1>8, SameOperands
<1>12. Values(n) = Values(m)
  BY <1>8 DEF SameShape
<1>13. ASSUME NEW u \in linked \cup {w}
       PROVE  /\ HasOperand(n, u) /\ OperandAt(n, u) \in Values(n)
              /\ LinkAt(n, u) \in DOMAIN UsesOf(n, OperandAt(n, u))
              /\ UsesOf(n, OperandAt(n, u))[LinkAt(n, u)] = u
  <2>1. CASE u = w
    BY <1>2, <1>3, <1>8, <1>9, <1>11, <1>12, <2>1
  <2>2. CASE u # w
    <3>1. /\ HasOperand(m, u) /\ OperandAt(m, u) \in Values(m)
          /\ LinkAt(m, u) \in DOMAIN UsesOf(m, OperandAt(m, u))
          /\ UsesOf(m, OperandAt(m, u))[LinkAt(m, u)] = u
      BY <2>2 DEF UsesAgree
    <3>2. OperandAt(n, u) = OperandAt(m, u) /\ LinkAt(n, u) = LinkAt(m, u)
      BY <1>10, <2>2, <3>1
    <3>3. CASE OperandAt(m, u) = v
      <4>1. LinkAt(m, u) \in 1..len /\ LinkAt(m, u) \in 1..(len + 1)
        BY <1>2, <1>3, <3>1, <3>3
      <4> QED BY <1>3, <1>8, <1>11, <1>12, <3>1, <3>2, <3>3, <4>1
    <3>4. CASE OperandAt(m, u) # v
      BY <1>8, <1>11, <1>12, <3>1, <3>2, <3>4
    <3> QED BY <3>3, <3>4
  <2> QED BY <2>1, <2>2
<1>14. ASSUME NEW x \in Values(n), NEW k \in DOMAIN UsesOf(n, x)
       PROVE  /\ UsesOf(n, x)[k] \in linked \cup {w}
              /\ OperandAt(n, UsesOf(n, x)[k]) = x
              /\ LinkAt(n, UsesOf(n, x)[k]) = k
  <2>1. CASE x = v /\ k = len + 1
    BY <1>3, <1>8, <1>9, <2>1
  <2>2. CASE ~(x = v /\ k = len + 1)
    <3>1. k \in DOMAIN UsesOf(m, x) /\ UsesOf(n, x)[k] = UsesOf(m, x)[k]
      <4>1. CASE x = v
        BY <1>2, <1>3, <1>8, <1>14, <2>2, <4>1
      <4>2. CASE x # v
        BY <1>8, <1>12, <1>14, <4>2
      <4> QED BY <4>1, <4>2
    <3>2. /\ UsesOf(m, x)[k] \in linked
          /\ OperandAt(m, UsesOf(m, x)[k]) = x /\ LinkAt(m, UsesOf(m, x)[k]) = k
      BY <1>12, <3>1 DEF UsesAgree
    <3>3. HasOperand(m, UsesOf(m, x)[k]) /\ UsesOf(m, x)[k] # w
      BY <3>2 DEF UsesAgree
    <3> QED BY <1>10, <3>1, <3>2, <3>3
  <2> QED BY <2>1, <2>2
<1>15. UsesAgree(n, linked \cup {w})
  BY <1>13, <1>14 DEF UsesAgree
<1> QED BY <1>8, <1>9, <1>10, <1>15 DEF n

\* Only the uses of a value are stored.
LEMMA UsesStored ==
    ASSUME NEW m \in Modules(Types), NEW v \in Values(m), NEW uses \in Seq(UseEntries)
    PROVE  LET n == WithValue(m, v, [Value(m, v) EXCEPT !.uses = uses])
           IN  /\ n \in Modules(Types) /\ SameShape(m, n)
               /\ UsesOf(n, v) = uses
               /\ \A w \in Values(m) : w # v => UsesOf(n, w) = UsesOf(m, w)
               /\ \A p \in Operations(m) : Operation(n, p) = Operation(m, p)
<1> DEFINE x == [Value(m, v) EXCEPT !.uses = uses]
           n == WithValue(m, v, x)
<1>1. /\ x \in ValueData(Types) /\ x.uses = uses
      /\ x.ty = Value(m, v).ty /\ x.definition = Value(m, v).definition
  BY ValueFields DEF ValueData, UseEntries
<1> HIDE DEF x
<1>2. n \in Modules(Types) /\ Changed(m, n, "values") /\ Puts(m.values, n.values, v, x)
  BY <1>1, ValueStored
<1> HIDE DEF n
<1>3. n.regions = m.regions /\ n.blocks = m.blocks /\ n.attached = m.attached /\ n.operations = m.operations
  BY <1>2 DEF Changed
<1>4. Operations(n) = Operations(m) /\ \A p \in Operations(m) : Operation(n, p) = Operation(m, p)
  BY <1>3 DEF Operations, Operation
<1>5. /\ Values(n) = Values(m) /\ Value(n, v) = x
      /\ \A w \in Values(m) : w # v => Value(n, w) = Value(m, w)
  BY <1>2 DEF Puts, Values, Value
<1>6. SameShape(m, n)
  BY <1>1, <1>3, <1>4, <1>5 DEF SameShape
<1> QED BY <1>1, <1>2, <1>4, <1>5, <1>6 DEF UsesOf, n, x

LEMMA SwapRemoved ==
    ASSUME NEW S, NEW s \in Seq(S), NEW k \in DOMAIN s
    PROVE  LET t == SwapRemove(s, k)
           IN  /\ t \in Seq(S) /\ DOMAIN t = 1..(Len(s) - 1)
               /\ \A j \in 1..(Len(s) - 1) : t[j] = IF j = k THEN s[Len(s)] ELSE s[j]
<1> DEFINE n == Len(s)
           front == SubSeq(s, 1, n - 1)
<1>1. n \in Nat /\ DOMAIN s = 1..n /\ k \in 1..n /\ n >= 1
  OBVIOUS
<1>2. front \in Seq(S) /\ Len(front) = n - 1 /\ \A j \in 1..(n - 1) : front[j] = s[j]
  BY <1>1
<1>3. DOMAIN front = 1..(n - 1)
  BY <1>1, <1>2
<1>4. s[n] \in S
  BY <1>1, SMTT(40)
<1> HIDE DEF front
<1>5. CASE k = n
  <2>1. SwapRemove(s, k) = front
    BY <1>5 DEF SwapRemove, Front, front
  <2> QED BY <1>1, <1>2, <1>3, <1>5, <2>1
<1>6. CASE k # n
  <2>1. SwapRemove(s, k) = [front EXCEPT ![k] = s[n]]
    BY <1>6 DEF SwapRemove, Front, Last, ReplaceAt, front
  <2>2. k \in 1..(n - 1)
    BY <1>1, <1>6
  <2> QED BY <1>1, <1>2, <1>3, <1>4, <2>1, <2>2
<1> QED BY <1>5, <1>6

LEMMA Unlinking ==
    ASSUME NEW m \in Modules(Types), NEW linked, UsesAgree(m, linked), NEW w \in linked
    PROVE  LET n == Unlinked(m, w.user, w.index)
           IN  /\ Unlinkable(m, w.user, w.index)
               /\ n \in Modules(Types) /\ SameShape(m, n)
               /\ UsesAgree(n, linked \ {w})
               /\ \A u : HasOperand(m, u) => OperandAt(n, u) = OperandAt(m, u)
<1> DEFINE n == Unlinked(m, w.user, w.index)
           v == OperandAt(m, w)
           k == LinkAt(m, w)
           uses == UsesOf(m, v)
           len == Len(uses)
           left == SwapRemove(uses, k)
           moved == uses[len]
<1>1. /\ HasOperand(m, w) /\ v \in Values(m) /\ k \in DOMAIN uses /\ uses[k] = w
      /\ w \in UseEntries /\ Use(w.user, w.index) = w /\ w.user \in Operations(m)
  BY UseEntry DEF UsesAgree, HasOperand
<1>2. uses \in Seq(UseEntries) /\ len \in Nat /\ DOMAIN uses = 1..len /\ k \in 1..len /\ len \in DOMAIN uses
  BY <1>1, ValueFields DEF UsesOf
<1>3. /\ left \in Seq(UseEntries) /\ DOMAIN left = 1..(len - 1)
      /\ \A j \in 1..(len - 1) : left[j] = IF j = k THEN moved ELSE uses[j]
  BY <1>1, <1>2, SwapRemoved
<1>4. \A x \in Values(m) : \A j \in DOMAIN UsesOf(m, x) :
         /\ UsesOf(m, x)[j] \in linked
         /\ OperandAt(m, UsesOf(m, x)[j]) = x
         /\ LinkAt(m, UsesOf(m, x)[j]) = j
  BY DEF UsesAgree
<1>5. \A u \in linked :
         /\ HasOperand(m, u) /\ OperandAt(m, u) \in Values(m)
         /\ LinkAt(m, u) \in DOMAIN UsesOf(m, OperandAt(m, u))
         /\ UsesOf(m, OperandAt(m, u))[LinkAt(m, u)] = u
  BY DEF UsesAgree
<1>6. moved \in linked /\ OperandAt(m, moved) = v /\ LinkAt(m, moved) = len /\ HasOperand(m, moved)
  BY <1>1, <1>2, <1>4, <1>5
<1>7. Unlinkable(m, w.user, w.index)
  <2>1. Operation(m, w.user).operands[w.index] = v /\ Operation(m, w.user).links[w.index] = k /\ Value(m, v).uses = uses
    BY DEF OperandAt, LinkAt, UsesOf
  <2>2. Resolves(m.values, v) /\ Resolves(m.operations, moved.user)
    BY <1>1, <1>6, ModuleHandles, SMTT(40) DEF HasOperand
  <2>3. /\ moved.index \in DOMAIN Operation(m, moved.user).operands
        /\ Operation(m, moved.user).operands[moved.index] = v
        /\ Operation(m, moved.user).links[moved.index] = len
    BY <1>6 DEF HasOperand, OperandAt, LinkAt
  <2> HIDE DEF v, k, uses
  <2> QED BY <1>1, <2>1, <2>2, <2>3 DEF Unlinkable, Last
\* What is left: shorter uses of v, and the moved use linked to its new place.
<1>8. /\ n \in Modules(Types) /\ SameShape(m, n)
      /\ UsesOf(n, v) = left
      /\ \A x \in Values(m) : x # v => UsesOf(n, x) = UsesOf(m, x)
      /\ \A u : HasOperand(m, u) =>
            /\ OperandAt(n, u) = OperandAt(m, u)
            /\ LinkAt(n, u) = IF u = moved /\ k # len THEN k ELSE LinkAt(m, u)
  <2>1. CASE k = len
    <3>1. n = WithValue(m, v, [Value(m, v) EXCEPT !.uses = left])
      BY <2>1 DEF Unlinked, OperandAt, LinkAt, UsesOf
    <3>2. /\ n \in Modules(Types) /\ SameShape(m, n)
          /\ UsesOf(n, v) = left
          /\ \A x \in Values(m) : x # v => UsesOf(n, x) = UsesOf(m, x)
          /\ \A p \in Operations(m) : Operation(n, p) = Operation(m, p)
      <4> HIDE DEF n, v, left
      <4> QED BY <1>1, <1>3, <3>1, UsesStored
    <3> HIDE DEF n, v, left
    <3> QED BY <2>1, <3>2 DEF HasOperand, OperandAt, LinkAt
  <2>2. CASE k # len
    <3> DEFINE o == moved.user
               i == moved.index
               operands == Operation(m, o).operands
               links == ReplaceAt(Operation(m, o).links, i, k)
    <3>1. o \in Operations(m) /\ i \in DOMAIN Operation(m, o).links /\ moved \in UseEntries
      BY <1>6 DEF HasOperand
    <3>2. operands \in Seq(Handles) /\ Operation(m, o).links \in Seq(Nat) /\ Operation(m, o) \in OperationData
      BY <3>1, OperationFields
    <3>3. /\ links \in Seq(Nat) /\ Len(links) = Len(Operation(m, o).links) /\ links[i] = k
          /\ \A j \in DOMAIN Operation(m, o).links : j # i => links[j] = Operation(m, o).links[j]
      BY <1>2, <3>1, <3>2 DEF ReplaceAt
    <3>4. n = WithOperation(WithValue(m, v, [Value(m, v) EXCEPT !.uses = left]), o,
                            [Operation(m, o) EXCEPT !.links = links])
      BY <2>2 DEF Unlinked, OperandAt, LinkAt, UsesOf, Last
    <3>5. [Operation(m, o) EXCEPT !.links = links] = [Operation(m, o) EXCEPT !.operands = operands, !.links = links]
      <4> HIDE DEF links
      <4> QED BY <3>2, <3>3 DEF OperationData
    <3>6. n = StoredUse(m, v, left, o, operands, links)
      BY <3>4, <3>5 DEF StoredUse
    <3>7. /\ n \in Modules(Types) /\ SameShape(m, n)
          /\ UsesOf(n, v) = left
          /\ \A x \in Values(m) : x # v => UsesOf(n, x) = UsesOf(m, x)
          /\ Operation(n, o).operands = operands /\ Operation(n, o).links = links
          /\ \A p \in Operations(m) : p # o => Operation(n, p) = Operation(m, p)
      <4>1. Len(operands) = Len(Operation(m, o).operands)
        OBVIOUS
      <4> HIDE DEF n, v, left, o, operands, links
      <4> QED BY <1>1, <1>3, <3>1, <3>2, <3>3, <3>6, <4>1, UseStored
    <3>8. ASSUME NEW u, HasOperand(m, u)
          PROVE  /\ OperandAt(n, u) = OperandAt(m, u)
                 /\ LinkAt(n, u) = IF u = moved THEN k ELSE LinkAt(m, u)
      <4>1. u # moved /\ u.user = o => u.index # i
        BY <3>1, <3>8, UseEntry, SMTT(40) DEF HasOperand
      <4>2. OperandAt(n, u) = OperandAt(m, u)
        BY <3>7, <3>8 DEF HasOperand, OperandAt
      <4>3. LinkAt(n, moved) = k
        BY <3>3, <3>7 DEF LinkAt
      <4>4. u # moved => LinkAt(n, u) = LinkAt(m, u)
        <5> HIDE DEF n, o, i, links, operands
        <5> QED BY <3>3, <3>7, <3>8, <4>1 DEF HasOperand, LinkAt
      <4> QED BY <4>2, <4>3, <4>4
    <3> HIDE DEF n, v, left
    <3> QED BY <2>2, <3>7, <3>8
  <2> QED BY <2>1, <2>2
<1> HIDE DEF n, left
<1>9. \A u : HasOperand(n, u) <=> HasOperand(m, u)
  BY <1>8, SameOperands
<1>10. Values(n) = Values(m)
  BY <1>8 DEF SameShape
<1>11. \A j \in 1..len : uses[j] = w => j = k
  BY <1>1, <1>2, <1>4
<1>12. ASSUME NEW u \in linked \ {w}
       PROVE  /\ HasOperand(n, u) /\ OperandAt(n, u) \in Values(n)
              /\ LinkAt(n, u) \in DOMAIN UsesOf(n, OperandAt(n, u))
              /\ UsesOf(n, OperandAt(n, u))[LinkAt(n, u)] = u
  <2>1. /\ HasOperand(m, u) /\ OperandAt(m, u) \in Values(m)
        /\ LinkAt(m, u) \in DOMAIN UsesOf(m, OperandAt(m, u))
        /\ UsesOf(m, OperandAt(m, u))[LinkAt(m, u)] = u
    BY <1>5
  <2>2. OperandAt(n, u) = OperandAt(m, u)
    BY <1>8, <2>1
  <2>3. CASE OperandAt(m, u) # v
    <3>1. u # moved
      BY <1>6, <2>3
    <3> QED BY <1>8, <1>9, <1>10, <2>1, <2>2, <2>3, <3>1
  <2>4. CASE OperandAt(m, u) = v
    <3>1. LinkAt(m, u) \in 1..len /\ uses[LinkAt(m, u)] = u
      BY <1>2, <2>1, <2>4
    <3>2. LinkAt(m, u) # k
      BY <1>1, <3>1
    <3>3. CASE u = moved
      <4>1. k # len /\ k \in 1..(len - 1) /\ LinkAt(n, u) = k
        BY <1>2, <1>6, <1>8, <2>1, <3>2, <3>3
      <4>2. left[k] = moved
        BY <1>3, <4>1
      <4> QED BY <1>3, <1>8, <1>9, <1>10, <2>1, <2>2, <2>4, <3>3, <4>1, <4>2
    <3>4. CASE u # moved
      <4>1. LinkAt(m, u) # len /\ LinkAt(n, u) = LinkAt(m, u)
        BY <1>8, <2>1, <3>1, <3>4
      <4>2. LinkAt(m, u) \in 1..(len - 1)
        BY <1>2, <3>1, <4>1
      <4>3. left[LinkAt(m, u)] = u
        BY <1>3, <3>1, <3>2, <4>2
      <4> QED BY <1>3, <1>8, <1>9, <1>10, <2>1, <2>2, <2>4, <4>1, <4>2, <4>3
    <3> QED BY <3>3, <3>4
  <2> QED BY <2>3, <2>4
<1>13. ASSUME NEW x \in Values(n), NEW j \in DOMAIN UsesOf(n, x)
       PROVE  /\ UsesOf(n, x)[j] \in linked \ {w}
              /\ OperandAt(n, UsesOf(n, x)[j]) = x
              /\ LinkAt(n, UsesOf(n, x)[j]) = j
  <2>1. CASE x # v
    <3>1. j \in DOMAIN UsesOf(m, x) /\ UsesOf(n, x)[j] = UsesOf(m, x)[j]
      BY <1>8, <1>10, <1>13, <2>1
    <3>2. /\ UsesOf(m, x)[j] \in linked
          /\ OperandAt(m, UsesOf(m, x)[j]) = x /\ LinkAt(m, UsesOf(m, x)[j]) = j
      BY <1>4, <1>10, <3>1
    <3>3. UsesOf(m, x)[j] # w /\ UsesOf(m, x)[j] # moved /\ HasOperand(m, UsesOf(m, x)[j])
      BY <1>5, <1>6, <2>1, <3>2
    <3> QED BY <1>8, <3>1, <3>2, <3>3
  <2>2. CASE x = v
    <3>1. j \in 1..(len - 1) /\ UsesOf(n, x)[j] = left[j] /\ j \in 1..len
      BY <1>2, <1>3, <1>8, <1>13, <2>2
    <3>2. CASE j = k
      <4>1. left[j] = moved /\ k # len
        BY <1>2, <1>3, <3>1, <3>2
      <4>2. moved # w
        BY <1>2, <1>11, <4>1
      <4> QED BY <1>6, <1>8, <2>2, <3>1, <3>2, <4>1, <4>2
    <3>3. CASE j # k
      <4>1. left[j] = uses[j]
        BY <1>3, <3>1, <3>3
      <4>2. uses[j] \in linked /\ OperandAt(m, uses[j]) = v /\ LinkAt(m, uses[j]) = j /\ uses[j] # w
        BY <1>1, <1>2, <1>4, <1>11, <3>1, <3>3
      <4>3. uses[j] # moved
        BY <1>2, <1>6, <3>1, <4>2
      <4>4. HasOperand(m, uses[j])
        BY <1>5, <4>2
      <4> QED BY <1>8, <2>2, <3>1, <4>1, <4>2, <4>3, <4>4
    <3> QED BY <3>2, <3>3
  <2> QED BY <2>1, <2>2
<1>14. UsesAgree(n, linked \ {w})
  BY <1>12, <1>13 DEF UsesAgree
<1> QED BY <1>7, <1>8, <1>14 DEF n

-----------------------------------------------------------------------------
(* Agreement is that of ownership and that of all uses.                      *)

PlacesAgree(m) ==
    \A o \in Operations(m) :
       LET op == Operation(m, o) IN
       /\ op.parent \in Blocks(m) /\ o \in Range(Block(m, op.parent).operations)
       /\ Len(op.operands) = Len(op.links)
       /\ \A i \in DOMAIN op.results :
             op.results[i] \in Values(m) /\ Value(m, op.results[i]).definition = Result(o, i)
       /\ \A r \in Range(op.regions) : r \in Regions(m) /\ Region(m, r).parent = o

DefinitionAgrees(m, v) ==
    LET d == Value(m, v).definition IN
    CASE d.kind = "argument" ->
           /\ d.owner \in Blocks(m)
           /\ d.index \in DOMAIN Block(m, d.owner).arguments
           /\ Block(m, d.owner).arguments[d.index] = v
      [] d.kind = "result" ->
           /\ d.owner \in Operations(m)
           /\ d.index \in DOMAIN Operation(m, d.owner).results
           /\ Operation(m, d.owner).results[d.index] = v

DefinitionsAgree(m) == \A v \in Values(m) : DefinitionAgrees(m, v)

Owned(m) == RegionsAgree(m) /\ BlocksAgree(m) /\ PlacesAgree(m) /\ DefinitionsAgree(m)

LEMMA AllUsesLinked ==
    ASSUME NEW m \in Modules(Types), OperationsAgree(m), NEW o \in Operations(m),
           NEW i \in DOMAIN Operation(m, o).operands
    PROVE  Use(o, i) \in AllUses(m)
<1>1. Operation(m, o).operands \in Seq(Handles) /\ Operation(m, o).links \in Seq(Nat) /\ o \in Handles
  BY OperationFields, ModuleHandles
<1>2. Len(Operation(m, o).operands) = Len(Operation(m, o).links)
  BY DEF OperationsAgree
<1>3. i \in Nat /\ i \in DOMAIN Operation(m, o).links
  BY <1>1, <1>2
<1> QED BY <1>1, <1>3, UseEntry DEF AllUses, HasOperand

LEMMA AgreementSplits ==
    ASSUME NEW m \in Modules(Types)
    PROVE  Agrees(m) <=> Owned(m) /\ UsesAgree(m, AllUses(m))
<1>1. ASSUME Agrees(m) PROVE Owned(m) /\ UsesAgree(m, AllUses(m))
  <2>1. RegionsAgree(m) /\ BlocksAgree(m) /\ OperationsAgree(m) /\ ValuesAgree(m)
    BY <1>1 DEF Agrees
  <2>2. PlacesAgree(m)
    BY <2>1 DEF OperationsAgree, PlacesAgree
  <2>3. DefinitionsAgree(m)
    BY <2>1 DEF ValuesAgree, DefinitionsAgree, DefinitionAgrees
  <2>4. ASSUME NEW u \in AllUses(m)
        PROVE  /\ HasOperand(m, u) /\ OperandAt(m, u) \in Values(m)
               /\ LinkAt(m, u) \in DOMAIN UsesOf(m, OperandAt(m, u))
               /\ UsesOf(m, OperandAt(m, u))[LinkAt(m, u)] = u
    <3>1. HasOperand(m, u) /\ u.user \in Operations(m) /\ u.index \in DOMAIN Operation(m, u.user).operands
          /\ Use(u.user, u.index) = u
      BY UseEntry DEF AllUses, HasOperand
    <3> QED BY <2>1, <3>1 DEF OperationsAgree, OperandAt, LinkAt, UsesOf
  <2>5. ASSUME NEW v \in Values(m), NEW k \in DOMAIN UsesOf(m, v)
        PROVE  /\ UsesOf(m, v)[k] \in AllUses(m)
               /\ OperandAt(m, UsesOf(m, v)[k]) = v
               /\ LinkAt(m, UsesOf(m, v)[k]) = k
    <3> DEFINE u == UsesOf(m, v)[k]
    <3>1. u \in UseEntries
      BY ValueFields DEF UsesOf
    <3>2. /\ u.user \in Operations(m) /\ u.index \in DOMAIN Operation(m, u.user).operands
          /\ Operation(m, u.user).operands[u.index] = v /\ Operation(m, u.user).links[u.index] = k
      BY <2>1 DEF ValuesAgree, UsesOf
    <3>3. u \in AllUses(m)
      <4> HIDE DEF u
      <4> QED BY <2>1, <3>1, <3>2, AllUsesLinked, UseEntry
    <3> QED BY <3>2, <3>3 DEF OperandAt, LinkAt
  <2> QED BY <2>1, <2>2, <2>3, <2>4, <2>5 DEF Owned, UsesAgree
<1>2. ASSUME Owned(m), UsesAgree(m, AllUses(m)) PROVE Agrees(m)
  <2>1. RegionsAgree(m) /\ BlocksAgree(m) /\ PlacesAgree(m) /\ DefinitionsAgree(m)
    BY <1>2 DEF Owned
  <2>2. OperationsAgree(m)
    <3> SUFFICES ASSUME NEW o \in Operations(m), NEW i \in DOMAIN Operation(m, o).operands
                 PROVE  /\ Operation(m, o).operands[i] \in Values(m)
                        /\ Operation(m, o).links[i] \in DOMAIN Value(m, Operation(m, o).operands[i]).uses
                        /\ Value(m, Operation(m, o).operands[i]).uses[Operation(m, o).links[i]] = Use(o, i)
      BY <2>1 DEF PlacesAgree, OperationsAgree
    <3>1. Operation(m, o).operands \in Seq(Handles) /\ Operation(m, o).links \in Seq(Nat) /\ o \in Handles
      BY OperationFields, ModuleHandles
    <3>2. i \in Nat /\ i \in DOMAIN Operation(m, o).links
      BY <2>1, <3>1 DEF PlacesAgree
    <3>3. Use(o, i) \in AllUses(m) /\ Use(o, i).user = o /\ Use(o, i).index = i
      BY <3>1, <3>2, UseEntry DEF AllUses, HasOperand
    <3> QED BY <1>2, <3>3 DEF UsesAgree, OperandAt, LinkAt, UsesOf
  <2>3. ValuesAgree(m)
    <3> SUFFICES ASSUME NEW v \in Values(m)
                 PROVE  /\ IsInjective(Value(m, v).uses)
                        /\ \A k \in DOMAIN Value(m, v).uses :
                              LET u == Value(m, v).uses[k] IN
                              /\ u.user \in Operations(m)
                              /\ u.index \in DOMAIN Operation(m, u.user).operands
                              /\ Operation(m, u.user).operands[u.index] = v
                              /\ Operation(m, u.user).links[u.index] = k
      BY <2>1 DEF DefinitionsAgree, DefinitionAgrees, ValuesAgree
    <3>1. \A k \in DOMAIN Value(m, v).uses :
             LET u == Value(m, v).uses[k] IN
             /\ u.user \in Operations(m)
             /\ u.index \in DOMAIN Operation(m, u.user).operands
             /\ Operation(m, u.user).operands[u.index] = v
             /\ Operation(m, u.user).links[u.index] = k
      BY <1>2 DEF UsesAgree, AllUses, HasOperand, OperandAt, LinkAt, UsesOf
    <3>2. IsInjective(Value(m, v).uses)
      BY <3>1 DEF IsInjective
    <3> QED BY <3>1, <3>2
  <2> QED BY <2>1, <2>2, <2>3 DEF Agrees
<1> QED BY <1>1, <1>2

LEMMA ShapeOwns ==
    ASSUME NEW m \in Modules(Types), NEW n \in Modules(Types), SameShape(m, n), Owned(m)
    PROVE  Owned(n) /\ AllUses(n) = AllUses(m)
<1>1. /\ Regions(n) = Regions(m) /\ Blocks(n) = Blocks(m)
      /\ Operations(n) = Operations(m) /\ Values(n) = Values(m)
      /\ \A r : Region(n, r) = Region(m, r)
      /\ \A b : Block(n, b) = Block(m, b)
  BY DEF SameShape, Regions, Blocks, Region, Block
<1>2. \A o \in Operations(m) :
          /\ Operation(n, o).parent = Operation(m, o).parent
          /\ Operation(n, o).results = Operation(m, o).results
          /\ Operation(n, o).regions = Operation(m, o).regions
          /\ Len(Operation(n, o).operands) = Len(Operation(m, o).operands)
          /\ Len(Operation(n, o).links) = Len(Operation(m, o).links)
  BY DEF SameShape
<1>3. \A v \in Values(m) : Value(n, v).definition = Value(m, v).definition
  BY DEF SameShape
<1>4. RegionsAgree(m) /\ BlocksAgree(m) /\ PlacesAgree(m) /\ DefinitionsAgree(m)
  BY DEF Owned
<1>5. RegionsAgree(n)
  BY <1>1, <1>2, <1>4 DEF RegionsAgree
<1>6. BlocksAgree(n)
  BY <1>1, <1>2, <1>3, <1>4 DEF BlocksAgree
<1>7. PlacesAgree(n)
  BY <1>1, <1>2, <1>3, <1>4 DEF PlacesAgree
<1>8. DefinitionsAgree(n)
  <2> SUFFICES ASSUME NEW v \in Values(m) PROVE DefinitionAgrees(n, v)
    BY <1>1 DEF DefinitionsAgree
  <2>1. DefinitionAgrees(m, v)
    BY <1>4 DEF DefinitionsAgree
  <2>2. Value(m, v).definition.kind \in {"argument", "result"}
    BY ValueFields DEF Definitions
  <2> QED BY <1>1, <1>2, <1>3, <2>1, <2>2 DEF DefinitionAgrees
<1>9. AllUses(n) = AllUses(m)
  BY SameOperands DEF AllUses
<1> QED BY <1>5, <1>6, <1>7, <1>8, <1>9 DEF Owned

-----------------------------------------------------------------------------
(* Replacing operands.                                                       *)

Rewired(m, w, v) == LinkUse(Unlinked(m, w.user, w.index), w.user, w.index, v)

LEMMA Rewiring ==
    ASSUME NEW m \in Modules(Types), Agrees(m), NEW w \in AllUses(m), NEW v \in Values(m)
    PROVE  LET n == Rewired(m, w, v)
           IN  /\ Unlinkable(m, w.user, w.index)
               /\ n \in Modules(Types) /\ SameShape(m, n) /\ Agrees(n)
               /\ OperandAt(n, w) = v
               /\ \A u \in AllUses(m) : u # w => OperandAt(n, u) = OperandAt(m, u)
<1> DEFINE n1 == Unlinked(m, w.user, w.index)
           n == Rewired(m, w, v)
           linked == AllUses(m)
<1>1. Owned(m) /\ UsesAgree(m, linked)
  BY AgreementSplits
<1>2. /\ Unlinkable(m, w.user, w.index)
      /\ n1 \in Modules(Types) /\ SameShape(m, n1)
      /\ UsesAgree(n1, linked \ {w})
      /\ \A u : HasOperand(m, u) => OperandAt(n1, u) = OperandAt(m, u)
  <2>1. w \in linked
    OBVIOUS
  <2> HIDE DEF linked
  <2> QED BY <1>1, <2>1, Unlinking
<1> HIDE DEF n1
<1>3. HasOperand(n1, w) /\ v \in Values(n1)
  BY <1>2, SameOperands DEF AllUses, SameShape
<1>4. /\ n \in Modules(Types) /\ SameShape(n1, n)
      /\ UsesAgree(n, (linked \ {w}) \cup {w})
      /\ OperandAt(n, w) = v
      /\ \A u : HasOperand(n1, u) /\ u # w => OperandAt(n, u) = OperandAt(n1, u)
  <2>1. n = LinkUse(n1, w.user, w.index, v)
    BY DEF Rewired, n1
  <2>2. w \notin linked \ {w}
    OBVIOUS
  <2> HIDE DEF n, linked
  <2> QED BY <1>2, <1>3, <2>1, <2>2, Linking
<1> HIDE DEF n
<1>5. (linked \ {w}) \cup {w} = linked
  OBVIOUS
<1>6. SameShape(m, n)
  BY <1>2, <1>4, ShapesChain
<1>7. Owned(n) /\ AllUses(n) = linked
  BY <1>1, <1>4, <1>6, ShapeOwns
<1>8. Agrees(n)
  BY <1>4, <1>5, <1>7, AgreementSplits
<1>9. \A u \in AllUses(m) : u # w => OperandAt(n, u) = OperandAt(m, u)
  BY <1>2, <1>4, SameOperands DEF AllUses
<1> QED BY <1>2, <1>4, <1>6, <1>8, <1>9 DEF n

LEMMA Replacing ==
    ASSUME NEW m \in Modules(Types), Agrees(m),
           NEW user \in Handles, NEW i \in Nat, NEW replacement \in Handles
    PROVE  LET e == ReplaceOperand(m, user, i, replacement)
           IN  /\ e.ir \in Modules(Types) /\ Agrees(e.ir) /\ SameShape(m, e.ir)
               /\ e.bumps \in {0, 1} /\ (e.bumps = 1 <=> e.ir # m)
               /\ e.answer # "ok" => e.ir = m
               /\ e = [answer |-> e.answer, ir |-> e.ir, bumps |-> e.bumps]
               /\ e.answer \in {"ok", "UnknownValue", "UnknownOperation", "OperandOutOfBounds",
                                "TypeMismatch", "CorruptUseList"}
<1> DEFINE e == ReplaceOperand(m, user, i, replacement)
           w == Use(user, i)
           old == Operation(m, user).operands[i]
           n == Rewired(m, w, replacement)
<1>1. CASE /\ Resolves(m.values, replacement) /\ Resolves(m.operations, user)
           /\ i \in DOMAIN Operation(m, user).operands
           /\ old # replacement /\ Resolves(m.values, old)
           /\ Value(m, old).ty = Value(m, replacement).ty
           /\ Unlinkable(m, user, i)
  <2>1. replacement \in Values(m) /\ user \in Operations(m)
    BY <1>1, ModuleHandles
  <2>2. w \in AllUses(m)
    BY <1>1, <2>1, AllUsesLinked DEF Agrees
  <2>3. w.user = user /\ w.index = i
    BY UseEntry
  <2>4. e = [answer |-> "ok", ir |-> n, bumps |-> 1]
    BY <1>1, <2>3 DEF ReplaceOperand, Rewired, Ok
  <2> HIDE DEF w, e
  <2>5. n \in Modules(Types) /\ Agrees(n) /\ SameShape(m, n) /\ OperandAt(n, w) = replacement
    BY <2>1, <2>2, Rewiring
  <2>6. OperandAt(m, w) = old
    BY <2>3 DEF OperandAt
  <2>7. n # m
    BY <1>1, <2>5, <2>6
  <2> QED BY <2>4, <2>5, <2>7 DEF e
<1>2. CASE ~(/\ Resolves(m.values, replacement) /\ Resolves(m.operations, user)
             /\ i \in DOMAIN Operation(m, user).operands
             /\ old # replacement /\ Resolves(m.values, old)
             /\ Value(m, old).ty = Value(m, replacement).ty
             /\ Unlinkable(m, user, i))
  <2>1. \E a \in {"ok", "UnknownValue", "UnknownOperation", "OperandOutOfBounds", "TypeMismatch", "CorruptUseList"} :
           e = [answer |-> a, ir |-> m, bumps |-> 0]
    BY <1>2 DEF ReplaceOperand, Ok, Refuse
  <2>2. SameShape(m, m)
    BY DEF SameShape
  <2> HIDE DEF e
  <2> QED BY <2>1, <2>2 DEF e
<1> QED BY <1>1, <1>2

\* What replace_operand answers when it has something to do and may do it.
LEMMA Replaced ==
    ASSUME NEW m \in Modules(Types), Agrees(m), NEW w \in AllUses(m), NEW v \in Values(m)
    PROVE  LET e == ReplaceOperand(m, w.user, w.index, v)
           IN  /\ OperandAt(m, w) = v => e = Ok(m, 0)
               /\ OperandAt(m, w) # v /\ Value(m, OperandAt(m, w)).ty = Value(m, v).ty =>
                     e = Ok(Rewired(m, w, v), 1)
<1>1. /\ w.user \in Operations(m) /\ w.index \in DOMAIN Operation(m, w.user).operands
      /\ w.user \in Handles /\ v \in Handles
  BY ModuleHandles DEF AllUses, HasOperand
<1>2. OperandAt(m, w) \in Values(m)
  BY AgreementSplits DEF UsesAgree
<1>3. /\ Resolves(m.values, v) /\ Resolves(m.operations, w.user) /\ Resolves(m.values, OperandAt(m, w))
      /\ Unlinkable(m, w.user, w.index)
  BY <1>1, <1>2, ModuleHandles, Rewiring
<1> QED BY <1>1, <1>3 DEF ReplaceOperand, OperandAt, Rewired

Answers == {"ok", "UnknownValue", "UnknownOperation", "OperandOutOfBounds", "TypeMismatch", "CorruptUseList"}
Outcomes == {e \in [answer : Answers, ir : Modules(Types), bumps : Nat] : Agrees(e.ir)}

\* One step of replace_all_uses.
ReplaceUse(done, use, replacement) ==
    IF done.answer # "ok" THEN done
    ELSE LET next == ReplaceOperand(done.ir, use.user, use.index, replacement) IN
         [next EXCEPT !.bumps = @ + done.bumps]

LEMMA ReplaceUseTyped ==
    ASSUME NEW d \in Outcomes, NEW u \in UseEntries, NEW replacement \in Handles
    PROVE  ReplaceUse(d, u, replacement) \in Outcomes
<1> DEFINE e == ReplaceOperand(d.ir, u.user, u.index, replacement)
<1>1. d.ir \in Modules(Types) /\ Agrees(d.ir) /\ d.bumps \in Nat /\ u.user \in Handles /\ u.index \in Nat
  BY UseEntry DEF Outcomes
<1>2. /\ e.ir \in Modules(Types) /\ Agrees(e.ir) /\ e.bumps \in {0, 1} /\ e.answer \in Answers
      /\ e = [answer |-> e.answer, ir |-> e.ir, bumps |-> e.bumps]
  BY <1>1, Replacing DEF Answers
<1> HIDE DEF e
<1>3. [e EXCEPT !.bumps = @ + d.bumps] = [answer |-> e.answer, ir |-> e.ir, bumps |-> e.bumps + d.bumps]
  BY <1>2
<1>4. e.bumps + d.bumps \in Nat
  BY <1>1, <1>2
<1>5. [e EXCEPT !.bumps = @ + d.bumps] \in Outcomes
  BY <1>2, <1>3, <1>4 DEF Outcomes
<1> QED BY <1>5 DEF ReplaceUse, e

LEMMA ReplaceFold ==
    ASSUME NEW m \in Modules(Types), Agrees(m), NEW uses \in Seq(UseEntries), NEW replacement \in Handles
    PROVE  \E f \in [0..Len(uses) -> Outcomes] :
              /\ f[0] = Ok(m, 0) /\ f[Len(uses)] = ReplaceUses(m, uses, replacement)
              /\ \A k \in 1..Len(uses) : f[k] = ReplaceUse(f[k - 1], uses[k], replacement)
<1> DEFINE n == Len(uses)
           D == Outcomes
           base == Ok(m, 0)
           op == [p \in D \X (1..n) |-> ReplaceUse(p[1], uses[p[2]], replacement)]
           iter == CHOOSE iter : iter = [t \in SUBSET DOMAIN uses |->
                      IF t = {} THEN base ELSE ReplaceUse(iter[t \ {Max(t)}], uses[Max(t)], replacement)]
<1>1. n \in Nat /\ DOMAIN uses = 1..n /\ base \in D
  BY DEF Ok, Outcomes, Answers
<1>2. ASSUME NEW d \in D, NEW i \in 1..n PROVE ReplaceUse(d, uses[i], replacement) \in D
  <2>1. uses[i] \in UseEntries
    BY <1>1
  <2> HIDE DEF D
  <2> QED BY <2>1, ReplaceUseTyped DEF D
<1>3. op \in [D \X (1..n) -> D] /\ \A d \in D, i \in 1..n : op[<<d, i>>] = ReplaceUse(d, uses[i], replacement)
  BY <1>2
<1> HIDE DEF op, D, n, base
<1>4. PICK g : FoldsSets(g, n, D, base, op)
  BY <1>1, <1>3, FoldExists
<1>5. ASSUME NEW t \in SUBSET (1..n), t # {}
      PROVE  Max(t) \in 1..n /\ t \ {Max(t)} \in SUBSET (1..n)
  BY <1>1, <1>5, MaxOfIndices
<1>6. g = [t \in SUBSET DOMAIN uses |-> IF t = {} THEN base ELSE ReplaceUse(g[t \ {Max(t)}], uses[Max(t)], replacement)]
  <2>1. ASSUME NEW t \in SUBSET (1..n)
        PROVE  g[t] = IF t = {} THEN base ELSE ReplaceUse(g[t \ {Max(t)}], uses[Max(t)], replacement)
    <3>1. g[t] = IF t = {} THEN base ELSE op[<<g[t \ {Max(t)}], Max(t)>>]
      BY <1>4 DEF FoldsSets
    <3>2. CASE t # {}
      <4>1. Max(t) \in 1..n /\ t \ {Max(t)} \in SUBSET (1..n)
        BY <1>5, <3>2
      <4>2. g[t \ {Max(t)}] \in D
        BY <1>4, <4>1 DEF FoldsSets
      <4> QED BY <1>3, <3>1, <3>2, <4>1, <4>2
    <3> QED BY <3>1, <3>2
  <2>2. g \in [SUBSET DOMAIN uses -> D]
    BY <1>1, <1>4 DEF FoldsSets
  <2> QED BY <1>1, <2>1, <2>2
<1>7. iter = [t \in SUBSET DOMAIN uses |-> IF t = {} THEN base ELSE ReplaceUse(iter[t \ {Max(t)}], uses[Max(t)], replacement)]
  BY <1>6
<1>8. ReplaceUses(m, uses, replacement) = iter[1..n]
  BY <1>1 DEF ReplaceUses, ReplaceUse, FoldLeft, MapThenFoldSet, base
<1> HIDE DEF iter
<1>9. FoldsWithin(iter, n, D, base, op)
  BY <1>1, <1>3, <1>5, <1>7 DEF FoldsWithin
<1>10. PICK f : FoldsTo(iter[1..n], f, n, D, base, op)
  BY <1>1, <1>3, <1>9, FoldMeans
<1>11. ASSUME NEW k \in 1..n PROVE f[k] = ReplaceUse(f[k - 1], uses[k], replacement)
  <2>1. k - 1 \in 0..n
    BY <1>1
  <2> QED BY <1>3, <1>10, <2>1 DEF FoldsTo
<1> QED BY <1>1, <1>8, <1>10, <1>11 DEF n, D, base, FoldsTo

\* Each operand is what it was, or `to' where it was `from'.
Redirected(m, n, from, to) ==
    \A u \in AllUses(m) :
       OperandAt(n, u) = OperandAt(m, u) \/ (OperandAt(m, u) = from /\ OperandAt(n, u) = to)

\* replace_all_uses goes through to the end, and leaves no use of a value it replaces.
LEMMA ReplacingAll ==
    ASSUME NEW m \in Modules(Types), Agrees(m), NEW from \in Handles, NEW replacement \in Handles
    PROVE  LET e == ReplaceAllUses(m, from, replacement)
           IN  /\ e.ir \in Modules(Types) /\ Agrees(e.ir) /\ SameShape(m, e.ir)
               /\ Redirected(m, e.ir, from, replacement)
               /\ e.answer # "ok" => e.ir = m
               /\ e.bumps > 0 <=> e.ir # m
<1> DEFINE e == ReplaceAllUses(m, from, replacement)
           uses == UsesOf(m, from)
           n == Len(uses)
<1>0. SameShape(m, m) /\ Redirected(m, m, from, replacement)
  BY DEF SameShape, Redirected
<1>1. CASE ~(/\ Resolves(m.values, from) /\ Resolves(m.values, replacement)
             /\ Value(m, from).ty = Value(m, replacement).ty)
  <2>1. e.ir = m /\ e.bumps = 0
    BY <1>1 DEF ReplaceAllUses, Refuse
  <2> QED BY <1>0, <2>1
<1>2. CASE /\ Resolves(m.values, from) /\ Resolves(m.values, replacement)
           /\ Value(m, from).ty = Value(m, replacement).ty
  <2>1. from \in Values(m) /\ replacement \in Values(m)
    BY <1>2, ModuleHandles
  <2>2. uses \in Seq(UseEntries) /\ n \in Nat /\ DOMAIN uses = 1..n
    BY <2>1, ValueFields DEF UsesOf
  <2>3. e = ReplaceUses(m, uses, replacement)
    BY <1>2 DEF ReplaceAllUses, UsesOf
  <2>4. PICK f \in [0..n -> Outcomes] :
           /\ f[0] = Ok(m, 0) /\ f[n] = ReplaceUses(m, uses, replacement)
           /\ \A k \in 1..n : f[k] = ReplaceUse(f[k - 1], uses[k], replacement)
    BY <2>2, ReplaceFold
  <2>5. \A j \in 1..n : uses[j] \in AllUses(m) /\ OperandAt(m, uses[j]) = from /\ LinkAt(m, uses[j]) = j
    BY <2>1, <2>2, AgreementSplits DEF UsesAgree
  <2>6. \A j, l \in 1..n : uses[j] = uses[l] => j = l
    BY <2>5
  <2> HIDE DEF uses, n, e
  <2>7. CASE from = replacement
    <3> DEFINE P == {k \in Nat : k <= n => f[k] = Ok(m, 0)}
    <3>1. 0 \in P
      BY <2>4
    <3>2. ASSUME NEW k \in Nat, k \in P PROVE k + 1 \in P
      <4> SUFFICES ASSUME k + 1 <= n PROVE f[k + 1] = Ok(m, 0)
        OBVIOUS
      <4>1. k + 1 \in 1..n /\ (k + 1) - 1 = k /\ f[k] = Ok(m, 0)
        BY <2>2, <3>2
      <4>2. f[k + 1] = ReplaceUse(Ok(m, 0), uses[k + 1], replacement)
        BY <2>4, <4>1
      <4>3. ReplaceOperand(m, uses[k + 1].user, uses[k + 1].index, replacement) = Ok(m, 0)
        BY <2>1, <2>5, <2>7, <4>1, Replaced
      <4> QED BY <4>2, <4>3 DEF ReplaceUse, Ok
    <3> HIDE DEF P
    <3>3. n \in P
      BY <2>2, <3>1, <3>2, NumbersBySteps
    <3>4. e = Ok(m, 0)
      BY <2>2, <2>3, <2>4, <3>3 DEF P
    <3> QED BY <1>0, <3>4 DEF Ok, e
  <2>8. CASE from # replacement
    <3> DEFINE Reached(k) ==
                 /\ f[k].answer = "ok" /\ f[k].bumps = k
                 /\ f[k].ir \in Modules(Types) /\ Agrees(f[k].ir) /\ SameShape(m, f[k].ir)
                 /\ Redirected(m, f[k].ir, from, replacement)
                 /\ \A j \in 1..n : OperandAt(f[k].ir, uses[j]) = IF j <= k THEN replacement ELSE from
               P == {k \in Nat : k <= n => Reached(k)}
    <3>1. 0 \in P
      <4>1. f[0].answer = "ok" /\ f[0].bumps = 0 /\ f[0].ir = m
        BY <2>4 DEF Ok
      <4> QED BY <1>0, <2>2, <2>5, <4>1
    <3>2. ASSUME NEW k \in Nat, k \in P PROVE k + 1 \in P
      <4> SUFFICES ASSUME k + 1 <= n PROVE Reached(k + 1)
        OBVIOUS
      <4> DEFINE c == f[k].ir
                 w == uses[k + 1]
      <4>1. k + 1 \in 1..n /\ (k + 1) - 1 = k /\ k <= n
        BY <2>2
      <4>2. Reached(k)
        BY <3>2, <4>1
      <4>3. c \in Modules(Types) /\ Agrees(c) /\ SameShape(m, c) /\ Owned(m)
        BY <4>2, AgreementSplits
      <4>4. AllUses(c) = AllUses(m) /\ Values(c) = Values(m)
        BY <4>3, ShapeOwns DEF SameShape
      <4>5. w \in AllUses(c) /\ OperandAt(c, w) = from
        BY <2>5, <4>1, <4>2, <4>4
      <4>6. Value(c, from).ty = Value(c, replacement).ty
        BY <1>2, <2>1, <4>3 DEF SameShape
      <4>7. ReplaceOperand(c, w.user, w.index, replacement) = Ok(Rewired(c, w, replacement), 1)
        BY <2>1, <2>8, <4>3, <4>4, <4>5, <4>6, Replaced
      <4>8. f[k + 1] = [answer |-> "ok", ir |-> Rewired(c, w, replacement), bumps |-> k + 1]
        <5>1. f[k + 1] = ReplaceUse(f[k], w, replacement)
          BY <2>4, <4>1
        <5>2. f[k].answer = "ok" /\ f[k].bumps = k
          BY <4>2
        <5> HIDE DEF w
        <5>3. f[k + 1] = [Ok(Rewired(c, w, replacement), 1) EXCEPT !.bumps = @ + k]
          BY <4>7, <5>1, <5>2 DEF ReplaceUse
        <5> QED BY <5>3 DEF Ok
      <4>9. LET d == Rewired(c, w, replacement)
            IN  /\ d \in Modules(Types) /\ SameShape(c, d) /\ Agrees(d)
                /\ OperandAt(d, w) = replacement
                /\ \A u \in AllUses(c) : u # w => OperandAt(d, u) = OperandAt(c, u)
        BY <2>1, <4>3, <4>4, <4>5, Rewiring
      <4>10. SameShape(m, Rewired(c, w, replacement))
        BY <4>3, <4>9, ShapesChain
      <4>11. ASSUME NEW j \in 1..n
             PROVE  OperandAt(Rewired(c, w, replacement), uses[j]) = IF j <= k + 1 THEN replacement ELSE from
        <5>1. uses[j] \in AllUses(c) /\ OperandAt(c, uses[j]) = IF j <= k THEN replacement ELSE from
          BY <2>5, <4>2, <4>4
        <5>2. CASE j = k + 1
          BY <4>9, <5>2
        <5>3. CASE j # k + 1
          <6>1. uses[j] # w
            BY <2>6, <4>1, <5>3
          <6>2. j <= k + 1 <=> j <= k
            BY <2>2, <5>3
          <6> QED BY <4>9, <5>1, <6>1, <6>2
        <5> QED BY <5>2, <5>3
      <4>12. Redirected(m, Rewired(c, w, replacement), from, replacement)
        <5> SUFFICES ASSUME NEW u \in AllUses(m)
                     PROVE  \/ OperandAt(Rewired(c, w, replacement), u) = OperandAt(m, u)
                            \/ /\ OperandAt(m, u) = from
                               /\ OperandAt(Rewired(c, w, replacement), u) = replacement
          BY DEF Redirected
        <5>1. CASE u = w
          BY <2>5, <4>1, <4>9, <5>1
        <5>2. CASE u # w
          <6>1. OperandAt(c, u) = OperandAt(m, u) \/ (OperandAt(m, u) = from /\ OperandAt(c, u) = replacement)
            BY <4>2 DEF Redirected
          <6> QED BY <4>4, <4>9, <5>2, <6>1
        <5> QED BY <5>1, <5>2
      <4> QED BY <4>8, <4>9, <4>10, <4>11, <4>12
    <3> HIDE DEF P
    <3>3. n \in P
      BY <2>2, <3>1, <3>2, NumbersBySteps
    <3>4. Reached(n) /\ e = f[n]
      BY <2>2, <2>3, <2>4, <3>3 DEF P
    <3>5. e.ir # m <=> n > 0
      <4>1. CASE n = 0
        <5>1. e = Ok(m, 0)
          BY <2>4, <3>4, <4>1
        <5> QED BY <4>1, <5>1 DEF Ok
      <4>2. CASE n # 0
        <5>1. 1 \in 1..n /\ 1 <= n /\ n > 0
          BY <2>2, <4>2
        <5>2. OperandAt(e.ir, uses[1]) = replacement /\ OperandAt(m, uses[1]) = from
          BY <2>5, <3>4, <5>1
        <5> QED BY <2>8, <5>1, <5>2
      <4> QED BY <4>1, <4>2
    <3> QED BY <3>4, <3>5 DEF e
  <2> QED BY <2>7, <2>8
<1> QED BY <1>1, <1>2

-----------------------------------------------------------------------------
(* New values: the results of an operation, the arguments of a block.        *)

LEMMA NewValueTyped ==
    ASSUME NEW ty \in Types, NEW owner \in Handles, NEW i \in Nat
    PROVE  /\ NewValue(ty, Result(owner, i)) \in ValueData(Types)
           /\ NewValue(ty, Argument(owner, i)) \in ValueData(Types)
BY DEF NewValue, Result, Argument, ValueData

DefineResult(n, o, i, ty) ==
    LET v == NextHandle(n.values) IN
    WithOperation([n EXCEPT !.values = InsertInto(@, NewValue(ty, Result(o, i)))],
                  o, [Operation(n, o) EXCEPT !.results = Append(@, v)])

\* n is m with the value v defined as result i of o, in a place of its own.
HasResult(m, n, o, i, ty, v) ==
    /\ n \in Modules(Types)
    /\ n.regions = m.regions /\ n.blocks = m.blocks /\ n.attached = m.attached
    /\ Operations(n) = Operations(m)
    /\ Operation(n, o) = [Operation(m, o) EXCEPT !.results = Append(@, v)]
    /\ \A p \in Operations(m) : p # o => Operation(n, p) = Operation(m, p)
    /\ v \in Handles /\ v \notin Values(m) /\ Values(n) = Values(m) \cup {v}
    /\ Value(n, v) = NewValue(ty, Result(o, i))
    /\ \A w \in Values(m) : Value(n, w) = Value(m, w)

LEMMA ResultDefined ==
    ASSUME NEW m \in Modules(Types), NEW o \in Operations(m), NEW i \in Nat, NEW ty \in Types
    PROVE  HasResult(m, DefineResult(m, o, i, ty), o, i, ty, NextHandle(m.values))
<1> DEFINE v == NextHandle(m.values)
           x == NewValue(ty, Result(o, i))
           m1 == [m EXCEPT !.values = InsertInto(@, x)]
           y == [Operation(m, o) EXCEPT !.results = Append(@, v)]
           n == DefineResult(m, o, i, ty)
<1>1. x \in ValueData(Types)
  BY ModuleHandles, NewValueTyped
<1>2. n = WithOperation(m1, o, y)
  BY DEF DefineResult
<1> HIDE DEF x
<1>3. /\ m1 \in Modules(Types) /\ Changed(m, m1, "values") /\ Puts(m.values, m1.values, v, x)
      /\ v \in Handles /\ v \notin Values(m)
  BY <1>1, ValueInserted
<1> HIDE DEF m1, v
<1>4. y \in OperationData
  <2>1. Operation(m, o) \in OperationData /\ Operation(m, o).results \in Seq(Handles)
    BY OperationFields
  <2>2. Append(Operation(m, o).results, v) \in Seq(Handles)
    BY <1>3, <2>1, AppendedTo
  <2> QED BY <2>1, <2>2 DEF OperationData
<1> HIDE DEF y, n
<1>5. m1.operations = m.operations /\ o \in Operations(m1)
  BY <1>3 DEF Changed, Operations
<1>6. n \in Modules(Types) /\ Changed(m1, n, "operations") /\ Puts(m1.operations, n.operations, o, y)
  BY <1>2, <1>3, <1>4, <1>5, OperationStored
<1>7. n.regions = m.regions /\ n.blocks = m.blocks /\ n.attached = m.attached /\ n.values = m1.values
  BY <1>3, <1>6 DEF Changed
<1>8. /\ Operations(n) = Operations(m) /\ Operation(n, o) = y
      /\ \A p \in Operations(m) : p # o => Operation(n, p) = Operation(m, p)
  BY <1>5, <1>6 DEF Puts, Operations, Operation
<1>9. /\ Values(n) = Values(m) \cup {v} /\ Value(n, v) = x
      /\ \A w \in Values(m) : Value(n, w) = Value(m, w)
  BY <1>3, <1>7 DEF Puts, Values, Value
<1> QED BY <1>3, <1>6, <1>7, <1>8, <1>9 DEF n, v, x, y, HasResult

LEMMA ResultsFold ==
    ASSUME NEW m \in Modules(Types), NEW o \in Operations(m), NEW types \in Seq(Types)
    PROVE  \E f \in [0..Len(types) -> Modules(Types)] :
              /\ f[0] = m /\ f[Len(types)] = DefineResults(m, o, types)
              /\ \A k \in 0..Len(types) : o \in Operations(f[k])
              /\ \A k \in 1..Len(types) : f[k] = DefineResult(f[k - 1], o, k, types[k])
<1> DEFINE n == Len(types)
           D == {d \in Modules(Types) : o \in Operations(d)}
           op == [p \in D \X (1..n) |-> DefineResult(p[1], o, p[2], types[p[2]])]
           seq == [i \in DOMAIN types |-> i]
           iter == CHOOSE iter : iter = [t \in SUBSET DOMAIN seq |->
                      IF t = {} THEN m ELSE DefineResult(iter[t \ {Max(t)}], o, seq[Max(t)], types[seq[Max(t)]])]
<1>1. n \in Nat /\ DOMAIN types = 1..n /\ m \in D /\ DOMAIN seq = 1..n /\ \A i \in 1..n : seq[i] = i
  OBVIOUS
<1>2. ASSUME NEW d \in D, NEW i \in 1..n PROVE DefineResult(d, o, i, types[i]) \in D
  <2>1. types[i] \in Types /\ i \in Nat /\ d \in Modules(Types) /\ o \in Operations(d)
    BY <1>1
  <2> QED BY <2>1, ResultDefined DEF HasResult
<1>3. op \in [D \X (1..n) -> D] /\ \A d \in D, i \in 1..n : op[<<d, i>>] = DefineResult(d, o, i, types[i])
  BY <1>2
<1> HIDE DEF op, D, n, seq
<1>4. PICK g : FoldsSets(g, n, D, m, op)
  BY <1>1, <1>3, FoldExists
<1>5. ASSUME NEW t \in SUBSET (1..n), t # {}
      PROVE  Max(t) \in 1..n /\ t \ {Max(t)} \in SUBSET (1..n) /\ seq[Max(t)] = Max(t)
  BY <1>1, <1>5, MaxOfIndices
<1>6. g = [t \in SUBSET DOMAIN seq |->
             IF t = {} THEN m ELSE DefineResult(g[t \ {Max(t)}], o, seq[Max(t)], types[seq[Max(t)]])]
  <2>1. ASSUME NEW t \in SUBSET (1..n)
        PROVE  g[t] = IF t = {} THEN m ELSE DefineResult(g[t \ {Max(t)}], o, seq[Max(t)], types[seq[Max(t)]])
    <3>1. g[t] = IF t = {} THEN m ELSE op[<<g[t \ {Max(t)}], Max(t)>>]
      BY <1>4 DEF FoldsSets
    <3>2. CASE t # {}
      <4>1. Max(t) \in 1..n /\ t \ {Max(t)} \in SUBSET (1..n) /\ seq[Max(t)] = Max(t)
        BY <1>5, <3>2
      <4>2. g[t \ {Max(t)}] \in D
        BY <1>4, <4>1 DEF FoldsSets
      <4> QED BY <1>3, <3>1, <3>2, <4>1, <4>2
    <3> QED BY <3>1, <3>2
  <2>2. g \in [SUBSET DOMAIN seq -> D]
    BY <1>1, <1>4 DEF FoldsSets
  <2> QED BY <1>1, <2>1, <2>2
<1>7. iter = [t \in SUBSET DOMAIN seq |->
                IF t = {} THEN m ELSE DefineResult(iter[t \ {Max(t)}], o, seq[Max(t)], types[seq[Max(t)]])]
  BY <1>6
<1>8. DefineResults(m, o, types) = iter[1..n]
  BY <1>1 DEF DefineResults, DefineResult, FoldLeftDomain, FoldLeft, MapThenFoldSet, seq
<1> HIDE DEF iter
<1>9. FoldsWithin(iter, n, D, m, op)
  <2>1. iter[{}] = m
    BY <1>1, <1>7
  <2>2. ASSUME NEW t \in SUBSET (1..n), t # {}, iter[t \ {Max(t)}] \in D
        PROVE  iter[t] = op[<<iter[t \ {Max(t)}], Max(t)>>]
    <3>1. iter[t] = DefineResult(iter[t \ {Max(t)}], o, seq[Max(t)], types[seq[Max(t)]])
      BY <1>1, <1>7, <2>2
    <3>2. Max(t) \in 1..n /\ seq[Max(t)] = Max(t)
      BY <1>5, <2>2
    <3> QED BY <1>3, <2>2, <3>1, <3>2
  <2> QED BY <2>1, <2>2 DEF FoldsWithin
<1>10. PICK f : FoldsTo(iter[1..n], f, n, D, m, op)
  BY <1>1, <1>3, <1>9, FoldMeans
<1>11. ASSUME NEW k \in 1..n PROVE f[k] = DefineResult(f[k - 1], o, k, types[k])
  <2>1. k - 1 \in 0..n
    BY <1>1
  <2> QED BY <1>3, <1>10, <2>1 DEF FoldsTo
<1>12. f \in [0..n -> Modules(Types)] /\ \A k \in 0..n : o \in Operations(f[k])
  BY <1>10 DEF FoldsTo, D
<1> QED BY <1>1, <1>8, <1>10, <1>11, <1>12 DEF n, FoldsTo

\* n is m with the results of o defined, one for each of types.
ResultsAdded(m, n, o, types) ==
    /\ n \in Modules(Types)
    /\ n.regions = m.regions /\ n.blocks = m.blocks /\ n.attached = m.attached
    /\ Operations(n) = Operations(m)
    /\ \A p \in Operations(m) : p # o => Operation(n, p) = Operation(m, p)
    /\ Operation(n, o) = [Operation(m, o) EXCEPT !.results = Operation(n, o).results]
    /\ DOMAIN Operation(n, o).results = 1..Len(types)
    /\ Values(n) = Values(m) \cup Range(Operation(n, o).results)
    /\ \A j \in 1..Len(types) :
          /\ Operation(n, o).results[j] \notin Values(m)
          /\ Value(n, Operation(n, o).results[j]) = NewValue(types[j], Result(o, j))
    /\ \A v \in Values(m) : Value(n, v) = Value(m, v)

LEMMA ResultsAreAdded ==
    ASSUME NEW m \in Modules(Types), NEW o \in Operations(m), NEW types \in Seq(Types),
           Operation(m, o).results = <<>>
    PROVE  ResultsAdded(m, DefineResults(m, o, types), o, types)
<1> DEFINE n == Len(types)
<1>1. n \in Nat /\ DOMAIN types = 1..n
  OBVIOUS
<1>2. PICK f \in [0..n -> Modules(Types)] :
              /\ f[0] = m /\ f[n] = DefineResults(m, o, types)
              /\ \A k \in 0..n : o \in Operations(f[k])
              /\ \A k \in 1..n : f[k] = DefineResult(f[k - 1], o, k, types[k])
  BY ResultsFold
<1> DEFINE r(k) == Operation(f[k], o).results
           Added(k) ==
             /\ f[k].regions = m.regions /\ f[k].blocks = m.blocks /\ f[k].attached = m.attached
             /\ Operations(f[k]) = Operations(m)
             /\ \A p \in Operations(m) : p # o => Operation(f[k], p) = Operation(m, p)
             /\ Operation(f[k], o) = [Operation(m, o) EXCEPT !.results = r(k)]
             /\ r(k) \in Seq(Handles) /\ Len(r(k)) = k
             /\ Values(f[k]) = Values(m) \cup Range(r(k))
             /\ \A j \in 1..k : r(k)[j] \notin Values(m) /\ Value(f[k], r(k)[j]) = NewValue(types[j], Result(o, j))
             /\ \A v \in Values(m) : Value(f[k], v) = Value(m, v)
           P == {k \in Nat : k <= n => Added(k)}
<1>3. 0 \in P
  <2>1. Operation(m, o) = [Operation(m, o) EXCEPT !.results = <<>>]
    BY OperationFields DEF OperationData
  <2>2. r(0) = <<>> /\ f[0] = m
    BY <1>2
  <2>3. Range(<<>>) = {} /\ Len(<<>>) = 0 /\ <<>> \in Seq(Handles)
    BY DEF Range
  <2> HIDE DEF r
  <2> QED BY <2>1, <2>2, <2>3
<1>4. ASSUME NEW k \in Nat, k \in P PROVE k + 1 \in P
  <2> SUFFICES ASSUME k + 1 <= n PROVE Added(k + 1)
    OBVIOUS
  <2> DEFINE c == f[k]
             d == f[k + 1]
             v == NextHandle(c.values)
  <2>1. k + 1 \in 1..n /\ k \in 0..n /\ k + 1 \in 0..n /\ (k + 1) - 1 = k /\ k + 1 \in Nat
    BY <1>1
  <2>2. Added(k)
    BY <1>4, <2>1
  <2>3. d = DefineResult(c, o, k + 1, types[k + 1]) /\ types[k + 1] \in Types /\ c \in Modules(Types) /\ o \in Operations(c)
    BY <1>1, <1>2, <2>1
  <2>4. /\ d.regions = c.regions /\ d.blocks = c.blocks /\ d.attached = c.attached
        /\ Operations(d) = Operations(c)
        /\ Operation(d, o) = [Operation(c, o) EXCEPT !.results = Append(@, v)]
        /\ \A p \in Operations(c) : p # o => Operation(d, p) = Operation(c, p)
        /\ v \in Handles /\ v \notin Values(c) /\ Values(d) = Values(c) \cup {v}
        /\ Value(d, v) = NewValue(types[k + 1], Result(o, k + 1))
        /\ \A w \in Values(c) : Value(d, w) = Value(c, w)
    <3>1. k + 1 \in Nat
      OBVIOUS
    <3> DEFINE i == k + 1
               ty == types[k + 1]
    <3>2. d = DefineResult(c, o, i, ty) /\ i \in Nat /\ ty \in Types /\ c \in Modules(Types) /\ o \in Operations(c)
      BY <2>3, <3>1
    <3> HIDE DEF c, d, i, ty
    <3>3. HasResult(c, d, o, i, ty, NextHandle(c.values))
      BY <3>2, ResultDefined
    <3> HIDE DEF v
    <3>4. HasResult(c, d, o, k + 1, types[k + 1], v)
      BY <3>3 DEF i, ty, v
    <3> QED BY <3>4 DEF HasResult
  <2> HIDE DEF c, d, v
  <2>5. r(k + 1) = Append(r(k), v) /\ Operation(d, o) = [Operation(m, o) EXCEPT !.results = r(k + 1)]
    <3>1. Operation(c, o) = [Operation(m, o) EXCEPT !.results = r(k)] /\ Operation(m, o) \in OperationData
      BY <2>2, OperationFields DEF c
    <3>2. Operation(c, o).results = r(k)
      BY DEF c
    <3>3. Operation(d, o) = [Operation(m, o) EXCEPT !.results = Append(r(k), v)]
      <4> HIDE DEF r
      <4> QED BY <2>4, <3>1, <3>2 DEF OperationData
    <3>4. Operation(d, o).results = Append(r(k), v)
      <4> HIDE DEF r
      <4> QED BY <3>1, <3>3 DEF OperationData
    <3> QED BY <3>3, <3>4 DEF d
  <2> HIDE DEF r
  <2>6. /\ r(k) \in Seq(Handles) /\ Len(r(k)) = k
        /\ Values(c) = Values(m) \cup Range(r(k))
        /\ \A j \in 1..k : r(k)[j] \notin Values(m) /\ Value(c, r(k)[j]) = NewValue(types[j], Result(o, j))
        /\ \A w \in Values(m) : Value(c, w) = Value(m, w)
    BY <2>2 DEF c
  <2>7. /\ r(k + 1) \in Seq(Handles) /\ Len(r(k + 1)) = k + 1
        /\ DOMAIN r(k) = 1..k /\ DOMAIN r(k + 1) = 1..(k + 1)
        /\ r(k + 1)[k + 1] = v /\ \A j \in 1..k : r(k + 1)[j] = r(k)[j]
    <3>1. DOMAIN r(k) = 1..k
      BY <2>6
    <3>2. /\ Append(r(k), v) \in Seq(Handles) /\ Len(Append(r(k), v)) = Len(r(k)) + 1
          /\ DOMAIN Append(r(k), v) = 1..(Len(r(k)) + 1)
          /\ Append(r(k), v)[Len(r(k)) + 1] = v
          /\ \A j \in 1..Len(r(k)) : Append(r(k), v)[j] = r(k)[j]
      BY <2>4, <2>6, AppendedTo
    <3> QED BY <2>5, <2>6, <3>1, <3>2
  <2>8. \A j \in 1..(k + 1) : j = k + 1 \/ j \in 1..k
    OBVIOUS
  <2>9. Range(r(k + 1)) = Range(r(k)) \cup {v}
    BY <2>1, <2>7, <2>8, SMTT(40) DEF Range
  <2>10. Values(d) = Values(m) \cup Range(r(k + 1))
    BY <2>4, <2>6, <2>9
  <2>11. ASSUME NEW j \in 1..(k + 1)
         PROVE  r(k + 1)[j] \notin Values(m) /\ Value(d, r(k + 1)[j]) = NewValue(types[j], Result(o, j))
    <3>1. CASE j = k + 1
      BY <2>4, <2>6, <2>7, <3>1
    <3>2. CASE j \in 1..k
      <4>1. r(k)[j] \in Values(c)
        BY <2>6, <2>7, <3>2 DEF Range
      <4> QED BY <2>4, <2>6, <2>7, <3>2, <4>1
    <3> QED BY <2>8, <3>1, <3>2
  <2>12. \A w \in Values(m) : Value(d, w) = Value(m, w)
    BY <2>4, <2>6
  <2>13. /\ d.regions = m.regions /\ d.blocks = m.blocks /\ d.attached = m.attached
         /\ Operations(d) = Operations(m)
         /\ \A p \in Operations(m) : p # o => Operation(d, p) = Operation(m, p)
    BY <2>2, <2>4 DEF c
  <2> QED BY <2>5, <2>7, <2>10, <2>11, <2>12, <2>13 DEF d
<1> HIDE DEF P
<1>5. n \in P
  BY <1>1, <1>3, <1>4, NumbersBySteps
<1>6. Added(n) /\ f[n] \in Modules(Types)
  BY <1>1, <1>2, <1>5 DEF P
<1>7. DOMAIN r(n) = 1..n
  BY <1>6
<1> QED BY <1>2, <1>6, <1>7 DEF ResultsAdded

-----------------------------------------------------------------------------
(* Linking the operands of a new operation.                                  *)

\* Linked uses stay so when operations without linked operands and values without uses
\* come in addition.
LEMMA UsesGrow ==
    ASSUME NEW m, NEW n, NEW linked, UsesAgree(m, linked),
           Operations(m) \subseteq Operations(n), Values(m) \subseteq Values(n),
           \A o \in Operations(m) : /\ Operation(n, o).operands = Operation(m, o).operands
                                    /\ Operation(n, o).links = Operation(m, o).links,
           \A v \in Values(m) : UsesOf(n, v) = UsesOf(m, v),
           \A v \in Values(n) \ Values(m) : UsesOf(n, v) = <<>>
    PROVE  UsesAgree(n, linked)
<1>1. \A u : HasOperand(m, u) => /\ HasOperand(n, u) /\ OperandAt(n, u) = OperandAt(m, u)
                                 /\ LinkAt(n, u) = LinkAt(m, u)
  BY DEF HasOperand, OperandAt, LinkAt
<1>2. ASSUME NEW u \in linked
      PROVE  /\ HasOperand(n, u) /\ OperandAt(n, u) \in Values(n)
             /\ LinkAt(n, u) \in DOMAIN UsesOf(n, OperandAt(n, u))
             /\ UsesOf(n, OperandAt(n, u))[LinkAt(n, u)] = u
  <2>1. /\ HasOperand(m, u) /\ OperandAt(m, u) \in Values(m)
        /\ LinkAt(m, u) \in DOMAIN UsesOf(m, OperandAt(m, u))
        /\ UsesOf(m, OperandAt(m, u))[LinkAt(m, u)] = u
    BY DEF UsesAgree
  <2> QED BY <1>1, <2>1
<1>3. ASSUME NEW v \in Values(n), NEW k \in DOMAIN UsesOf(n, v)
      PROVE  /\ UsesOf(n, v)[k] \in linked
             /\ OperandAt(n, UsesOf(n, v)[k]) = v
             /\ LinkAt(n, UsesOf(n, v)[k]) = k
  <2>1. v \in Values(m) /\ UsesOf(n, v) = UsesOf(m, v)
    BY <1>3
  <2>2. /\ UsesOf(m, v)[k] \in linked /\ OperandAt(m, UsesOf(m, v)[k]) = v
        /\ LinkAt(m, UsesOf(m, v)[k]) = k
    BY <1>3, <2>1 DEF UsesAgree
  <2>3. HasOperand(m, UsesOf(m, v)[k])
    BY <2>2 DEF UsesAgree
  <2> QED BY <1>1, <2>1, <2>2, <2>3
<1> QED BY <1>2, <1>3 DEF UsesAgree

LEMMA LinkFold ==
    ASSUME NEW m \in Modules(Types), NEW o \in Operations(m), NEW operands \in Seq(Values(m)),
           \A i \in 1..Len(operands) : HasOperand(m, Use(o, i))
    PROVE  \E f \in [0..Len(operands) -> {d \in Modules(Types) : SameShape(m, d)}] :
              /\ f[0] = m /\ f[Len(operands)] = LinkOperands(m, o, operands)
              /\ \A k \in 1..Len(operands) : f[k] = LinkUse(f[k - 1], o, k, operands[k])
<1> DEFINE n == Len(operands)
           D == {d \in Modules(Types) : SameShape(m, d)}
           op == [p \in D \X (1..n) |-> LinkUse(p[1], o, p[2], operands[p[2]])]
           seq == [i \in DOMAIN operands |-> i]
           iter == CHOOSE iter : iter = [t \in SUBSET DOMAIN seq |->
                      IF t = {} THEN m ELSE LinkUse(iter[t \ {Max(t)}], o, seq[Max(t)], operands[seq[Max(t)]])]
<1>1. n \in Nat /\ DOMAIN operands = 1..n /\ m \in D /\ DOMAIN seq = 1..n /\ \A i \in 1..n : seq[i] = i
  <2>1. SameShape(m, m)
    BY DEF SameShape
  <2> QED BY <2>1
<1>2. ASSUME NEW d \in D, NEW i \in 1..n PROVE LinkUse(d, o, i, operands[i]) \in D
  <2> DEFINE w == Use(o, i)
             v == operands[i]
             e == LinkUse(d, o, i, v)
  <2>1. d \in Modules(Types) /\ SameShape(m, d) /\ HasOperand(d, w) /\ v \in Values(d)
    BY <1>1, SameOperands DEF SameShape
  <2>2. w.user = o /\ w.index = i
    BY DEF Use
  <2> HIDE DEF w, v
  <2>3. e \in Modules(Types) /\ SameShape(d, e)
    BY <2>1, <2>2, LinkStored
  <2>4. SameShape(m, e)
    BY <2>1, <2>3, ShapesChain
  <2> QED BY <2>3, <2>4 DEF v
<1>3. op \in [D \X (1..n) -> D] /\ \A d \in D, i \in 1..n : op[<<d, i>>] = LinkUse(d, o, i, operands[i])
  BY <1>2
<1> HIDE DEF op, D, n, seq
<1>4. PICK g : FoldsSets(g, n, D, m, op)
  BY <1>1, <1>3, FoldExists
<1>5. ASSUME NEW t \in SUBSET (1..n), t # {}
      PROVE  Max(t) \in 1..n /\ t \ {Max(t)} \in SUBSET (1..n) /\ seq[Max(t)] = Max(t)
  BY <1>1, <1>5, MaxOfIndices
<1>6. g = [t \in SUBSET DOMAIN seq |->
             IF t = {} THEN m ELSE LinkUse(g[t \ {Max(t)}], o, seq[Max(t)], operands[seq[Max(t)]])]
  <2>1. ASSUME NEW t \in SUBSET (1..n)
        PROVE  g[t] = IF t = {} THEN m ELSE LinkUse(g[t \ {Max(t)}], o, seq[Max(t)], operands[seq[Max(t)]])
    <3>1. g[t] = IF t = {} THEN m ELSE op[<<g[t \ {Max(t)}], Max(t)>>]
      BY <1>4 DEF FoldsSets
    <3>2. CASE t # {}
      <4>1. Max(t) \in 1..n /\ t \ {Max(t)} \in SUBSET (1..n) /\ seq[Max(t)] = Max(t)
        BY <1>5, <3>2
      <4>2. g[t \ {Max(t)}] \in D
        BY <1>4, <4>1 DEF FoldsSets
      <4> QED BY <1>3, <3>1, <3>2, <4>1, <4>2
    <3> QED BY <3>1, <3>2
  <2>2. g \in [SUBSET DOMAIN seq -> D]
    BY <1>1, <1>4 DEF FoldsSets
  <2> QED BY <1>1, <2>1, <2>2
<1>7. iter = [t \in SUBSET DOMAIN seq |->
                IF t = {} THEN m ELSE LinkUse(iter[t \ {Max(t)}], o, seq[Max(t)], operands[seq[Max(t)]])]
  BY <1>6
<1>8. LinkOperands(m, o, operands) = iter[1..n]
  BY <1>1 DEF LinkOperands, FoldLeftDomain, FoldLeft, MapThenFoldSet, seq
<1> HIDE DEF iter
<1>9. FoldsWithin(iter, n, D, m, op)
  <2>1. iter[{}] = m
    BY <1>1, <1>7
  <2>2. ASSUME NEW t \in SUBSET (1..n), t # {}, iter[t \ {Max(t)}] \in D
        PROVE  iter[t] = op[<<iter[t \ {Max(t)}], Max(t)>>]
    <3>1. iter[t] = LinkUse(iter[t \ {Max(t)}], o, seq[Max(t)], operands[seq[Max(t)]])
      BY <1>1, <1>7, <2>2
    <3>2. Max(t) \in 1..n /\ seq[Max(t)] = Max(t)
      BY <1>5, <2>2
    <3> QED BY <1>3, <2>2, <3>1, <3>2
  <2> QED BY <2>1, <2>2 DEF FoldsWithin
<1>10. PICK f : FoldsTo(iter[1..n], f, n, D, m, op)
  BY <1>1, <1>3, <1>9, FoldMeans
<1>11. ASSUME NEW k \in 1..n PROVE f[k] = LinkUse(f[k - 1], o, k, operands[k])
  <2>1. k - 1 \in 0..n
    BY <1>1
  <2> QED BY <1>3, <1>10, <2>1 DEF FoldsTo
<1> QED BY <1>1, <1>8, <1>10, <1>11 DEF n, D, FoldsTo

\* o has the operands, none of which is linked.
AwaitsLinks(m, linked, o, operands) ==
    \A i \in 1..Len(operands) :
       /\ HasOperand(m, Use(o, i)) /\ Use(o, i) \notin linked
       /\ OperandAt(m, Use(o, i)) = operands[i]

KeepsOperands(m, n) == \A u : HasOperand(m, u) => OperandAt(n, u) = OperandAt(m, u)

LEMMA OperandsAreLinked ==
    ASSUME NEW m \in Modules(Types), NEW linked, UsesAgree(m, linked), NEW o \in Operations(m),
           NEW operands \in Seq(Values(m)), AwaitsLinks(m, linked, o, operands)
    PROVE  LET n == LinkOperands(m, o, operands)
           IN  /\ n \in Modules(Types) /\ SameShape(m, n) /\ KeepsOperands(m, n)
               /\ UsesAgree(n, linked \cup {Use(o, i) : i \in 1..Len(operands)})
<1> DEFINE len == Len(operands)
           D == {d \in Modules(Types) : SameShape(m, d)}
<1>1. len \in Nat /\ DOMAIN operands = 1..len
  OBVIOUS
<1>0. \A i \in 1..len : HasOperand(m, Use(o, i))
  BY DEF AwaitsLinks
<1>2. PICK f \in [0..len -> D] :
              /\ f[0] = m /\ f[len] = LinkOperands(m, o, operands)
              /\ \A k \in 1..len : f[k] = LinkUse(f[k - 1], o, k, operands[k])
  BY <1>0, LinkFold
<1> DEFINE done(k) == linked \cup {Use(o, i) : i \in 1..k}
           Kept(k) == KeepsOperands(m, f[k])
           P == {k \in Nat : k <= len => UsesAgree(f[k], done(k)) /\ Kept(k)}
<1>3. 0 \in P
  <2>1. done(0) = linked
    OBVIOUS
  <2>2. Kept(0)
    BY <1>2 DEF KeepsOperands
  <2> HIDE DEF done
  <2> QED BY <1>2, <2>1, <2>2
<1>4. ASSUME NEW k \in Nat, k \in P PROVE k + 1 \in P
  <2> SUFFICES ASSUME k + 1 <= len PROVE UsesAgree(f[k + 1], done(k + 1)) /\ Kept(k + 1)
    OBVIOUS
  <2> DEFINE c == f[k]
             w == Use(o, k + 1)
             v == operands[k + 1]
  <2>1. k + 1 \in 1..len /\ k \in 0..len /\ k + 1 \in 0..len /\ (k + 1) - 1 = k
    BY <1>1
  <2>2. UsesAgree(c, done(k)) /\ Kept(k)
    BY <1>4, <2>1
  <2>3. /\ f[k + 1] = LinkUse(c, w.user, w.index, v) /\ c \in Modules(Types) /\ SameShape(m, c)
        /\ v \in Values(m) /\ HasOperand(m, w) /\ w \notin linked /\ OperandAt(m, w) = v
    BY <1>1, <1>2, <2>1 DEF AwaitsLinks, Use
  <2>4. v \in Values(c) /\ HasOperand(c, w)
    BY <2>3, SameOperands DEF SameShape
  <2>5. w \notin done(k)
    <3>1. \A i \in 1..k : Use(o, i) # w
      BY DEF Use
    <3> HIDE DEF w
    <3> QED BY <2>3, <3>1
  <2>6. done(k) \cup {w} = done(k + 1)
    <3>1. \A i \in 1..(k + 1) : i \in 1..k \/ i = k + 1
      OBVIOUS
    <3>2. \A i \in 1..k : i \in 1..(k + 1)
      OBVIOUS
    <3>3. k + 1 \in 1..(k + 1)
      OBVIOUS
    <3> QED BY <3>1, <3>2, <3>3
  <2> HIDE DEF c, w, v, done
  <2>7. LET d == LinkUse(c, w.user, w.index, v)
        IN  /\ UsesAgree(d, done(k) \cup {w})
            /\ OperandAt(d, w) = v
            /\ \A u : HasOperand(c, u) /\ u # w => OperandAt(d, u) = OperandAt(c, u)
    BY <2>2, <2>3, <2>4, <2>5, Linking
  <2>8. Kept(k + 1)
    <3> SUFFICES ASSUME NEW u, HasOperand(m, u) PROVE OperandAt(f[k + 1], u) = OperandAt(m, u)
      BY DEF KeepsOperands
    <3>1. HasOperand(c, u)
      BY <2>3, SameOperands
    <3>2. OperandAt(c, u) = OperandAt(m, u)
      BY <2>2 DEF c, KeepsOperands
    <3> QED BY <2>3, <2>7, <3>1, <3>2
  <2> QED BY <2>3, <2>6, <2>7, <2>8
<1> HIDE DEF P
<1>5. len \in P
  BY <1>1, <1>3, <1>4, NumbersBySteps
<1>6. UsesAgree(f[len], done(len)) /\ Kept(len) /\ f[len] \in D
  BY <1>1, <1>2, <1>5 DEF P
<1> QED BY <1>2, <1>6

-----------------------------------------------------------------------------
(* A new operation.                                                          *)

OperationSpecs ==
    [operands : Seq(Handles), results : Seq(Types), successors : SUBSET Handles, terminator : BOOLEAN]

\* p does in n what it does in m.
Acts(m, n, p) ==
    /\ Operation(n, p).terminator = Operation(m, p).terminator
    /\ Operation(n, p).operands = Operation(m, p).operands
    /\ Operation(n, p).successors = Operation(m, p).successors

\* o does what its caller described.
Follows(n, o, spec) ==
    /\ Operation(n, o).terminator = spec.terminator
    /\ Operation(n, o).operands = spec.operands
    /\ Operation(n, o).successors = spec.successors

LEMMA SameLists ==
    ASSUME NEW m \in Modules(Types), NEW n \in Modules(Types), SameShape(m, n), NEW o \in Operations(m),
           Len(Operation(m, o).operands) = Len(Operation(m, o).links),
           KeepsOperands(m, n)
    PROVE  Operation(n, o).operands = Operation(m, o).operands
<1> DEFINE s == Operation(m, o).operands
           t == Operation(n, o).operands
<1>1. s \in Seq(Handles) /\ Operation(m, o).links \in Seq(Nat) /\ o \in Handles
  BY OperationFields, ModuleHandles
<1>2. o \in Operations(n) /\ Len(t) = Len(s)
  BY DEF SameShape
<1>3. t \in Seq(Handles)
  BY <1>2, OperationFields
<1>4. ASSUME NEW i \in 1..Len(s) PROVE t[i] = s[i]
  <2>1. i \in Nat /\ i \in DOMAIN s /\ i \in DOMAIN Operation(m, o).links
    BY <1>1
  <2>2. HasOperand(m, Use(o, i)) /\ Use(o, i).user = o /\ Use(o, i).index = i
    BY <1>1, <2>1, UseEntry DEF HasOperand
  <2>3. OperandAt(n, Use(o, i)) = OperandAt(m, Use(o, i))
    BY <2>2 DEF KeepsOperands
  <2> QED BY <2>2, <2>3 DEF OperandAt
<1> HIDE DEF s, t
<1>5. t = s
  BY <1>1, <1>2, <1>3, <1>4
<1> QED BY <1>5 DEF s, t

\* n is m with the operation o of block b and its results, all but its entry in b.
Made(m, n, b, o) ==
    /\ n \in Modules(Types)
    /\ n.regions = m.regions /\ n.attached = m.attached /\ Blocks(n) = Blocks(m)
    /\ \A c \in Blocks(m) : c # b => Block(n, c) = Block(m, c)
    /\ o \notin Operations(m) /\ Operations(n) = Operations(m) \cup {o}
    /\ \A p \in Operations(n) : Len(Operation(n, p).operands) = Len(Operation(n, p).links)
    /\ \A p \in Operations(m) :
          /\ Operation(n, p).parent = Operation(m, p).parent
          /\ Operation(n, p).results = Operation(m, p).results
          /\ Operation(n, p).regions = Operation(m, p).regions
          /\ Acts(m, n, p)
    /\ Operation(n, o).parent = b /\ Operation(n, o).regions = <<>>
    /\ Values(n) = Values(m) \cup Range(Operation(n, o).results)
    /\ \A j \in DOMAIN Operation(n, o).results :
          /\ Operation(n, o).results[j] \notin Values(m)
          /\ Value(n, Operation(n, o).results[j]).definition = Result(o, j)
    /\ \A v \in Values(m) : Value(n, v).definition = Value(m, v).definition
    /\ UsesAgree(n, AllUses(n))

\* The operation takes its place in the block.
LEMMA Placed ==
    ASSUME NEW m \in Modules(Types), Agrees(m), NEW b \in Blocks(m), NEW o \in Handles,
           NEW n1, Made(m, n1, b, o), NEW s \in Seq(Handles), IsInjective(s),
           Range(s) = Range(Block(m, b).operations) \cup {o}
    PROVE  LET n == WithBlock(n1, b, [Block(m, b) EXCEPT !.operations = s])
           IN  /\ Made(m, n, b, o) /\ Agrees(n) /\ Enlarges(m, n)
               /\ Block(n, b).operations = s /\ \A p : Operation(n, p) = Operation(n1, p)
<1> DEFINE x == [Block(m, b) EXCEPT !.operations = s]
           n == WithBlock(n1, b, x)
<1>1. /\ x \in BlockData /\ x.operations = s
      /\ x.parent = Block(m, b).parent /\ x.arguments = Block(m, b).arguments
  BY BlockFields DEF BlockData
<1> HIDE DEF x
<1>2. n1 \in Modules(Types) /\ b \in Blocks(n1)
  BY DEF Made
<1>3. n \in Modules(Types) /\ Changed(n1, n, "blocks") /\ Puts(n1.blocks, n.blocks, b, x)
  BY <1>1, <1>2, BlockStored
<1> HIDE DEF n
<1>4. n.regions = n1.regions /\ n.operations = n1.operations /\ n.values = n1.values /\ n.attached = n1.attached
  BY <1>3 DEF Changed
<1>5. /\ Operations(n) = Operations(n1) /\ Values(n) = Values(n1)
      /\ \A p : Operation(n, p) = Operation(n1, p)
      /\ \A v : Value(n, v) = Value(n1, v)
  BY <1>4 DEF Operations, Operation, Values, Value
<1>6. /\ Blocks(n) = Blocks(n1) /\ Block(n, b) = x
      /\ \A c \in Blocks(n1) : c # b => Block(n, c) = Block(n1, c)
  BY <1>2, <1>3 DEF Puts, Blocks, Block
<1>7. AllUses(n) = AllUses(n1) /\ UsesAgree(n, AllUses(n))
  <2>1. \A u : HasOperand(n, u) <=> HasOperand(n1, u)
    BY <1>5 DEF HasOperand
  <2>2. AllUses(n) = AllUses(n1)
    BY <2>1 DEF AllUses
  <2>3. UsesAgree(n1, AllUses(n1))
    BY DEF Made
  <2>4. UsesAgree(n, AllUses(n1))
    <3>1. \A v \in Values(n1) : UsesOf(n, v) = UsesOf(n1, v)
      BY <1>5 DEF UsesOf
    <3> QED BY <1>5, <2>3, <3>1, UsesGrow
  <2> QED BY <2>2, <2>4
<1>8. Made(m, n, b, o)
  <2>1. \A p \in Operations(m) : Acts(m, n, p)
    BY <1>5 DEF Made, Acts
  <2> QED BY <1>3, <1>4, <1>5, <1>6, <1>7, <2>1 DEF Made
<1>9. /\ Regions(n) = Regions(m) /\ \A r : Region(n, r) = Region(m, r)
      /\ Blocks(n) = Blocks(m)
      /\ \A c \in Blocks(m) : Block(n, c).parent = Block(m, c).parent /\ Block(n, c).arguments = Block(m, c).arguments
      /\ \A c \in Blocks(m) : c # b => Block(n, c).operations = Block(m, c).operations
      /\ Block(n, b).operations = s
  <2>1. Regions(n) = Regions(m) /\ \A r : Region(n, r) = Region(m, r)
    BY <1>8 DEF Made, Regions, Region
  <2> QED BY <1>1, <1>6, <1>8, <2>1 DEF Made
<1>10. /\ RegionsAgree(m) /\ BlocksAgree(m) /\ PlacesAgree(m) /\ DefinitionsAgree(m)
  BY AgreementSplits DEF Owned
<1>11. RegionsAgree(n)
  BY <1>8, <1>9, <1>10 DEF RegionsAgree, Made
<1>12. BlocksAgree(n)
  <2> SUFFICES ASSUME NEW c \in Blocks(m)
               PROVE  /\ Block(n, c).parent \in Regions(n) /\ c \in Range(Region(n, Block(n, c).parent).blocks)
                      /\ \A i \in DOMAIN Block(n, c).arguments :
                            /\ Block(n, c).arguments[i] \in Values(n)
                            /\ Value(n, Block(n, c).arguments[i]).definition = Argument(c, i)
                      /\ IsInjective(Block(n, c).operations)
                      /\ \A p \in Range(Block(n, c).operations) : p \in Operations(n) /\ Operation(n, p).parent = c
    BY <1>9 DEF BlocksAgree
  <2>1. /\ Block(m, c).parent \in Regions(m) /\ c \in Range(Region(m, Block(m, c).parent).blocks)
        /\ \A i \in DOMAIN Block(m, c).arguments :
              /\ Block(m, c).arguments[i] \in Values(m)
              /\ Value(m, Block(m, c).arguments[i]).definition = Argument(c, i)
        /\ IsInjective(Block(m, c).operations)
        /\ \A p \in Range(Block(m, c).operations) : p \in Operations(m) /\ Operation(m, p).parent = c
    BY <1>10 DEF BlocksAgree
  <2>2. \A i \in DOMAIN Block(n, c).arguments :
           /\ Block(n, c).arguments[i] \in Values(n)
           /\ Value(n, Block(n, c).arguments[i]).definition = Argument(c, i)
    BY <1>8, <1>9, <2>1 DEF Made
  <2>3. IsInjective(Block(n, c).operations)
    BY <1>9, <2>1
  <2>4. ASSUME NEW p \in Range(Block(n, c).operations) PROVE p \in Operations(n) /\ Operation(n, p).parent = c
    BY <1>8, <1>9, <2>1 DEF Made
  <2> QED BY <1>9, <2>1, <2>2, <2>3, <2>4
<1>13. PlacesAgree(n)
  <2> SUFFICES ASSUME NEW p \in Operations(n)
               PROVE  LET op == Operation(n, p) IN
                      /\ op.parent \in Blocks(n) /\ p \in Range(Block(n, op.parent).operations)
                      /\ Len(op.operands) = Len(op.links)
                      /\ \A i \in DOMAIN op.results :
                            op.results[i] \in Values(n) /\ Value(n, op.results[i]).definition = Result(p, i)
                      /\ \A r \in Range(op.regions) : r \in Regions(n) /\ Region(n, r).parent = p
    BY DEF PlacesAgree
  <2>1. Len(Operation(n, p).operands) = Len(Operation(n, p).links)
    BY <1>8 DEF Made
  <2>2. CASE p = o
    <3>1. Operation(n, o).parent \in Blocks(n) /\ o \in Range(Block(n, Operation(n, o).parent).operations)
      BY <1>8, <1>9 DEF Made
    <3>2. \A i \in DOMAIN Operation(n, o).results :
             /\ Operation(n, o).results[i] \in Values(n)
             /\ Value(n, Operation(n, o).results[i]).definition = Result(o, i)
      BY <1>8 DEF Made, Range
    <3>3. Range(Operation(n, o).regions) = {}
      BY <1>8 DEF Made, Range
    <3> QED BY <2>1, <2>2, <3>1, <3>2, <3>3
  <2>3. CASE p \in Operations(m)
    <3>1. LET op == Operation(m, p) IN
          /\ op.parent \in Blocks(m) /\ p \in Range(Block(m, op.parent).operations)
          /\ \A i \in DOMAIN op.results :
                op.results[i] \in Values(m) /\ Value(m, op.results[i]).definition = Result(p, i)
          /\ \A r \in Range(op.regions) : r \in Regions(m) /\ Region(m, r).parent = p
      BY <1>10, <2>3 DEF PlacesAgree
    <3>2. /\ Operation(n, p).parent = Operation(m, p).parent
          /\ Operation(n, p).results = Operation(m, p).results
          /\ Operation(n, p).regions = Operation(m, p).regions
      BY <1>8, <2>3 DEF Made
    <3>3. p \in Range(Block(n, Operation(m, p).parent).operations)
      BY <1>9, <3>1
    <3>4. Values(m) \subseteq Values(n) /\ \A v \in Values(m) : Value(n, v).definition = Value(m, v).definition
      BY <1>8 DEF Made
    <3> QED BY <1>9, <2>1, <3>1, <3>2, <3>3, <3>4
  <2> QED BY <1>8, <2>2, <2>3 DEF Made
<1>14. DefinitionsAgree(n)
  <2> SUFFICES ASSUME NEW v \in Values(n) PROVE DefinitionAgrees(n, v)
    BY DEF DefinitionsAgree
  <2>1. CASE v \in Values(m)
    <3>1. DefinitionAgrees(m, v) /\ Value(m, v).definition.kind \in {"argument", "result"}
      BY <1>10, <2>1, ValueFields DEF DefinitionsAgree, Definitions
    <3>2. Value(n, v).definition = Value(m, v).definition
      BY <1>8, <2>1 DEF Made
    <3>3. CASE Value(m, v).definition.kind = "argument"
      BY <1>9, <3>1, <3>2, <3>3 DEF DefinitionAgrees
    <3>4. CASE Value(m, v).definition.kind = "result"
      BY <1>8, <3>1, <3>2, <3>4 DEF DefinitionAgrees, Made
    <3> QED BY <3>1, <3>3, <3>4
  <2>2. CASE v \notin Values(m)
    <3>1. PICK j \in DOMAIN Operation(n, o).results : v = Operation(n, o).results[j]
      BY <1>8, <2>2 DEF Made, Range
    <3>2. Value(n, v).definition = Result(o, j) /\ o \in Operations(n)
      BY <1>8, <3>1 DEF Made
    <3> QED BY <3>1, <3>2 DEF DefinitionAgrees, Result
  <2> QED BY <2>1, <2>2
<1>15. Agrees(n)
  BY <1>3, <1>7, <1>11, <1>12, <1>13, <1>14, AgreementSplits DEF Owned
<1>16. Enlarges(m, n)
  <2>1. /\ n.attached = m.attached /\ Operations(n) = Operations(m) \cup {o}
        /\ \A p \in Operations(m) : Operation(n, p).parent = Operation(m, p).parent
        /\ Operation(n, o).parent = b
    BY <1>8 DEF Made
  <2>2. ListsRegionsOnce(m) => ListsRegionsOnce(n)
    <3>1. /\ \A p \in Operations(m) : Operation(n, p).regions = Operation(m, p).regions
          /\ Operation(n, o).regions = <<>>
      BY <1>8 DEF Made
    <3>2. IsInjective(<<>>)
      BY DEF IsInjective
    <3> QED BY <2>1, <3>1, <3>2 DEF ListsRegionsOnce
  <2> QED BY <1>9, <2>1, <2>2 DEF Enlarges
<1> QED BY <1>5, <1>8, <1>9, <1>15, <1>16 DEF n, x

Shell(b, spec) ==
    [parent |-> b, terminator |-> spec.terminator, operands |-> spec.operands,
     links |-> [i \in DOMAIN spec.operands |-> 0], results |-> <<>>,
     regions |-> <<>>, successors |-> spec.successors]

LEMMA ShellTyped ==
    ASSUME NEW b \in Handles, NEW spec \in OperationSpecs
    PROVE  Shell(b, spec) \in OperationData
<1>1. /\ spec.operands \in Seq(Handles) /\ spec.successors \in SUBSET Handles
      /\ spec.terminator \in BOOLEAN
  BY DEF OperationSpecs
<1>2. [i \in DOMAIN spec.operands |-> 0] \in Seq(Nat)
  <2>1. DOMAIN spec.operands = 1..Len(spec.operands) /\ Len(spec.operands) \in Nat
    BY <1>1
  <2> QED BY <2>1, IsSequence
<1> QED BY <1>1, <1>2 DEF Shell, OperationData

Inserted(m, b, spec) == [m EXCEPT !.operations = InsertInto(@, Shell(b, spec))]

LEMMA ShellInserted ==
    ASSUME NEW m \in Modules(Types), NEW b \in Handles, NEW spec \in OperationSpecs
    PROVE  LET n == Inserted(m, b, spec)
               o == NextHandle(m.operations)
           IN  /\ n \in Modules(Types) /\ o \in Handles /\ o \notin Operations(m)
               /\ n.regions = m.regions /\ n.blocks = m.blocks /\ n.values = m.values /\ n.attached = m.attached
               /\ Operations(n) = Operations(m) \cup {o} /\ Operation(n, o) = Shell(b, spec)
               /\ \A p \in Operations(m) : Operation(n, p) = Operation(m, p)
<1> DEFINE n == Inserted(m, b, spec)
           o == NextHandle(m.operations)
           x == Shell(b, spec)
<1>1. x \in OperationData
  BY ShellTyped
<1>2. n = [m EXCEPT !.operations = InsertInto(@, x)]
  BY DEF Inserted
<1> HIDE DEF n, x, o
<1>3. /\ n \in Modules(Types) /\ Changed(m, n, "operations") /\ Puts(m.operations, n.operations, o, x)
      /\ o \in Handles /\ o \notin Operations(m)
  BY <1>1, <1>2, OperationInserted DEF o
<1>4. n.regions = m.regions /\ n.blocks = m.blocks /\ n.values = m.values /\ n.attached = m.attached
  BY <1>3 DEF Changed
<1>5. /\ Operations(n) = Operations(m) \cup {o} /\ Operation(n, o) = x
      /\ \A p \in Operations(m) : Operation(n, p) = Operation(m, p)
  BY <1>3 DEF Puts, Operations, Operation
<1> QED BY <1>3, <1>4, <1>5 DEF n, x, o

Defined(m, b, spec) == DefineResults(Inserted(m, b, spec), NextHandle(m.operations), spec.results)

\* The operation with its results, its operands not yet linked.
LEMMA OperationDefined ==
    ASSUME NEW m \in Modules(Types), Agrees(m), NEW b \in Handles, NEW spec \in OperationSpecs
    PROVE  LET n == Defined(m, b, spec)
               o == NextHandle(m.operations)
           IN  /\ ResultsAdded(Inserted(m, b, spec), n, o, spec.results)
               /\ n.regions = m.regions /\ n.blocks = m.blocks /\ n.attached = m.attached
               /\ o \in Handles /\ o \notin Operations(m) /\ Operations(n) = Operations(m) \cup {o}
               /\ Operation(n, o) = [Shell(b, spec) EXCEPT !.results = Operation(n, o).results]
               /\ \A p \in Operations(m) : Operation(n, p) = Operation(m, p)
               /\ UsesAgree(n, AllUses(m))
<1> DEFINE n1 == Inserted(m, b, spec)
           n == Defined(m, b, spec)
           o == NextHandle(m.operations)
           types == spec.results
<1>1. /\ n1 \in Modules(Types) /\ o \in Handles /\ o \notin Operations(m)
      /\ n1.regions = m.regions /\ n1.blocks = m.blocks /\ n1.values = m.values /\ n1.attached = m.attached
      /\ Operations(n1) = Operations(m) \cup {o} /\ Operation(n1, o) = Shell(b, spec)
      /\ \A p \in Operations(m) : Operation(n1, p) = Operation(m, p)
  BY ShellInserted
<1>2. types \in Seq(Types) /\ Shell(b, spec).results = <<>>
  BY DEF OperationSpecs, Shell
<1>3. n = DefineResults(n1, o, types)
  BY DEF Defined
<1> HIDE DEF n1, n, o, types
<1>4. ResultsAdded(n1, n, o, types)
  <2>1. o \in Operations(n1) /\ Operation(n1, o).results = <<>>
    BY <1>1, <1>2
  <2> QED BY <1>1, <1>2, <1>3, <2>1, ResultsAreAdded
<1>5. /\ n.regions = m.regions /\ n.blocks = m.blocks /\ n.attached = m.attached
      /\ Operations(n) = Operations(m) \cup {o}
      /\ Operation(n, o) = [Shell(b, spec) EXCEPT !.results = Operation(n, o).results]
      /\ \A p \in Operations(m) : Operation(n, p) = Operation(m, p)
  BY <1>1, <1>4 DEF ResultsAdded
<1>6. UsesAgree(n, AllUses(m))
  <2>1. UsesAgree(m, AllUses(m))
    BY AgreementSplits
  <2>2. Values(n1) = Values(m) /\ \A v : Value(n1, v) = Value(m, v)
    BY <1>1 DEF Values, Value
  <2>3. Values(m) \subseteq Values(n) /\ \A v \in Values(m) : UsesOf(n, v) = UsesOf(m, v)
    BY <1>4, <2>2 DEF ResultsAdded, UsesOf
  <2>4. ASSUME NEW v \in Values(n) \ Values(m) PROVE UsesOf(n, v) = <<>>
    <3>1. PICK j \in 1..Len(types) : v = Operation(n, o).results[j]
      BY <1>4, <2>2 DEF ResultsAdded, Range
    <3>2. Value(n, v) = NewValue(types[j], Result(o, j))
      BY <1>4, <3>1 DEF ResultsAdded
    <3> QED BY <3>2 DEF UsesOf, NewValue
  <2> QED BY <1>5, <2>1, <2>3, <2>4, UsesGrow
<1> QED BY <1>1, <1>4, <1>5, <1>6 DEF n1, n, o, types

LEMMA OperationMade ==
    ASSUME NEW m \in Modules(Types), Agrees(m), NEW b \in Handles, NEW spec \in OperationSpecs,
           Range(spec.operands) \subseteq Values(m)
    PROVE  LET o == NextHandle(m.operations)
               n == LinkOperands(Defined(m, b, spec), o, spec.operands)
           IN  Made(m, n, b, o) /\ Follows(n, o, spec)
<1> DEFINE o == NextHandle(m.operations)
           n0 == Inserted(m, b, spec)
           n1 == Defined(m, b, spec)
           operands == spec.operands
           n == LinkOperands(n1, o, operands)
           len == Len(operands)
           mine == {Use(o, i) : i \in 1..len}
<1>1. /\ ResultsAdded(n0, n1, o, spec.results)
      /\ n1.regions = m.regions /\ n1.blocks = m.blocks /\ n1.attached = m.attached
      /\ o \in Handles /\ o \notin Operations(m) /\ Operations(n1) = Operations(m) \cup {o}
      /\ Operation(n1, o) = [Shell(b, spec) EXCEPT !.results = Operation(n1, o).results]
      /\ \A p \in Operations(m) : Operation(n1, p) = Operation(m, p)
      /\ UsesAgree(n1, AllUses(m))
  BY OperationDefined
<1>2. n0.values = m.values
  BY ShellInserted
<1>3. operands \in Seq(Handles) /\ len \in Nat /\ DOMAIN operands = 1..len
  BY DEF OperationSpecs
<1>4. /\ Operation(n1, o).parent = b /\ Operation(n1, o).regions = <<>>
      /\ Operation(n1, o).operands = operands /\ Len(Operation(n1, o).links) = len
      /\ DOMAIN Operation(n1, o).links = 1..len
      /\ Operation(n1, o).terminator = spec.terminator /\ Operation(n1, o).successors = spec.successors
  <2>1. /\ Operation(n1, o).parent = b /\ Operation(n1, o).regions = <<>>
        /\ Operation(n1, o).operands = operands
        /\ Operation(n1, o).links = [i \in DOMAIN operands |-> 0]
        /\ Operation(n1, o).terminator = spec.terminator /\ Operation(n1, o).successors = spec.successors
    <3> HIDE DEF n1, o
    <3> QED BY <1>1 DEF Shell
  <2>2. [i \in DOMAIN operands |-> 0] \in Seq(Nat)
    BY <1>3, IsSequence
  <2> QED BY <1>3, <2>1, <2>2
<1> HIDE DEF o, n0, n1, n, operands
<1>5. n1 \in Modules(Types)
  BY <1>1 DEF ResultsAdded
<1>6. /\ Values(n1) = Values(m) \cup Range(Operation(n1, o).results)
      /\ \A j \in DOMAIN Operation(n1, o).results :
            /\ Operation(n1, o).results[j] \notin Values(m)
            /\ Value(n1, Operation(n1, o).results[j]).definition = Result(o, j)
      /\ \A v \in Values(m) : Value(n1, v).definition = Value(m, v).definition
  <2>1. Values(n0) = Values(m) /\ \A v : Value(n0, v) = Value(m, v)
    BY <1>2 DEF Values, Value
  <2>2. /\ Values(n1) = Values(n0) \cup Range(Operation(n1, o).results)
        /\ \A v \in Values(n0) : Value(n1, v) = Value(n0, v)
    BY <1>1 DEF ResultsAdded
  <2>3. ASSUME NEW j \in DOMAIN Operation(n1, o).results
        PROVE  /\ Operation(n1, o).results[j] \notin Values(n0)
               /\ Value(n1, Operation(n1, o).results[j]).definition = Result(o, j)
    <3>1. /\ Operation(n1, o).results[j] \notin Values(n0)
          /\ Value(n1, Operation(n1, o).results[j]) = NewValue(spec.results[j], Result(o, j))
      BY <1>1, <2>3 DEF ResultsAdded
    <3> QED BY <3>1 DEF NewValue
  <2> QED BY <2>1, <2>2, <2>3
<1>7. AwaitsLinks(n1, AllUses(m), o, operands)
  <2>1. \A i \in 1..len : HasOperand(n1, Use(o, i)) /\ Use(o, i) \notin AllUses(m)
    BY <1>1, <1>3, <1>4, UseEntry DEF HasOperand, AllUses
  <2>2. \A i \in 1..len : OperandAt(n1, Use(o, i)) = operands[i]
    BY <1>4 DEF OperandAt, Use
  <2> QED BY <2>1, <2>2 DEF AwaitsLinks
<1>8. operands \in Seq(Values(n1)) /\ o \in Operations(n1)
  <2>1. \A i \in 1..len : operands[i] \in Values(n1)
    BY <1>3, <1>6 DEF Range, operands
  <2> QED BY <1>1, <1>3, <2>1
<1>9. /\ n \in Modules(Types) /\ SameShape(n1, n) /\ UsesAgree(n, AllUses(m) \cup mine)
      /\ KeepsOperands(n1, n)
  <2> HIDE DEF mine
  <2>1. UsesAgree(LinkOperands(n1, o, operands), AllUses(m) \cup {Use(o, i) : i \in 1..Len(operands)})
        /\ LinkOperands(n1, o, operands) \in Modules(Types) /\ SameShape(n1, LinkOperands(n1, o, operands))
        /\ KeepsOperands(n1, LinkOperands(n1, o, operands))
    BY <1>1, <1>5, <1>7, <1>8, OperandsAreLinked
  <2> QED BY <2>1 DEF n, mine
<1>10. AllUses(n) = AllUses(m) \cup mine
  <2>1. ASSUME NEW u PROVE HasOperand(n, u) <=> u \in AllUses(m) \cup mine
    <3>1. HasOperand(n, u) <=> HasOperand(n1, u)
      BY <1>5, <1>9, SameOperands
    <3>2. CASE u \in UseEntries /\ u.user = o
      <4>1. u = Use(o, u.index) /\ u.index \in Nat
        BY <3>2, UseEntry
      <4>2. HasOperand(n1, u) <=> u.index \in 1..len
        BY <1>1, <1>3, <1>4, <3>2 DEF HasOperand
      <4>3. u \notin AllUses(m)
        BY <1>1, <3>2 DEF AllUses, HasOperand
      <4>4. u \in mine <=> u.index \in 1..len
        BY <4>1 DEF Use
      <4> QED BY <3>1, <4>2, <4>3, <4>4
    <3>3. CASE u \in UseEntries /\ u.user # o
      <4>1. u \notin mine
        BY <3>3 DEF Use
      <4>2. HasOperand(n1, u) <=> HasOperand(m, u)
        BY <1>1, <3>3 DEF HasOperand
      <4> QED BY <3>1, <3>3, <4>1, <4>2 DEF AllUses
    <3>4. CASE u \notin UseEntries
      <4>1. mine \subseteq UseEntries
        BY <1>1, <1>3, UseEntry
      <4> QED BY <3>1, <3>4, <4>1 DEF HasOperand, AllUses
    <3> QED BY <3>2, <3>3, <3>4
  <2>2. \A u : u \in AllUses(n) <=> HasOperand(n, u)
    BY DEF AllUses, HasOperand
  <2> QED BY <2>1, <2>2
<1>11. UsesAgree(n, AllUses(n))
  BY <1>9, <1>10
<1>12. /\ n.regions = m.regions /\ n.attached = m.attached
       /\ Blocks(n) = Blocks(m) /\ \A c : Block(n, c) = Block(m, c)
  BY <1>1, <1>9 DEF SameShape, Blocks, Block
<1>13. ASSUME NEW p \in Operations(n)
       PROVE  /\ Len(Operation(n, p).operands) = Len(Operation(n, p).links)
              /\ Operation(n, p).operands = Operation(n1, p).operands
  <2>1. p \in Operations(n1) /\ Len(Operation(n, p).operands) = Len(Operation(n1, p).operands)
        /\ Len(Operation(n, p).links) = Len(Operation(n1, p).links)
    BY <1>9 DEF SameShape
  <2>2. Len(Operation(n1, p).operands) = Len(Operation(n1, p).links)
    <3>1. CASE p = o
      BY <1>4, <3>1
    <3>2. CASE p \in Operations(m)
      BY <1>1, <3>2 DEF Agrees, OperationsAgree
    <3> QED BY <1>1, <2>1, <3>1, <3>2
  <2>3. Operation(n, p).operands = Operation(n1, p).operands
    BY <1>5, <1>9, <2>1, <2>2, SameLists
  <2> QED BY <2>1, <2>2, <2>3
<1>14. \A p \in Operations(m) :
          /\ Operation(n, p).parent = Operation(m, p).parent
          /\ Operation(n, p).results = Operation(m, p).results
          /\ Operation(n, p).regions = Operation(m, p).regions
  BY <1>1, <1>9 DEF SameShape
<1>15. /\ Operation(n, o).parent = b /\ Operation(n, o).regions = <<>>
       /\ Operation(n, o).results = Operation(n1, o).results
  BY <1>1, <1>4, <1>9 DEF SameShape
<1>16. /\ Values(n) = Values(n1) /\ Operations(n) = Operations(n1)
       /\ \A v \in Values(n1) : Value(n, v).definition = Value(n1, v).definition
  BY <1>9 DEF SameShape
<1>17. /\ Values(n) = Values(m) \cup Range(Operation(n, o).results)
       /\ \A v \in Values(m) : Value(n, v).definition = Value(m, v).definition
  BY <1>6, <1>15, <1>16
<1>18. \A j \in DOMAIN Operation(n, o).results :
          /\ Operation(n, o).results[j] \notin Values(m)
          /\ Value(n, Operation(n, o).results[j]).definition = Result(o, j)
  BY <1>6, <1>15, <1>16 DEF Range
<1>19. \A p \in Operations(n1) :
          /\ Operation(n, p).terminator = Operation(n1, p).terminator
          /\ Operation(n, p).operands = Operation(n1, p).operands
          /\ Operation(n, p).successors = Operation(n1, p).successors
  BY <1>9, <1>13 DEF SameShape
<1>20. \A p \in Operations(m) : Acts(m, n, p)
  BY <1>1, <1>19 DEF Acts
<1>21. Follows(n, o, spec)
  <2>1. o \in Operations(n1)
    BY <1>1
  <2> QED BY <1>4, <1>19, <2>1 DEF Follows, operands
<1>22. Made(m, n, b, o)
  BY <1>1, <1>9, <1>11, <1>12, <1>13, <1>14, <1>15, <1>16, <1>17, <1>18, <1>20 DEF Made
<1> QED BY <1>21, <1>22 DEF n, n1, o, operands

-----------------------------------------------------------------------------
(* New arguments, likewise.                                                  *)

DefineArgument(n, b, i, ty) ==
    LET v == NextHandle(n.values) IN
    WithBlock([n EXCEPT !.values = InsertInto(@, NewValue(ty, Argument(b, i)))],
                  b, [Block(n, b) EXCEPT !.arguments = Append(@, v)])

\* n is m with the value v defined as argument i of b, in a place of its own.
HasArgument(m, n, b, i, ty, v) ==
    /\ n \in Modules(Types)
    /\ n.regions = m.regions /\ n.operations = m.operations /\ n.attached = m.attached
    /\ Blocks(n) = Blocks(m)
    /\ Block(n, b) = [Block(m, b) EXCEPT !.arguments = Append(@, v)]
    /\ \A p \in Blocks(m) : p # b => Block(n, p) = Block(m, p)
    /\ v \in Handles /\ v \notin Values(m) /\ Values(n) = Values(m) \cup {v}
    /\ Value(n, v) = NewValue(ty, Argument(b, i))
    /\ \A w \in Values(m) : Value(n, w) = Value(m, w)

LEMMA ArgumentDefined ==
    ASSUME NEW m \in Modules(Types), NEW b \in Blocks(m), NEW i \in Nat, NEW ty \in Types
    PROVE  HasArgument(m, DefineArgument(m, b, i, ty), b, i, ty, NextHandle(m.values))
<1> DEFINE v == NextHandle(m.values)
           x == NewValue(ty, Argument(b, i))
           m1 == [m EXCEPT !.values = InsertInto(@, x)]
           y == [Block(m, b) EXCEPT !.arguments = Append(@, v)]
           n == DefineArgument(m, b, i, ty)
<1>1. x \in ValueData(Types)
  BY ModuleHandles, NewValueTyped
<1>2. n = WithBlock(m1, b, y)
  BY DEF DefineArgument
<1> HIDE DEF x
<1>3. /\ m1 \in Modules(Types) /\ Changed(m, m1, "values") /\ Puts(m.values, m1.values, v, x)
      /\ v \in Handles /\ v \notin Values(m)
  BY <1>1, ValueInserted
<1> HIDE DEF m1, v
<1>4. y \in BlockData
  <2>1. Block(m, b) \in BlockData /\ Block(m, b).arguments \in Seq(Handles)
    BY BlockFields
  <2>2. Append(Block(m, b).arguments, v) \in Seq(Handles)
    BY <1>3, <2>1, AppendedTo
  <2> QED BY <2>1, <2>2 DEF BlockData
<1> HIDE DEF y, n
<1>5. m1.blocks = m.blocks /\ b \in Blocks(m1)
  BY <1>3 DEF Changed, Blocks
<1>6. n \in Modules(Types) /\ Changed(m1, n, "blocks") /\ Puts(m1.blocks, n.blocks, b, y)
  BY <1>2, <1>3, <1>4, <1>5, BlockStored
<1>7. n.regions = m.regions /\ n.operations = m.operations /\ n.attached = m.attached /\ n.values = m1.values
  BY <1>3, <1>6 DEF Changed
<1>8. /\ Blocks(n) = Blocks(m) /\ Block(n, b) = y
      /\ \A p \in Blocks(m) : p # b => Block(n, p) = Block(m, p)
  BY <1>5, <1>6 DEF Puts, Blocks, Block
<1>9. /\ Values(n) = Values(m) \cup {v} /\ Value(n, v) = x
      /\ \A w \in Values(m) : Value(n, w) = Value(m, w)
  BY <1>3, <1>7 DEF Puts, Values, Value
<1> QED BY <1>3, <1>6, <1>7, <1>8, <1>9 DEF n, v, x, y, HasArgument

LEMMA ArgumentsFold ==
    ASSUME NEW m \in Modules(Types), NEW b \in Blocks(m), NEW types \in Seq(Types)
    PROVE  \E f \in [0..Len(types) -> Modules(Types)] :
              /\ f[0] = m /\ f[Len(types)] = DefineArguments(m, b, types)
              /\ \A k \in 0..Len(types) : b \in Blocks(f[k])
              /\ \A k \in 1..Len(types) : f[k] = DefineArgument(f[k - 1], b, k, types[k])
<1> DEFINE n == Len(types)
           D == {d \in Modules(Types) : b \in Blocks(d)}
           op == [p \in D \X (1..n) |-> DefineArgument(p[1], b, p[2], types[p[2]])]
           seq == [i \in DOMAIN types |-> i]
           iter == CHOOSE iter : iter = [t \in SUBSET DOMAIN seq |->
                      IF t = {} THEN m ELSE DefineArgument(iter[t \ {Max(t)}], b, seq[Max(t)], types[seq[Max(t)]])]
<1>1. n \in Nat /\ DOMAIN types = 1..n /\ m \in D /\ DOMAIN seq = 1..n /\ \A i \in 1..n : seq[i] = i
  OBVIOUS
<1>2. ASSUME NEW d \in D, NEW i \in 1..n PROVE DefineArgument(d, b, i, types[i]) \in D
  <2>1. types[i] \in Types /\ i \in Nat /\ d \in Modules(Types) /\ b \in Blocks(d)
    BY <1>1
  <2> QED BY <2>1, ArgumentDefined DEF HasArgument
<1>3. op \in [D \X (1..n) -> D] /\ \A d \in D, i \in 1..n : op[<<d, i>>] = DefineArgument(d, b, i, types[i])
  BY <1>2
<1> HIDE DEF op, D, n, seq
<1>4. PICK g : FoldsSets(g, n, D, m, op)
  BY <1>1, <1>3, FoldExists
<1>5. ASSUME NEW t \in SUBSET (1..n), t # {}
      PROVE  Max(t) \in 1..n /\ t \ {Max(t)} \in SUBSET (1..n) /\ seq[Max(t)] = Max(t)
  BY <1>1, <1>5, MaxOfIndices
<1>6. g = [t \in SUBSET DOMAIN seq |->
             IF t = {} THEN m ELSE DefineArgument(g[t \ {Max(t)}], b, seq[Max(t)], types[seq[Max(t)]])]
  <2>1. ASSUME NEW t \in SUBSET (1..n)
        PROVE  g[t] = IF t = {} THEN m ELSE DefineArgument(g[t \ {Max(t)}], b, seq[Max(t)], types[seq[Max(t)]])
    <3>1. g[t] = IF t = {} THEN m ELSE op[<<g[t \ {Max(t)}], Max(t)>>]
      BY <1>4 DEF FoldsSets
    <3>2. CASE t # {}
      <4>1. Max(t) \in 1..n /\ t \ {Max(t)} \in SUBSET (1..n) /\ seq[Max(t)] = Max(t)
        BY <1>5, <3>2
      <4>2. g[t \ {Max(t)}] \in D
        BY <1>4, <4>1 DEF FoldsSets
      <4> QED BY <1>3, <3>1, <3>2, <4>1, <4>2
    <3> QED BY <3>1, <3>2
  <2>2. g \in [SUBSET DOMAIN seq -> D]
    BY <1>1, <1>4 DEF FoldsSets
  <2> QED BY <1>1, <2>1, <2>2
<1>7. iter = [t \in SUBSET DOMAIN seq |->
                IF t = {} THEN m ELSE DefineArgument(iter[t \ {Max(t)}], b, seq[Max(t)], types[seq[Max(t)]])]
  BY <1>6
<1>8. DefineArguments(m, b, types) = iter[1..n]
  BY <1>1 DEF DefineArguments, DefineArgument, FoldLeftDomain, FoldLeft, MapThenFoldSet, seq
<1> HIDE DEF iter
<1>9. FoldsWithin(iter, n, D, m, op)
  <2>1. iter[{}] = m
    BY <1>1, <1>7
  <2>2. ASSUME NEW t \in SUBSET (1..n), t # {}, iter[t \ {Max(t)}] \in D
        PROVE  iter[t] = op[<<iter[t \ {Max(t)}], Max(t)>>]
    <3>1. iter[t] = DefineArgument(iter[t \ {Max(t)}], b, seq[Max(t)], types[seq[Max(t)]])
      BY <1>1, <1>7, <2>2
    <3>2. Max(t) \in 1..n /\ seq[Max(t)] = Max(t)
      BY <1>5, <2>2
    <3> QED BY <1>3, <2>2, <3>1, <3>2
  <2> QED BY <2>1, <2>2 DEF FoldsWithin
<1>10. PICK f : FoldsTo(iter[1..n], f, n, D, m, op)
  BY <1>1, <1>3, <1>9, FoldMeans
<1>11. ASSUME NEW k \in 1..n PROVE f[k] = DefineArgument(f[k - 1], b, k, types[k])
  <2>1. k - 1 \in 0..n
    BY <1>1
  <2> QED BY <1>3, <1>10, <2>1 DEF FoldsTo
<1>12. f \in [0..n -> Modules(Types)] /\ \A k \in 0..n : b \in Blocks(f[k])
  BY <1>10 DEF FoldsTo, D
<1> QED BY <1>1, <1>8, <1>10, <1>11, <1>12 DEF n, FoldsTo

\* n is m with the arguments of b defined, one for each of types.
ArgumentsAdded(m, n, b, types) ==
    /\ n \in Modules(Types)
    /\ n.regions = m.regions /\ n.operations = m.operations /\ n.attached = m.attached
    /\ Blocks(n) = Blocks(m)
    /\ \A p \in Blocks(m) : p # b => Block(n, p) = Block(m, p)
    /\ Block(n, b) = [Block(m, b) EXCEPT !.arguments = Block(n, b).arguments]
    /\ DOMAIN Block(n, b).arguments = 1..Len(types)
    /\ Values(n) = Values(m) \cup Range(Block(n, b).arguments)
    /\ \A j \in 1..Len(types) :
          /\ Block(n, b).arguments[j] \notin Values(m)
          /\ Value(n, Block(n, b).arguments[j]) = NewValue(types[j], Argument(b, j))
    /\ \A v \in Values(m) : Value(n, v) = Value(m, v)

LEMMA ArgumentsAreAdded ==
    ASSUME NEW m \in Modules(Types), NEW b \in Blocks(m), NEW types \in Seq(Types),
           Block(m, b).arguments = <<>>
    PROVE  ArgumentsAdded(m, DefineArguments(m, b, types), b, types)
<1> DEFINE n == Len(types)
<1>1. n \in Nat /\ DOMAIN types = 1..n
  OBVIOUS
<1>2. PICK f \in [0..n -> Modules(Types)] :
              /\ f[0] = m /\ f[n] = DefineArguments(m, b, types)
              /\ \A k \in 0..n : b \in Blocks(f[k])
              /\ \A k \in 1..n : f[k] = DefineArgument(f[k - 1], b, k, types[k])
  BY ArgumentsFold
<1> DEFINE r(k) == Block(f[k], b).arguments
           Added(k) ==
             /\ f[k].regions = m.regions /\ f[k].operations = m.operations /\ f[k].attached = m.attached
             /\ Blocks(f[k]) = Blocks(m)
             /\ \A p \in Blocks(m) : p # b => Block(f[k], p) = Block(m, p)
             /\ Block(f[k], b) = [Block(m, b) EXCEPT !.arguments = r(k)]
             /\ r(k) \in Seq(Handles) /\ Len(r(k)) = k
             /\ Values(f[k]) = Values(m) \cup Range(r(k))
             /\ \A j \in 1..k : r(k)[j] \notin Values(m) /\ Value(f[k], r(k)[j]) = NewValue(types[j], Argument(b, j))
             /\ \A v \in Values(m) : Value(f[k], v) = Value(m, v)
           P == {k \in Nat : k <= n => Added(k)}
<1>3. 0 \in P
  <2>1. Block(m, b) = [Block(m, b) EXCEPT !.arguments = <<>>]
    BY BlockFields DEF BlockData
  <2>2. r(0) = <<>> /\ f[0] = m
    BY <1>2
  <2>3. Range(<<>>) = {} /\ Len(<<>>) = 0 /\ <<>> \in Seq(Handles)
    BY DEF Range
  <2> HIDE DEF r
  <2> QED BY <2>1, <2>2, <2>3, SMTT(40)
<1>4. ASSUME NEW k \in Nat, k \in P PROVE k + 1 \in P
  <2> SUFFICES ASSUME k + 1 <= n PROVE Added(k + 1)
    OBVIOUS
  <2> DEFINE c == f[k]
             d == f[k + 1]
             v == NextHandle(c.values)
  <2>1. k + 1 \in 1..n /\ k \in 0..n /\ k + 1 \in 0..n /\ (k + 1) - 1 = k /\ k + 1 \in Nat
    BY <1>1
  <2>2. Added(k)
    BY <1>4, <2>1
  <2>3. d = DefineArgument(c, b, k + 1, types[k + 1]) /\ types[k + 1] \in Types /\ c \in Modules(Types) /\ b \in Blocks(c)
    BY <1>1, <1>2, <2>1
  <2>4. /\ d.regions = c.regions /\ d.operations = c.operations /\ d.attached = c.attached
        /\ Blocks(d) = Blocks(c)
        /\ Block(d, b) = [Block(c, b) EXCEPT !.arguments = Append(@, v)]
        /\ \A p \in Blocks(c) : p # b => Block(d, p) = Block(c, p)
        /\ v \in Handles /\ v \notin Values(c) /\ Values(d) = Values(c) \cup {v}
        /\ Value(d, v) = NewValue(types[k + 1], Argument(b, k + 1))
        /\ \A w \in Values(c) : Value(d, w) = Value(c, w)
    <3>1. k + 1 \in Nat
      OBVIOUS
    <3> DEFINE i == k + 1
               ty == types[k + 1]
    <3>2. d = DefineArgument(c, b, i, ty) /\ i \in Nat /\ ty \in Types /\ c \in Modules(Types) /\ b \in Blocks(c)
      BY <2>3, <3>1
    <3> HIDE DEF c, d, i, ty
    <3>3. HasArgument(c, d, b, i, ty, NextHandle(c.values))
      BY <3>2, ArgumentDefined
    <3> HIDE DEF v
    <3>4. HasArgument(c, d, b, k + 1, types[k + 1], v)
      BY <3>3 DEF i, ty, v
    <3> QED BY <3>4 DEF HasArgument
  <2> HIDE DEF c, d, v
  <2>5. r(k + 1) = Append(r(k), v) /\ Block(d, b) = [Block(m, b) EXCEPT !.arguments = r(k + 1)]
    <3>1. Block(c, b) = [Block(m, b) EXCEPT !.arguments = r(k)] /\ Block(m, b) \in BlockData
      BY <2>2, BlockFields DEF c
    <3>2. Block(c, b).arguments = r(k)
      BY DEF c
    <3>3. Block(d, b) = [Block(m, b) EXCEPT !.arguments = Append(r(k), v)]
      <4> HIDE DEF r
      <4> QED BY <2>4, <3>1, <3>2 DEF BlockData
    <3>4. Block(d, b).arguments = Append(r(k), v)
      <4> HIDE DEF r
      <4> QED BY <3>1, <3>3 DEF BlockData
    <3> QED BY <3>3, <3>4 DEF d
  <2> HIDE DEF r
  <2>6. /\ r(k) \in Seq(Handles) /\ Len(r(k)) = k
        /\ Values(c) = Values(m) \cup Range(r(k))
        /\ \A j \in 1..k : r(k)[j] \notin Values(m) /\ Value(c, r(k)[j]) = NewValue(types[j], Argument(b, j))
        /\ \A w \in Values(m) : Value(c, w) = Value(m, w)
    BY <2>2 DEF c
  <2>7. /\ r(k + 1) \in Seq(Handles) /\ Len(r(k + 1)) = k + 1
        /\ DOMAIN r(k) = 1..k /\ DOMAIN r(k + 1) = 1..(k + 1)
        /\ r(k + 1)[k + 1] = v /\ \A j \in 1..k : r(k + 1)[j] = r(k)[j]
    <3>1. DOMAIN r(k) = 1..k
      BY <2>6
    <3>2. /\ Append(r(k), v) \in Seq(Handles) /\ Len(Append(r(k), v)) = Len(r(k)) + 1
          /\ DOMAIN Append(r(k), v) = 1..(Len(r(k)) + 1)
          /\ Append(r(k), v)[Len(r(k)) + 1] = v
          /\ \A j \in 1..Len(r(k)) : Append(r(k), v)[j] = r(k)[j]
      BY <2>4, <2>6, AppendedTo
    <3> QED BY <2>5, <2>6, <3>1, <3>2
  <2>8. \A j \in 1..(k + 1) : j = k + 1 \/ j \in 1..k
    OBVIOUS
  <2>9. Range(r(k + 1)) = Range(r(k)) \cup {v}
    BY <2>1, <2>7, <2>8, SMTT(40) DEF Range
  <2>10. Values(d) = Values(m) \cup Range(r(k + 1))
    BY <2>4, <2>6, <2>9
  <2>11. ASSUME NEW j \in 1..(k + 1)
         PROVE  r(k + 1)[j] \notin Values(m) /\ Value(d, r(k + 1)[j]) = NewValue(types[j], Argument(b, j))
    <3>1. CASE j = k + 1
      BY <2>4, <2>6, <2>7, <3>1
    <3>2. CASE j \in 1..k
      <4>1. r(k)[j] \in Values(c)
        BY <2>6, <2>7, <3>2 DEF Range
      <4> QED BY <2>4, <2>6, <2>7, <3>2, <4>1
    <3> QED BY <2>8, <3>1, <3>2
  <2>12. \A w \in Values(m) : Value(d, w) = Value(m, w)
    BY <2>4, <2>6
  <2>13. /\ d.regions = m.regions /\ d.operations = m.operations /\ d.attached = m.attached
         /\ Blocks(d) = Blocks(m)
         /\ \A p \in Blocks(m) : p # b => Block(d, p) = Block(m, p)
    BY <2>2, <2>4 DEF c
  <2> QED BY <2>5, <2>7, <2>10, <2>11, <2>12, <2>13 DEF d
<1> HIDE DEF P
<1>5. n \in P
  BY <1>1, <1>3, <1>4, NumbersBySteps
<1>6. Added(n) /\ f[n] \in Modules(Types)
  BY <1>1, <1>2, <1>5 DEF P
<1>7. DOMAIN r(n) = 1..n
  BY <1>6
<1> QED BY <1>2, <1>6, <1>7 DEF ArgumentsAdded

-----------------------------------------------------------------------------
(* Appending and inserting operations.                                       *)

\* The operations of a block, of which a new one is none.
LEMMA BlockOperations ==
    ASSUME NEW m \in Modules(Types), Agrees(m), NEW b \in Blocks(m)
    PROVE  /\ Block(m, b).operations \in Seq(Handles) /\ IsInjective(Block(m, b).operations)
           /\ Range(Block(m, b).operations) \subseteq Operations(m)
<1>1. Block(m, b).operations \in Seq(Handles)
  BY BlockFields
<1> QED BY <1>1 DEF Agrees, BlocksAgree

LEMMA Appending ==
    ASSUME NEW m \in Modules(Types), Agrees(m), NEW b \in Handles, NEW spec \in OperationSpecs
    PROVE  LET e == AppendOperation(m, b, spec)
           IN  /\ e.ir \in Modules(Types) /\ Agrees(e.ir) /\ Enlarges(m, e.ir)
               /\ e.answer # "ok" => e.ir = m
               /\ e.answer = "ok" =>
                     /\ b \in Blocks(m) /\ Made(m, e.ir, b, NextHandle(m.operations))
                     /\ Follows(e.ir, NextHandle(m.operations), spec)
<1> DEFINE e == AppendOperation(m, b, spec)
           o == NextHandle(m.operations)
           linked == LinkOperands(Defined(m, b, spec), o, spec.operands)
           ops == Block(m, b).operations
           n == WithBlock(linked, b, [Block(m, b) EXCEPT !.operations = Append(ops, o)])
<1>1. CASE /\ Resolves(m.blocks, b) /\ \A v \in Range(spec.operands) : Resolves(m.values, v)
           /\ \A s \in spec.successors : Resolves(m.blocks, s)
  <2>1. e = [answer |-> "ok", ir |-> n, bumps |-> 1]
    BY <1>1 DEF AppendOperation, Defined, Inserted, Shell, Ok
  <2>2. b \in Blocks(m)
    BY <1>1, ModuleHandles
  <2>3. Range(spec.operands) \subseteq Values(m)
    <3>1. spec.operands \in Seq(Handles)
      BY DEF OperationSpecs
    <3>2. Range(spec.operands) \subseteq Handles
      BY <3>1 DEF Range
    <3> QED BY <1>1, <3>2, ModuleHandles
  <2>4. Made(m, linked, b, o) /\ Follows(linked, o, spec) /\ o \in Handles
    BY <2>3, OperationMade, OperationDefined
  <2>5. ops \in Seq(Handles) /\ IsInjective(ops) /\ o \notin Range(ops)
    BY <2>2, <2>4, BlockOperations DEF Made
  <2> HIDE DEF e, o, linked
  <2>6. Append(ops, o) \in Seq(Handles) /\ IsInjective(Append(ops, o)) /\ Range(Append(ops, o)) = Range(ops) \cup {o}
    <3> HIDE DEF ops
    <3> QED BY <2>4, <2>5, AppendedOnce
  <2> DEFINE s == Append(ops, o)
  <2>7. s \in Seq(Handles) /\ IsInjective(s) /\ Range(s) = Range(Block(m, b).operations) \cup {o}
    BY <2>6
  <2>8. n = WithBlock(linked, b, [Block(m, b) EXCEPT !.operations = s])
    OBVIOUS
  <2> HIDE DEF s, n
  <2>9. Made(m, n, b, o) /\ Agrees(n) /\ Enlarges(m, n) /\ Operation(n, o) = Operation(linked, o)
    BY <2>2, <2>4, <2>7, <2>8, Placed
  <2>10. Follows(n, o, spec)
    BY <2>4, <2>9 DEF Follows
  <2> QED BY <2>1, <2>2, <2>9, <2>10 DEF Made, e, o
<1>2. CASE ~(/\ Resolves(m.blocks, b) /\ \A v \in Range(spec.operands) : Resolves(m.values, v)
             /\ \A s \in spec.successors : Resolves(m.blocks, s))
  <2>1. e.ir = m /\ e.answer \in {"UnknownBlock", "UnknownValue", "UnknownSuccessor"}
    BY <1>2 DEF AppendOperation, Refuse
  <2> HIDE DEF e
  <2> QED BY <2>1, SameIsLarge DEF e
<1> QED BY <1>1, <1>2

LEMMA PositionFound ==
    ASSUME NEW m \in Modules(Types), Agrees(m), NEW o \in Operations(m)
    PROVE  LET ops == Block(m, Operation(m, o).parent).operations
           IN  Position(m, o) \in DOMAIN ops /\ ops[Position(m, o)] = o
<1> DEFINE ops == Block(m, Operation(m, o).parent).operations
<1>1. o \in Range(ops)
  BY DEF Agrees, OperationsAgree
<1>2. \E i \in DOMAIN ops : ops[i] = o
  BY <1>1 DEF Range
<1> QED BY <1>2 DEF Position

\* n is m with the operation o that spec describes right before the anchor.
PutBefore(m, n, anchor, o, spec) ==
    LET b == Operation(m, anchor).parent IN
    /\ Made(m, n, b, o) /\ Follows(n, o, spec)
    /\ Block(n, b).operations = InsertAt(Block(m, b).operations, Position(m, anchor), o)

LEMMA InsertingBefore ==
    ASSUME NEW m \in Modules(Types), Agrees(m), NEW anchor \in Handles, NEW spec \in OperationSpecs
    PROVE  LET e == InsertOperationBefore(m, anchor, spec)
           IN  /\ e.ir \in Modules(Types) /\ Agrees(e.ir) /\ Enlarges(m, e.ir)
               /\ e.answer # "ok" => e.ir = m
               /\ e.answer = "ok" => PutBefore(m, e.ir, anchor, NextHandle(m.operations), spec)
<1> DEFINE e == InsertOperationBefore(m, anchor, spec)
           b == Operation(m, anchor).parent
           appended == AppendOperation(m, b, spec)
           ops == Block(m, b).operations
           o == NextHandle(m.operations)
           s == InsertAt(ops, Position(m, anchor), o)
           n == WithBlock(appended.ir, b, [Block(m, b) EXCEPT !.operations = s])
<1>1. CASE ~Resolves(m.operations, anchor)
  <2>1. e.ir = m /\ e.answer = "UnknownOperation"
    BY <1>1 DEF InsertOperationBefore, Refuse
  <2> QED BY <2>1, SameIsLarge
<1>2. CASE Resolves(m.operations, anchor)
  <2>1. anchor \in Operations(m) /\ b \in Handles
    BY <1>2, ModuleHandles, OperationFields
  <2>2. /\ appended.ir \in Modules(Types) /\ Agrees(appended.ir) /\ Enlarges(m, appended.ir)
        /\ appended.answer # "ok" => appended.ir = m
        /\ appended.answer = "ok" =>
              b \in Blocks(m) /\ Made(m, appended.ir, b, o) /\ Follows(appended.ir, o, spec)
    <3> HIDE DEF b
    <3> QED BY <2>1, Appending
  <2>3. CASE appended.answer # "ok"
    <3>1. e = appended
      BY <1>2, <2>3 DEF InsertOperationBefore
    <3> QED BY <2>2, <2>3, <3>1
  <2>4. CASE appended.answer = "ok"
    <3>1. e = [answer |-> "ok", ir |-> n, bumps |-> 2]
      BY <1>2, <2>4 DEF InsertOperationBefore, Ok
    <3>2. b \in Blocks(m) /\ Made(m, appended.ir, b, o) /\ Follows(appended.ir, o, spec)
      BY <2>2, <2>4
    <3>3. o \in Handles
      BY ShellInserted, <2>1
    <3>4. ops \in Seq(Handles) /\ IsInjective(ops) /\ o \notin Range(ops)
      BY <3>2, BlockOperations DEF Made
    <3>5. Position(m, anchor) \in 1..Len(ops)
      BY <2>1, <3>4, PositionFound
    <3>6. s \in Seq(Handles) /\ IsInjective(s) /\ Range(s) = Range(ops) \cup {o}
      <4> HIDE DEF ops, o
      <4> QED BY <3>3, <3>4, <3>5, InsertedOnce
    <3>7. Range(s) = Range(Block(m, b).operations) \cup {o}
      BY <3>6
    <3> DEFINE n1 == appended.ir
    <3>8. n = WithBlock(n1, b, [Block(m, b) EXCEPT !.operations = s]) /\ Made(m, n1, b, o) /\ Follows(n1, o, spec)
      BY <3>2
    <3> HIDE DEF e, n, s, n1, o, b
    <3>9. /\ Made(m, n, b, o) /\ Agrees(n) /\ Enlarges(m, n)
          /\ Block(n, b).operations = s /\ Operation(n, o) = Operation(n1, o)
      BY <3>2, <3>3, <3>6, <3>7, <3>8, Placed
    <3>10. Follows(n, o, spec)
      BY <3>8, <3>9 DEF Follows
    <3>11. PutBefore(m, n, anchor, o, spec)
      BY <3>9, <3>10 DEF PutBefore, b, s
    <3>12. n \in Modules(Types)
      BY <3>9 DEF Made
    <3> QED BY <3>1, <3>9, <3>11, <3>12 DEF e, o
  <2> QED BY <2>3, <2>4
<1> QED BY <1>1, <1>2

-----------------------------------------------------------------------------
(* New regions and blocks.                                                   *)

LEMMA AddingRegion ==
    ASSUME NEW m \in Modules(Types), Agrees(m), NEW o \in Handles
    PROVE  LET e == AddRegion(m, o)
           IN  /\ e.ir \in Modules(Types) /\ Agrees(e.ir) /\ Enlarges(m, e.ir)
               /\ e.answer # "ok" => e.ir = m
<1> DEFINE e == AddRegion(m, o)
           r == NextHandle(m.regions)
           n1 == [m EXCEPT !.regions = InsertInto(@, NewRegion(o))]
           x == [Operation(m, o) EXCEPT !.regions = Append(@, r)]
           n == WithOperation(n1, o, x)
<1>1. CASE ~Resolves(m.operations, o)
  <2>1. e.ir = m
    BY <1>1 DEF AddRegion, Refuse
  <2> QED BY <2>1, SameIsLarge
<1>2. CASE Resolves(m.operations, o)
  <2>1. e = [answer |-> "ok", ir |-> n, bumps |-> 1]
    BY <1>2 DEF AddRegion, Ok
  <2>2. o \in Operations(m) /\ o # ModuleOwned
    BY <1>2, ModuleHandles
  <2>3. NewRegion(o) \in RegionData /\ NewRegion(o).parent = o /\ NewRegion(o).blocks = <<>>
    BY DEF NewRegion, RegionData
  <2>4. /\ n1 \in Modules(Types) /\ Changed(m, n1, "regions")
        /\ Puts(m.regions, n1.regions, r, NewRegion(o)) /\ r \in Handles /\ r \notin Regions(m)
    BY <2>3, RegionInserted
  <2>5. /\ x \in OperationData /\ x.regions = Append(Operation(m, o).regions, r)
        /\ x.parent = Operation(m, o).parent /\ x.results = Operation(m, o).results
        /\ x.operands = Operation(m, o).operands /\ x.links = Operation(m, o).links
    <3>1. Operation(m, o) \in OperationData /\ Operation(m, o).regions \in Seq(Handles)
      BY <2>2, OperationFields
    <3>2. Append(Operation(m, o).regions, r) \in Seq(Handles)
      BY <2>4, <3>1, AppendedTo
    <3> HIDE DEF r
    <3> QED BY <3>1, <3>2 DEF OperationData
  <2>6. Range(x.regions) = Range(Operation(m, o).regions) \cup {r}
    <3>1. Operation(m, o).regions \in Seq(Handles) /\ r \in Handles
      BY <2>2, <2>4, OperationFields
    <3> DEFINE s == Operation(m, o).regions
    <3> HIDE DEF s, r, x
    <3>2. /\ DOMAIN s = 1..Len(s) /\ DOMAIN Append(s, r) = 1..(Len(s) + 1) /\ Len(s) \in Nat
          /\ Append(s, r)[Len(s) + 1] = r /\ \A j \in 1..Len(s) : Append(s, r)[j] = s[j]
      BY <3>1, AppendedTo DEF s
    <3>3. \A j \in 1..(Len(s) + 1) : j \in 1..Len(s) \/ j = Len(s) + 1
      BY <3>2
    <3>4. Len(s) + 1 \in 1..(Len(s) + 1) /\ \A j \in 1..Len(s) : j \in 1..(Len(s) + 1)
      BY <3>2
    <3>5. Range(Append(s, r)) = Range(s) \cup {r}
      BY <3>2, <3>3, <3>4 DEF Range
    <3> QED BY <2>5, <3>5 DEF s
  <2> HIDE DEF e, n, n1, x, r
  <2>7. o \in Operations(n1) /\ n1.operations = m.operations
    BY <2>2, <2>4 DEF Changed, Operations
  <2>8. n \in Modules(Types) /\ Changed(n1, n, "operations") /\ Puts(n1.operations, n.operations, o, x)
    BY <2>4, <2>5, <2>7, OperationStored DEF n
  <2>9. n.regions = n1.regions /\ n.blocks = m.blocks /\ n.values = m.values /\ n.attached = m.attached
    BY <2>4, <2>8 DEF Changed
  <2>10. /\ Blocks(n) = Blocks(m) /\ Values(n) = Values(m)
         /\ \A b : Block(n, b) = Block(m, b)
         /\ \A v : Value(n, v) = Value(m, v)
    BY <2>9 DEF Blocks, Values, Block, Value
  <2>11. /\ Regions(n) = Regions(m) \cup {r} /\ Region(n, r) = NewRegion(o)
         /\ \A q \in Regions(m) : Region(n, q) = Region(m, q)
    BY <2>4, <2>9 DEF Puts, Regions, Region
  <2>12. /\ Operations(n) = Operations(m) /\ Operation(n, o) = x
         /\ \A p \in Operations(m) : p # o => Operation(n, p) = Operation(m, p)
    BY <2>7, <2>8 DEF Puts, Operations, Operation
  <2>13. \A p \in Operations(m) :
            /\ Operation(n, p).parent = Operation(m, p).parent
            /\ Operation(n, p).results = Operation(m, p).results
            /\ Operation(n, p).operands = Operation(m, p).operands
            /\ Operation(n, p).links = Operation(m, p).links
            /\ Range(Operation(n, p).regions) = Range(Operation(m, p).regions) \cup (IF p = o THEN {r} ELSE {})
    BY <2>5, <2>6, <2>12
  <2>14. RegionsAgree(m) /\ BlocksAgree(m) /\ PlacesAgree(m) /\ DefinitionsAgree(m) /\ UsesAgree(m, AllUses(m))
    BY AgreementSplits DEF Owned
  <2>15. RegionsAgree(n)
    <3>1. RootRegion \in Regions(n) /\ RootBlock \in Blocks(n) /\ Block(n, RootBlock).parent = RootRegion /\ r # RootRegion
      BY <2>4, <2>10, <2>11, <2>14 DEF RegionsAgree
    <3>2. ASSUME NEW q \in Regions(n)
          PROVE  /\ IsInjective(Region(n, q).blocks)
                 /\ \A b \in Range(Region(n, q).blocks) : b \in Blocks(n) /\ Block(n, b).parent = q
                 /\ Region(n, q).parent = ModuleOwned <=> q = RootRegion
                 /\ q # RootRegion =>
                      /\ Region(n, q).parent \in Operations(n)
                      /\ q \in Range(Operation(n, Region(n, q).parent).regions)
      <4>1. CASE q = r
        <5>1. IsInjective(Region(n, r).blocks) /\ Range(Region(n, r).blocks) = {}
          BY <2>3, <2>11 DEF IsInjective, Range
        <5> QED BY <2>2, <2>3, <2>11, <2>12, <2>13, <3>1, <4>1, <5>1
      <4>2. CASE q \in Regions(m)
        <5>1. /\ IsInjective(Region(m, q).blocks)
              /\ \A b \in Range(Region(m, q).blocks) : b \in Blocks(m) /\ Block(m, b).parent = q
              /\ Region(m, q).parent = ModuleOwned <=> q = RootRegion
              /\ q # RootRegion =>
                   /\ Region(m, q).parent \in Operations(m)
                   /\ q \in Range(Operation(m, Region(m, q).parent).regions)
          BY <2>14, <4>2 DEF RegionsAgree
        <5>2. Region(n, q) = Region(m, q)
          BY <2>11, <4>2
        <5> QED BY <2>10, <2>12, <2>13, <5>1, <5>2
      <4> QED BY <2>11, <4>1, <4>2
    <3> QED BY <3>1, <3>2 DEF RegionsAgree
  <2>16. BlocksAgree(n)
    BY <2>10, <2>11, <2>12, <2>13, <2>14 DEF BlocksAgree
  <2>17. PlacesAgree(n)
    <3> SUFFICES ASSUME NEW p \in Operations(m)
                 PROVE  LET op == Operation(n, p) IN
                        /\ op.parent \in Blocks(n) /\ p \in Range(Block(n, op.parent).operations)
                        /\ Len(op.operands) = Len(op.links)
                        /\ \A i \in DOMAIN op.results :
                              op.results[i] \in Values(n) /\ Value(n, op.results[i]).definition = Result(p, i)
                        /\ \A q \in Range(op.regions) : q \in Regions(n) /\ Region(n, q).parent = p
      BY <2>12 DEF PlacesAgree
    <3>1. LET op == Operation(m, p) IN
          /\ op.parent \in Blocks(m) /\ p \in Range(Block(m, op.parent).operations)
          /\ Len(op.operands) = Len(op.links)
          /\ \A i \in DOMAIN op.results :
                op.results[i] \in Values(m) /\ Value(m, op.results[i]).definition = Result(p, i)
          /\ \A q \in Range(op.regions) : q \in Regions(m) /\ Region(m, q).parent = p
      BY <2>14 DEF PlacesAgree
    <3>2. ASSUME NEW q \in Range(Operation(n, p).regions) PROVE q \in Regions(n) /\ Region(n, q).parent = p
      <4>1. CASE q \in Range(Operation(m, p).regions)
        BY <2>11, <3>1, <4>1
      <4>2. CASE p = o /\ q = r
        BY <2>3, <2>11, <4>2
      <4> QED BY <2>13, <3>2, <4>1, <4>2
    <3> QED BY <2>10, <2>13, <3>1, <3>2
  <2>18. DefinitionsAgree(n)
    <3> SUFFICES ASSUME NEW v \in Values(m) PROVE DefinitionAgrees(n, v)
      BY <2>10 DEF DefinitionsAgree
    <3>1. DefinitionAgrees(m, v) /\ Value(m, v).definition.kind \in {"argument", "result"}
      BY <2>14, ValueFields DEF DefinitionsAgree, Definitions
    <3> DEFINE d == Value(m, v).definition
    <3>2. Value(n, v).definition = d /\ Block(n, d.owner) = Block(m, d.owner)
      BY <2>10
    <3>3. d.owner \in Operations(m) => Operation(n, d.owner).results = Operation(m, d.owner).results
      BY <2>13
    <3>4. CASE d.kind = "argument"
      <4>1. /\ d.owner \in Blocks(m) /\ d.index \in DOMAIN Block(m, d.owner).arguments
            /\ Block(m, d.owner).arguments[d.index] = v
        BY <3>1, <3>4 DEF DefinitionAgrees
      <4> QED BY <2>10, <3>2, <3>4, <4>1 DEF DefinitionAgrees
    <3>5. CASE d.kind = "result"
      <4>1. /\ d.owner \in Operations(m) /\ d.index \in DOMAIN Operation(m, d.owner).results
            /\ Operation(m, d.owner).results[d.index] = v
        BY <3>1, <3>5 DEF DefinitionAgrees
      <4> QED BY <2>12, <3>2, <3>3, <3>5, <4>1 DEF DefinitionAgrees
    <3> QED BY <3>1, <3>4, <3>5
  <2>19. UsesAgree(n, AllUses(n))
    <3>1. \A u : HasOperand(n, u) <=> HasOperand(m, u)
      BY <2>12, <2>13 DEF HasOperand
    <3>2. AllUses(n) = AllUses(m)
      BY <3>1 DEF AllUses
    <3>3. UsesAgree(n, AllUses(m))
      BY <2>10, <2>12, <2>13, <2>14, UsesGrow DEF UsesOf
    <3> QED BY <3>2, <3>3
  <2>20. Agrees(n)
    BY <2>8, <2>15, <2>16, <2>17, <2>18, <2>19, AgreementSplits DEF Owned
  <2>22. ListsRegionsOnce(m) => ListsRegionsOnce(n)
    <3> SUFFICES ASSUME ListsRegionsOnce(m) PROVE IsInjective(x.regions)
      BY <2>12 DEF ListsRegionsOnce
    <3>1. Operation(m, o).regions \in Seq(Handles) /\ IsInjective(Operation(m, o).regions)
      BY <2>2, OperationFields DEF ListsRegionsOnce
    <3>2. r \notin Range(Operation(m, o).regions)
      BY <2>2, <2>4, <2>14 DEF PlacesAgree
    <3> QED BY <2>4, <2>5, <3>1, <3>2, AppendedOnce
  <2>21. Enlarges(m, n)
    BY <2>9, <2>10, <2>11, <2>12, <2>13, <2>22 DEF Enlarges
  <2> QED BY <2>1, <2>8, <2>20, <2>21 DEF e
<1> QED BY <1>1, <1>2

LEMMA BlockMade ==
    ASSUME NEW m \in Modules(Types), NEW r \in Handles, NEW types \in Seq(Types)
    PROVE  LET b == NextHandle(m.blocks)
               n == DefineArguments([m EXCEPT !.blocks = InsertInto(@, NewBlock(r))], b, types)
           IN  /\ n \in Modules(Types) /\ b \in Handles /\ b \notin Blocks(m)
               /\ n.regions = m.regions /\ n.operations = m.operations /\ n.attached = m.attached
               /\ Blocks(n) = Blocks(m) \cup {b} /\ \A c \in Blocks(m) : Block(n, c) = Block(m, c)
               /\ Block(n, b).parent = r /\ Block(n, b).operations = <<>>
               /\ Values(n) = Values(m) \cup Range(Block(n, b).arguments)
               /\ \A j \in DOMAIN Block(n, b).arguments :
                     /\ Block(n, b).arguments[j] \notin Values(m)
                     /\ Value(n, Block(n, b).arguments[j]).definition = Argument(b, j)
                     /\ UsesOf(n, Block(n, b).arguments[j]) = <<>>
               /\ \A v \in Values(m) : Value(n, v) = Value(m, v)
<1> DEFINE b == NextHandle(m.blocks)
           x == NewBlock(r)
           n1 == [m EXCEPT !.blocks = InsertInto(@, x)]
           n == DefineArguments(n1, b, types)
<1>1. x \in BlockData /\ x.parent = r /\ x.operations = <<>> /\ x.arguments = <<>>
  BY DEF NewBlock, BlockData
<1> HIDE DEF x
<1>2. /\ n1 \in Modules(Types) /\ Changed(m, n1, "blocks") /\ Puts(m.blocks, n1.blocks, b, x)
      /\ b \in Handles /\ b \notin Blocks(m)
  BY <1>1, BlockInserted
<1> HIDE DEF n1, b
<1>3. /\ n1.regions = m.regions /\ n1.operations = m.operations /\ n1.values = m.values
      /\ n1.attached = m.attached
      /\ Blocks(n1) = Blocks(m) \cup {b} /\ Block(n1, b) = x
      /\ \A c \in Blocks(m) : Block(n1, c) = Block(m, c)
  BY <1>2 DEF Changed, Puts, Blocks, Block
<1>4. Values(n1) = Values(m) /\ \A v : Value(n1, v) = Value(m, v)
  BY <1>3 DEF Values, Value
<1>5. ArgumentsAdded(n1, n, b, types)
  <2>1. b \in Blocks(n1) /\ Block(n1, b).arguments = <<>>
    BY <1>1, <1>3
  <2> QED BY <1>2, <2>1, ArgumentsAreAdded
<1> HIDE DEF n
<1>6. /\ n \in Modules(Types) /\ n.regions = m.regions /\ n.operations = m.operations
      /\ n.attached = m.attached /\ Blocks(n) = Blocks(m) \cup {b}
  BY <1>3, <1>5 DEF ArgumentsAdded
<1>7. ASSUME NEW c \in Blocks(m) PROVE Block(n, c) = Block(m, c)
  BY <1>2, <1>3, <1>5 DEF ArgumentsAdded
<1>8. Block(n, b).parent = r /\ Block(n, b).operations = <<>>
  <2>1. Block(n, b) = [x EXCEPT !.arguments = Block(n, b).arguments]
    BY <1>3, <1>5 DEF ArgumentsAdded
  <2> QED BY <1>1, <2>1 DEF BlockData
<1>9. /\ Values(n) = Values(m) \cup Range(Block(n, b).arguments)
      /\ \A v \in Values(m) : Value(n, v) = Value(m, v)
  BY <1>4, <1>5 DEF ArgumentsAdded
<1>10. ASSUME NEW j \in DOMAIN Block(n, b).arguments
       PROVE  /\ Block(n, b).arguments[j] \notin Values(m)
              /\ Value(n, Block(n, b).arguments[j]).definition = Argument(b, j)
              /\ UsesOf(n, Block(n, b).arguments[j]) = <<>>
  <2>1. /\ Block(n, b).arguments[j] \notin Values(n1)
        /\ Value(n, Block(n, b).arguments[j]) = NewValue(types[j], Argument(b, j))
    BY <1>5, <1>10 DEF ArgumentsAdded
  <2> QED BY <1>4, <2>1 DEF NewValue, UsesOf
<1> QED BY <1>2, <1>6, <1>7, <1>8, <1>9, <1>10 DEF n, n1, x, b

LEMMA AppendingBlock ==
    ASSUME NEW m \in Modules(Types), Agrees(m), NEW r \in Handles, NEW types \in Seq(Types)
    PROVE  LET e == AppendBlock(m, r, types)
           IN  /\ e.ir \in Modules(Types) /\ Agrees(e.ir) /\ Enlarges(m, e.ir)
               /\ e.answer # "ok" => e.ir = m
<1> DEFINE e == AppendBlock(m, r, types)
           b == NextHandle(m.blocks)
           n1 == DefineArguments([m EXCEPT !.blocks = InsertInto(@, NewBlock(r))], b, types)
           x == [Region(m, r) EXCEPT !.blocks = Append(@, b)]
           n == WithRegion(n1, r, x)
<1>1. CASE ~Resolves(m.regions, r)
  <2>1. e.ir = m
    BY <1>1 DEF AppendBlock, Refuse
  <2> QED BY <2>1, SameIsLarge
<1>2. CASE Resolves(m.regions, r)
  <2>1. e = [answer |-> "ok", ir |-> n, bumps |-> 1]
    BY <1>2 DEF AppendBlock, Ok
  <2>2. r \in Regions(m)
    BY <1>2, ModuleHandles
  <2>3. /\ n1 \in Modules(Types) /\ b \in Handles /\ b \notin Blocks(m)
        /\ n1.regions = m.regions /\ n1.operations = m.operations /\ n1.attached = m.attached
        /\ Blocks(n1) = Blocks(m) \cup {b} /\ \A c \in Blocks(m) : Block(n1, c) = Block(m, c)
        /\ Block(n1, b).parent = r /\ Block(n1, b).operations = <<>>
        /\ Values(n1) = Values(m) \cup Range(Block(n1, b).arguments)
        /\ \A j \in DOMAIN Block(n1, b).arguments :
              /\ Block(n1, b).arguments[j] \notin Values(m)
              /\ Value(n1, Block(n1, b).arguments[j]).definition = Argument(b, j)
              /\ UsesOf(n1, Block(n1, b).arguments[j]) = <<>>
        /\ \A v \in Values(m) : Value(n1, v) = Value(m, v)
    BY BlockMade, ZenonT(60)
  <2> HIDE DEF e, n1, b, n
  <2>4. RegionsAgree(m) /\ BlocksAgree(m) /\ PlacesAgree(m) /\ DefinitionsAgree(m) /\ UsesAgree(m, AllUses(m))
    BY AgreementSplits DEF Owned
  <2>5. /\ x \in RegionData /\ x.parent = Region(m, r).parent
        /\ IsInjective(x.blocks) /\ Range(x.blocks) = Range(Region(m, r).blocks) \cup {b}
    <3> DEFINE s == Region(m, r).blocks
    <3>1. Region(m, r) \in RegionData /\ s \in Seq(Handles)
      BY <2>2, RegionFields
    <3>2. IsInjective(s) /\ b \notin Range(s)
      BY <2>2, <2>3, <2>4 DEF RegionsAgree
    <3> HIDE DEF s
    <3>3. Append(s, b) \in Seq(Handles) /\ IsInjective(Append(s, b)) /\ Range(Append(s, b)) = Range(s) \cup {b}
      BY <2>3, <3>1, <3>2, AppendedOnce
    <3>4. x \in RegionData /\ x.parent = Region(m, r).parent /\ x.blocks = Append(s, b)
      BY <3>1, <3>3 DEF RegionData, s
    <3> QED BY <3>3, <3>4 DEF s
  <2> HIDE DEF x
  <2>6. r \in Regions(n1)
    BY <2>2, <2>3 DEF Regions
  <2>7. n \in Modules(Types) /\ Changed(n1, n, "regions") /\ Puts(n1.regions, n.regions, r, x)
    BY <2>3, <2>5, <2>6, RegionStored DEF n
  <2>8. n.operations = m.operations /\ n.blocks = n1.blocks /\ n.values = n1.values /\ n.attached = m.attached
    BY <2>3, <2>7 DEF Changed
  <2>9. Operations(n) = Operations(m) /\ \A p : Operation(n, p) = Operation(m, p)
    BY <2>8 DEF Operations, Operation
  <2>10. /\ Blocks(n) = Blocks(n1) /\ Values(n) = Values(n1)
         /\ \A c : Block(n, c) = Block(n1, c)
         /\ \A v : Value(n, v) = Value(n1, v)
    BY <2>8 DEF Blocks, Values, Block, Value
  <2>11. /\ Regions(n) = Regions(m) /\ Region(n, r) = x
         /\ \A q \in Regions(m) : q # r => Region(n, q) = Region(m, q)
    BY <2>2, <2>3, <2>7 DEF Puts, Regions, Region
  <2>12. \A q \in Regions(m) :
            /\ Region(n, q).parent = Region(m, q).parent /\ IsInjective(Region(n, q).blocks)
            /\ Range(Region(n, q).blocks) = Range(Region(m, q).blocks) \cup (IF q = r THEN {b} ELSE {})
    BY <2>4, <2>5, <2>11 DEF RegionsAgree
  <2>13. /\ Blocks(n) = Blocks(m) \cup {b} /\ \A c \in Blocks(m) : Block(n, c) = Block(m, c)
         /\ Block(n, b).parent = r /\ Block(n, b).operations = <<>>
         /\ Values(n) = Values(m) \cup Range(Block(n, b).arguments)
         /\ \A j \in DOMAIN Block(n, b).arguments :
               /\ Block(n, b).arguments[j] \notin Values(m)
               /\ Value(n, Block(n, b).arguments[j]).definition = Argument(b, j)
               /\ UsesOf(n, Block(n, b).arguments[j]) = <<>>
         /\ \A v \in Values(m) : Value(n, v) = Value(m, v)
    BY <2>3, <2>10 DEF UsesOf
  <2>14. RegionsAgree(n)
    <3>1. RootRegion \in Regions(n) /\ RootBlock \in Blocks(n) /\ Block(n, RootBlock).parent = RootRegion
      BY <2>4, <2>11, <2>13 DEF RegionsAgree
    <3>2. ASSUME NEW q \in Regions(m)
          PROVE  /\ IsInjective(Region(n, q).blocks)
                 /\ \A c \in Range(Region(n, q).blocks) : c \in Blocks(n) /\ Block(n, c).parent = q
                 /\ Region(n, q).parent = ModuleOwned <=> q = RootRegion
                 /\ q # RootRegion =>
                      /\ Region(n, q).parent \in Operations(n)
                      /\ q \in Range(Operation(n, Region(n, q).parent).regions)
      <4>1. /\ \A c \in Range(Region(m, q).blocks) : c \in Blocks(m) /\ Block(m, c).parent = q
            /\ Region(m, q).parent = ModuleOwned <=> q = RootRegion
            /\ q # RootRegion =>
                 /\ Region(m, q).parent \in Operations(m)
                 /\ q \in Range(Operation(m, Region(m, q).parent).regions)
        BY <2>4 DEF RegionsAgree
      <4>2. ASSUME NEW c \in Range(Region(n, q).blocks) PROVE c \in Blocks(n) /\ Block(n, c).parent = q
        BY <2>12, <2>13, <4>1
      <4> QED BY <2>9, <2>12, <4>1, <4>2
    <3> QED BY <2>11, <3>1, <3>2 DEF RegionsAgree
  <2>15. BlocksAgree(n)
    <3> SUFFICES ASSUME NEW c \in Blocks(n)
                 PROVE  /\ Block(n, c).parent \in Regions(n) /\ c \in Range(Region(n, Block(n, c).parent).blocks)
                        /\ \A i \in DOMAIN Block(n, c).arguments :
                              /\ Block(n, c).arguments[i] \in Values(n)
                              /\ Value(n, Block(n, c).arguments[i]).definition = Argument(c, i)
                        /\ IsInjective(Block(n, c).operations)
                        /\ \A p \in Range(Block(n, c).operations) : p \in Operations(n) /\ Operation(n, p).parent = c
      BY DEF BlocksAgree
    <3>1. CASE c = b
      <4>1. IsInjective(Block(n, b).operations) /\ Range(Block(n, b).operations) = {}
        BY <2>13 DEF IsInjective, Range
      <4>2. \A i \in DOMAIN Block(n, b).arguments :
               /\ Block(n, b).arguments[i] \in Values(n)
               /\ Value(n, Block(n, b).arguments[i]).definition = Argument(b, i)
        BY <2>13 DEF Range
      <4> QED BY <2>2, <2>11, <2>12, <2>13, <3>1, <4>1, <4>2
    <3>2. CASE c \in Blocks(m)
      <4>1. /\ Block(m, c).parent \in Regions(m) /\ c \in Range(Region(m, Block(m, c).parent).blocks)
            /\ \A i \in DOMAIN Block(m, c).arguments :
                  /\ Block(m, c).arguments[i] \in Values(m)
                  /\ Value(m, Block(m, c).arguments[i]).definition = Argument(c, i)
            /\ IsInjective(Block(m, c).operations)
            /\ \A p \in Range(Block(m, c).operations) : p \in Operations(m) /\ Operation(m, p).parent = c
        BY <2>4, <3>2 DEF BlocksAgree
      <4>2. Block(n, c) = Block(m, c)
        BY <2>13, <3>2
      <4> QED BY <2>9, <2>11, <2>12, <2>13, <4>1, <4>2
    <3> QED BY <2>13, <3>1, <3>2
  <2>16. PlacesAgree(n)
    <3> SUFFICES ASSUME NEW p \in Operations(m)
                 PROVE  LET op == Operation(m, p) IN
                        /\ op.parent \in Blocks(n) /\ p \in Range(Block(n, op.parent).operations)
                        /\ Len(op.operands) = Len(op.links)
                        /\ \A i \in DOMAIN op.results :
                              op.results[i] \in Values(n) /\ Value(n, op.results[i]).definition = Result(p, i)
                        /\ \A q \in Range(op.regions) : q \in Regions(n) /\ Region(n, q).parent = p
      BY <2>9 DEF PlacesAgree
    <3>1. LET op == Operation(m, p) IN
          /\ op.parent \in Blocks(m) /\ p \in Range(Block(m, op.parent).operations)
          /\ Len(op.operands) = Len(op.links)
          /\ \A i \in DOMAIN op.results :
                op.results[i] \in Values(m) /\ Value(m, op.results[i]).definition = Result(p, i)
          /\ \A q \in Range(op.regions) : q \in Regions(m) /\ Region(m, q).parent = p
      BY <2>4 DEF PlacesAgree
    <3> QED BY <2>11, <2>12, <2>13, <3>1
  <2>17. DefinitionsAgree(n)
    <3> SUFFICES ASSUME NEW v \in Values(n) PROVE DefinitionAgrees(n, v)
      BY DEF DefinitionsAgree
    <3>1. CASE v \in Values(m)
      <4>1. DefinitionAgrees(m, v) /\ Value(m, v).definition.kind \in {"argument", "result"} /\ Value(n, v) = Value(m, v)
        BY <2>4, <2>13, <3>1, ValueFields DEF DefinitionsAgree, Definitions
      <4>2. CASE Value(m, v).definition.kind = "argument"
        BY <2>13, <4>1, <4>2 DEF DefinitionAgrees
      <4>3. CASE Value(m, v).definition.kind = "result"
        BY <2>9, <4>1, <4>3 DEF DefinitionAgrees
      <4> QED BY <4>1, <4>2, <4>3
    <3>2. CASE v \notin Values(m)
      <4>1. PICK j \in DOMAIN Block(n, b).arguments : v = Block(n, b).arguments[j]
        BY <2>13, <3>2 DEF Range
      <4>2. Value(n, v).definition = Argument(b, j) /\ b \in Blocks(n)
        BY <2>13, <4>1
      <4> QED BY <4>1, <4>2 DEF DefinitionAgrees, Argument
    <3> QED BY <3>1, <3>2
  <2>18. UsesAgree(n, AllUses(n))
    <3>1. \A u : HasOperand(n, u) <=> HasOperand(m, u)
      BY <2>9 DEF HasOperand
    <3>2. AllUses(n) = AllUses(m)
      BY <3>1 DEF AllUses
    <3>3. /\ Values(m) \subseteq Values(n)
          /\ \A v \in Values(m) : UsesOf(n, v) = UsesOf(m, v)
          /\ \A v \in Values(n) \ Values(m) : UsesOf(n, v) = <<>>
      BY <2>13 DEF UsesOf, Range
    <3>4. UsesAgree(n, AllUses(m))
      BY <2>4, <2>9, <3>3, UsesGrow
    <3> QED BY <3>2, <3>4
  <2>19. Agrees(n)
    BY <2>7, <2>14, <2>15, <2>16, <2>17, <2>18, AgreementSplits DEF Owned
  <2>20. Enlarges(m, n)
    BY <2>8, <2>9, <2>12, <2>13 DEF Enlarges, ListsRegionsOnce
  <2> QED BY <2>1, <2>7, <2>19, <2>20 DEF e
<1> QED BY <1>1, <1>2

-----------------------------------------------------------------------------
(* The tree below an operation.                                              *)

LEMMA LiveFinite ==
    ASSUME NEW Data, NEW a \in Arenas(Data)
    PROVE  IsFiniteSet(LiveHandles(a)) /\ Cardinality(LiveHandles(a)) \in Nat
<1> DEFINE I == {s \in DOMAIN a.slots : a.slots[s].value # Nothing}
           f == [s \in I |-> <<s, a.slots[s].generation>>]
           L == Len(a.slots)
<1>2. a.slots \in Seq(Slots(Data))
  BY ArenaShape
<1>3. L \in Nat /\ DOMAIN a.slots = 1..L
  BY <1>2
<1>4. IsFiniteSet(1..L)
  <2> HIDE DEF L
  <2> QED BY <1>3, FS_Interval
<1>5. IsFiniteSet(I)
  <2>1. I \in SUBSET (1..L)
    BY <1>3
  <2> HIDE DEF I, L
  <2> QED BY <1>4, <2>1, FS_Subset
<1>6. f \in Surjection(I, LiveHandles(a))
  <2>1. \A h \in LiveHandles(a) : \E s \in I : f[s] = h
    BY DEF LiveHandles, Handle
  <2>2. f \in [I -> LiveHandles(a)]
    BY DEF LiveHandles, Handle
  <2> QED BY <2>1, <2>2 DEF Surjection
<1> HIDE DEF I, f
<1>7. IsFiniteSet(LiveHandles(a))
  BY <1>5, <1>6, FS_Surjection
<1> QED BY <1>7, FS_CardinalityType

LEMMA OperationsFinite ==
    ASSUME NEW m \in Modules(Types)
    PROVE  IsFiniteSet(Operations(m)) /\ Cardinality(Operations(m)) \in Nat
BY ModuleParts, LiveFinite DEF Operations

LEMMA RegionOperations ==
    ASSUME NEW m \in Modules(Types), Agrees(m), NEW r \in Regions(m)
    PROVE  LET blocks == Region(m, r).blocks
               s == FlattenSeq([i \in DOMAIN blocks |-> Block(m, blocks[i]).operations])
           IN  /\ s \in Seq(Operations(m))
               /\ \A x : x \in Range(s) <=> \E b \in Range(blocks) : x \in Range(Block(m, b).operations)
<1> DEFINE blocks == Region(m, r).blocks
           n == Len(blocks)
           f == [i \in DOMAIN blocks |-> Block(m, blocks[i]).operations]
<1>1. blocks \in Seq(Handles) /\ n \in Nat /\ DOMAIN blocks = 1..n
  BY RegionFields
<1>2. \A b \in Range(blocks) : b \in Blocks(m)
  BY DEF Agrees, RegionsAgree
<1> HIDE DEF blocks, n
<1>3. ASSUME NEW i \in 1..n PROVE f[i] \in Seq(Operations(m)) /\ blocks[i] \in Range(blocks)
  <2>1. blocks[i] \in Blocks(m) /\ blocks[i] \in Range(blocks)
    BY <1>1, <1>2 DEF Range
  <2>2. Block(m, blocks[i]).operations \in Seq(Handles) /\ Range(Block(m, blocks[i]).operations) \subseteq Operations(m)
    BY <2>1, BlockOperations
  <2>3. Block(m, blocks[i]).operations \in Seq(Operations(m))
    BY <2>2 DEF Range
  <2> QED BY <1>1, <2>1, <2>3
<1>4. f \in [1..n -> Seq(Operations(m))]
  BY <1>1, <1>3
<1>5. \A i \in 1..n : f[i] = Block(m, blocks[i]).operations
  BY <1>1
<1> HIDE DEF f
<1>6. /\ FlattenSeq(f) \in Seq(Operations(m))
      /\ \A x : x \in Range(FlattenSeq(f)) <=> \E i \in 1..n : x \in Range(f[i])
  BY <1>1, <1>4, Gathered
<1>7. \A x : x \in Range(FlattenSeq(f)) <=> \E b \in Range(blocks) : x \in Range(Block(m, b).operations)
  <2>1. \A b \in Range(blocks) : \E i \in 1..n : b = blocks[i]
    BY <1>1 DEF Range
  <2> QED BY <1>3, <1>5, <1>6, <2>1
<1> QED BY <1>6, <1>7 DEF f, blocks

LEMMA RegionsOf ==
    ASSUME NEW m \in Modules(Types), Agrees(m), NEW o \in Operations(m)
    PROVE  /\ Operation(m, o).regions \in Seq(Regions(m))
           /\ \A r \in Regions(m) : r \in Range(Operation(m, o).regions) <=> Region(m, r).parent = o
<1>1. Operation(m, o).regions \in Seq(Handles) /\ o # ModuleOwned
  BY OperationFields, ModuleHandles
<1>2. \A r \in Range(Operation(m, o).regions) : r \in Regions(m) /\ Region(m, r).parent = o
  BY DEF Agrees, OperationsAgree
<1>3. ASSUME NEW r \in Regions(m), Region(m, r).parent = o PROVE r \in Range(Operation(m, o).regions)
  BY <1>1, <1>3 DEF Agrees, RegionsAgree
<1>4. Operation(m, o).regions \in Seq(Regions(m))
  BY <1>1, <1>2 DEF Range
<1> QED BY <1>2, <1>3, <1>4

LEMMA BlocksOf ==
    ASSUME NEW m \in Modules(Types), Agrees(m), NEW r \in Regions(m)
    PROVE  /\ Region(m, r).blocks \in Seq(Blocks(m))
           /\ \A b \in Blocks(m) : b \in Range(Region(m, r).blocks) <=> Block(m, b).parent = r
<1>1. Region(m, r).blocks \in Seq(Handles)
  BY RegionFields
<1>2. \A b \in Range(Region(m, r).blocks) : b \in Blocks(m) /\ Block(m, b).parent = r
  BY DEF Agrees, RegionsAgree
<1>3. ASSUME NEW b \in Blocks(m), Block(m, b).parent = r PROVE b \in Range(Region(m, r).blocks)
  BY <1>3 DEF Agrees, BlocksAgree
<1>4. Region(m, r).blocks \in Seq(Blocks(m))
  BY <1>1, <1>2 DEF Range
<1> QED BY <1>2, <1>3, <1>4

LEMMA OwnerOf ==
    ASSUME NEW m \in Modules(Types), Agrees(m), NEW o \in Operations(m)
    PROVE  LET b == Operation(m, o).parent
               r == Block(m, b).parent
           IN  /\ b \in Blocks(m) /\ r \in Regions(m)
               /\ Owner(m, o) = Region(m, r).parent
               /\ \A c \in Blocks(m) : o \in Range(Block(m, c).operations) <=> c = b
<1>1. Operation(m, o).parent \in Blocks(m) /\ o \in Range(Block(m, Operation(m, o).parent).operations)
  BY DEF Agrees, OperationsAgree
<1>2. Block(m, Operation(m, o).parent).parent \in Regions(m)
  BY <1>1 DEF Agrees, BlocksAgree
<1>3. \A c \in Blocks(m) : o \in Range(Block(m, c).operations) => Operation(m, o).parent = c
  BY DEF Agrees, BlocksAgree
<1> QED BY <1>1, <1>2, <1>3 DEF Owner

LEMMA ChildrenOf ==
    ASSUME NEW m \in Modules(Types), Agrees(m), NEW o \in Operations(m)
    PROVE  /\ Children(m, o) \in Seq(Operations(m))
           /\ \A c : c \in Range(Children(m, o)) <=> c \in Operations(m) /\ Owner(m, c) = o
<1> DEFINE inRegion(r) == FlattenSeq([i \in DOMAIN Region(m, r).blocks |->
                                      Block(m, Region(m, r).blocks[i]).operations])
           regions == Operation(m, o).regions
           n == Len(regions)
           f == [i \in DOMAIN regions |-> inRegion(regions[i])]
<1>1. regions \in Seq(Regions(m)) /\ \A r \in Regions(m) : r \in Range(regions) <=> Region(m, r).parent = o
  BY RegionsOf
<1>2. n \in Nat /\ DOMAIN regions = 1..n /\ \A i \in 1..n : regions[i] \in Regions(m) /\ regions[i] \in Range(regions)
  BY <1>1 DEF Range
<1>3. \A r \in Regions(m) : /\ inRegion(r) \in Seq(Operations(m))
                            /\ \A x : x \in Range(inRegion(r)) <=>
                                  \E b \in Range(Region(m, r).blocks) : x \in Range(Block(m, b).operations)
  BY RegionOperations
<1>4. Children(m, o) = FlattenSeq(f)
  BY DEF Children
<1> HIDE DEF inRegion, regions, n
<1>5. \A i \in 1..n : f[i] = inRegion(regions[i])
  BY <1>2
<1>6. f \in [1..n -> Seq(Operations(m))]
  BY <1>2, <1>3
<1> HIDE DEF f
<1>7. /\ FlattenSeq(f) \in Seq(Operations(m))
      /\ \A x : x \in Range(FlattenSeq(f)) <=> \E i \in 1..n : x \in Range(f[i])
  BY <1>2, <1>6, Gathered
<1>8. \A r \in Range(regions) : \E i \in 1..n : r = regions[i]
  BY <1>2 DEF Range
<1>9. \A x : x \in Range(FlattenSeq(f)) <=> \E r \in Range(regions) : x \in Range(inRegion(r))
  BY <1>2, <1>5, <1>7, <1>8
<1>10. ASSUME NEW c \in Range(FlattenSeq(f)) PROVE c \in Operations(m) /\ Owner(m, c) = o
  <2>1. c \in Operations(m)
    BY <1>7 DEF Range
  <2>2. PICK r \in Regions(m) : Region(m, r).parent = o /\ c \in Range(inRegion(r))
    BY <1>1, <1>2, <1>8, <1>9
  <2>3. PICK b \in Range(Region(m, r).blocks) : c \in Range(Block(m, b).operations)
    BY <1>3, <2>2
  <2>4. b \in Blocks(m) /\ Block(m, b).parent = r
    BY <2>3 DEF Agrees, RegionsAgree
  <2>5. Operation(m, c).parent = b
    BY <2>3, <2>4 DEF Agrees, BlocksAgree
  <2> QED BY <2>1, <2>2, <2>4, <2>5 DEF Owner
<1>11. ASSUME NEW c \in Operations(m), Owner(m, c) = o PROVE c \in Range(FlattenSeq(f))
  <2> DEFINE b == Operation(m, c).parent
             r == Block(m, b).parent
  <2>1. b \in Blocks(m) /\ r \in Regions(m) /\ Region(m, r).parent = o /\ c \in Range(Block(m, b).operations)
    BY <1>11, OwnerOf
  <2>2. b \in Range(Region(m, r).blocks)
    BY <2>1, BlocksOf
  <2>3. r \in Range(regions)
    BY <1>1, <2>1
  <2> HIDE DEF b, r
  <2> QED BY <1>3, <1>9, <2>1, <2>2, <2>3
<1> QED BY <1>4, <1>7, <1>10, <1>11

\* One more level of a walk: what w lists of each child, one after the other.
Grown(m, o, w) == FlattenSeq([i \in DOMAIN Children(m, o) |-> w[Children(m, o)[i]]])
Walks(m) == [Operations(m) -> Seq(Operations(m))]
PreLevel(m, d, w) == [o \in Operations(m) |-> IF d = 0 THEN <<o>> ELSE <<o>> \o Grown(m, o, w)]
PostLevel(m, d, w) == [o \in Operations(m) |-> IF d = 0 THEN <<o>> ELSE Grown(m, o, w) \o <<o>>]

LEMMA GrownFrom ==
    ASSUME NEW m \in Modules(Types), Agrees(m), NEW o \in Operations(m), NEW w \in Walks(m)
    PROVE  /\ Grown(m, o, w) \in Seq(Operations(m))
           /\ \A x : x \in Range(Grown(m, o, w)) <=> \E c \in Operations(m) : Owner(m, c) = o /\ x \in Range(w[c])
           /\ \A c \in Operations(m) : Owner(m, c) = o => Len(w[c]) <= Len(Grown(m, o, w))
<1> DEFINE S == Operations(m)
           s == Children(m, o)
           n == Len(s)
           f == [i \in DOMAIN s |-> w[s[i]]]
<1>1. s \in Seq(S) /\ \A c : c \in Range(s) <=> c \in S /\ Owner(m, c) = o
  BY ChildrenOf
<1>2. w \in [S -> Seq(S)] /\ Grown(m, o, w) = FlattenSeq(f)
  BY DEF Walks, Grown
<1> HIDE DEF S, s
<1>3. n \in Nat /\ DOMAIN s = 1..n /\ \A i \in 1..n : s[i] \in S
  BY <1>1
<1> HIDE DEF n
<1>4. f \in [1..n -> Seq(S)] /\ \A i \in 1..n : f[i] = w[s[i]]
  BY <1>2, <1>3
<1> HIDE DEF f
<1>5. /\ FlattenSeq(f) \in Seq(S)
      /\ \A x : x \in Range(FlattenSeq(f)) <=> \E i \in 1..n : x \in Range(f[i])
      /\ \A i \in 1..n : Len(f[i]) <= Len(FlattenSeq(f))
  BY <1>3, <1>4, Gathered
<1>6. \A c \in S : Owner(m, c) = o <=> \E i \in 1..n : s[i] = c
  BY <1>1, <1>3 DEF Range
<1>7. \A x : x \in Range(FlattenSeq(f)) <=> \E c \in S : Owner(m, c) = o /\ x \in Range(w[c])
  BY <1>3, <1>4, <1>5, <1>6
<1>8. \A c \in S : Owner(m, c) = o => Len(w[c]) <= Len(FlattenSeq(f))
  BY <1>4, <1>5, <1>6
<1> QED BY <1>2, <1>5, <1>7, <1>8 DEF S

LEMMA GrownAlike ==
    ASSUME NEW m \in Modules(Types), Agrees(m), NEW o \in Operations(m), NEW w \in Walks(m), NEW x \in Walks(m),
           \A c \in Operations(m) : Len(w[c]) = Len(x[c])
    PROVE  Len(Grown(m, o, w)) = Len(Grown(m, o, x))
<1> DEFINE S == Operations(m)
           s == Children(m, o)
           n == Len(s)
           f == [i \in DOMAIN s |-> w[s[i]]]
           g == [i \in DOMAIN s |-> x[s[i]]]
<1>1. s \in Seq(S)
  BY ChildrenOf
<1>2. w \in [S -> Seq(S)] /\ x \in [S -> Seq(S)] /\ Grown(m, o, w) = FlattenSeq(f) /\ Grown(m, o, x) = FlattenSeq(g)
  BY DEF Walks, Grown
<1> HIDE DEF S, s
<1>3. n \in Nat /\ DOMAIN s = 1..n /\ \A i \in 1..n : s[i] \in S
  BY <1>1
<1> HIDE DEF n
<1>4. f \in [1..n -> Seq(S)] /\ \A i \in 1..n : f[i] = w[s[i]]
  BY <1>2, <1>3
<1>5. g \in [1..n -> Seq(S)] /\ \A i \in 1..n : g[i] = x[s[i]]
  BY <1>2, <1>3
<1>6. \A c \in S : Len(w[c]) = Len(x[c])
  BY DEF S
<1> HIDE DEF f, g
<1>7. f \in Seq(Seq(S)) /\ Len(f) = n /\ g \in Seq(Seq(S)) /\ Len(g) = n
  BY <1>3, <1>4, <1>5, Gathered
<1>8. \A i \in 1..n : Len(f[i]) = Len(g[i])
  BY <1>3, <1>4, <1>5, <1>6
<1>9. Len(f) = Len(g) /\ \A i \in 1..Len(f) : Len(f[i]) = Len(g[i])
  BY <1>7, <1>8
<1>10. Len(FlattenSeq(f)) = Len(FlattenSeq(g))
  BY <1>7, <1>9, FlattenedLengths
<1> QED BY <1>2, <1>10

LEMMA LevelsTyped ==
    ASSUME NEW m \in Modules(Types), Agrees(m), NEW w, NEW d \in Nat, d # 0 => w \in Walks(m)
    PROVE  PreLevel(m, d, w) \in Walks(m) /\ PostLevel(m, d, w) \in Walks(m)
<1> DEFINE S == Operations(m)
<1>1. \A o \in S : <<o>> \in Seq(S)
  OBVIOUS
<1>2. ASSUME NEW o \in S, d # 0 PROVE <<o>> \o Grown(m, o, w) \in Seq(S) /\ Grown(m, o, w) \o <<o>> \in Seq(S)
  <2>1. Grown(m, o, w) \in Seq(S)
    BY <1>2, GrownFrom
  <2> HIDE DEF S
  <2> QED BY <1>1, <2>1, JoinedRange
<1> QED BY <1>1, <1>2 DEF Walks, PreLevel, PostLevel

LEMMA PreWalk ==
    ASSUME NEW m \in Modules(Types), Agrees(m)
    PROVE  LET n == Cardinality(Operations(m)) IN
           \E f : /\ \A k \in 0..n : f[k] \in Walks(m) /\ f[k] = PreLevel(m, k, f[k - 1])
                  /\ \A o \in Operations(m) : PreOrder(m, o) = f[n][o]
<1> DEFINE n == Cardinality(Operations(m))
           D == Walks(m)
           base == PreLevel(m, 0, <<>>)
           op == [p \in D \X (1..n) |-> PreLevel(m, p[2], p[1])]
           walk == CHOOSE walk : walk = [d \in 0..n |-> PreLevel(m, d, walk[d - 1])]
<1>1. n \in Nat
  BY OperationsFinite
<1>2. base \in D
  BY LevelsTyped
<1>3. \A k \in 1..n, w \in D : PreLevel(m, k, w) \in D
  BY <1>1, LevelsTyped
<1>4. \A o \in Operations(m) : PreOrder(m, o) = walk[n][o]
  BY DEF PreOrder, PreLevel, Grown
<1>5. \A w : PreLevel(m, 0, w) = base
  BY DEF PreLevel
<1> HIDE DEF n, D, base
<1>6. op \in [D \X (1..n) -> D] /\ \A w \in D, k \in 1..n : op[<<w, k>>] = PreLevel(m, k, w)
  BY <1>3
<1> HIDE DEF op
<1>7. PICK f : FoldsTo(f[n], f, n, D, base, op)
  BY <1>1, <1>2, <1>6, FoldsUp
<1>8. f \in [0..n -> D] /\ f[0] = base /\ \A k \in 1..n : f[k] = op[<<f[k - 1], k>>]
  BY <1>7 DEF FoldsTo
<1>9. ASSUME NEW k \in 0..n PROVE f[k] = PreLevel(m, k, f[k - 1])
  <2>1. CASE k = 0
    BY <1>5, <1>8, <2>1
  <2>2. CASE k # 0
    <3>1. k \in 1..n /\ k - 1 \in 0..n
      BY <1>1, <2>2
    <3>2. f[k - 1] \in D
      BY <1>8, <3>1
    <3> QED BY <1>6, <1>8, <3>1, <3>2
  <2> QED BY <2>1, <2>2
<1>10. f = [d \in 0..n |-> PreLevel(m, d, f[d - 1])]
  BY <1>8, <1>9
<1>11. walk = [d \in 0..n |-> PreLevel(m, d, walk[d - 1])]
  BY <1>10
<1> HIDE DEF walk
<1>12. \A d \in 0..n : walk[d] = PreLevel(m, d, walk[d - 1])
  BY <1>11
<1> DEFINE P == {k \in Nat : k <= n => walk[k] \in D}
<1>13. 0 \in P
  BY <1>1, <1>2, <1>5, <1>12
<1>14. ASSUME NEW k \in Nat, k \in P PROVE k + 1 \in P
  <2> SUFFICES ASSUME k + 1 <= n PROVE walk[k + 1] \in D
    OBVIOUS
  <2>1. k + 1 \in 0..n /\ k + 1 \in 1..n /\ (k + 1) - 1 = k /\ walk[k] \in D
    BY <1>1, <1>14
  <2> QED BY <1>3, <1>12, <2>1
<1> HIDE DEF P
<1>15. \A k \in Nat : k \in P
  BY <1>13, <1>14, NumbersBySteps
<1>16. \A k \in 0..n : walk[k] \in D
  BY <1>1, <1>15 DEF P
<1> QED BY <1>4, <1>12, <1>16 DEF n, D

LEMMA PostWalk ==
    ASSUME NEW m \in Modules(Types), Agrees(m)
    PROVE  LET n == Cardinality(Operations(m)) IN
           \E f : /\ \A k \in 0..n : f[k] \in Walks(m) /\ f[k] = PostLevel(m, k, f[k - 1])
                  /\ \A o \in Operations(m) : PostOrder(m, o) = f[n][o]
<1> DEFINE n == Cardinality(Operations(m))
           D == Walks(m)
           base == PostLevel(m, 0, <<>>)
           op == [p \in D \X (1..n) |-> PostLevel(m, p[2], p[1])]
           walk == CHOOSE walk : walk = [d \in 0..n |-> PostLevel(m, d, walk[d - 1])]
<1>1. n \in Nat
  BY OperationsFinite
<1>2. base \in D
  BY LevelsTyped
<1>3. \A k \in 1..n, w \in D : PostLevel(m, k, w) \in D
  BY <1>1, LevelsTyped
<1>4. \A o \in Operations(m) : PostOrder(m, o) = walk[n][o]
  BY DEF PostOrder, PostLevel, Grown
<1>5. \A w : PostLevel(m, 0, w) = base
  BY DEF PostLevel
<1> HIDE DEF n, D, base
<1>6. op \in [D \X (1..n) -> D] /\ \A w \in D, k \in 1..n : op[<<w, k>>] = PostLevel(m, k, w)
  BY <1>3
<1> HIDE DEF op
<1>7. PICK f : FoldsTo(f[n], f, n, D, base, op)
  BY <1>1, <1>2, <1>6, FoldsUp
<1>8. f \in [0..n -> D] /\ f[0] = base /\ \A k \in 1..n : f[k] = op[<<f[k - 1], k>>]
  BY <1>7 DEF FoldsTo
<1>9. ASSUME NEW k \in 0..n PROVE f[k] = PostLevel(m, k, f[k - 1])
  <2>1. CASE k = 0
    BY <1>5, <1>8, <2>1
  <2>2. CASE k # 0
    <3>1. k \in 1..n /\ k - 1 \in 0..n
      BY <1>1, <2>2
    <3>2. f[k - 1] \in D
      BY <1>8, <3>1
    <3> QED BY <1>6, <1>8, <3>1, <3>2
  <2> QED BY <2>1, <2>2
<1>10. f = [d \in 0..n |-> PostLevel(m, d, f[d - 1])]
  BY <1>8, <1>9
<1>11. walk = [d \in 0..n |-> PostLevel(m, d, walk[d - 1])]
  BY <1>10
<1> HIDE DEF walk
<1>12. \A d \in 0..n : walk[d] = PostLevel(m, d, walk[d - 1])
  BY <1>11
<1> DEFINE P == {k \in Nat : k <= n => walk[k] \in D}
<1>13. 0 \in P
  BY <1>1, <1>2, <1>5, <1>12
<1>14. ASSUME NEW k \in Nat, k \in P PROVE k + 1 \in P
  <2> SUFFICES ASSUME k + 1 <= n PROVE walk[k + 1] \in D
    OBVIOUS
  <2>1. k + 1 \in 0..n /\ k + 1 \in 1..n /\ (k + 1) - 1 = k /\ walk[k] \in D
    BY <1>1, <1>14
  <2> QED BY <1>3, <1>12, <2>1
<1> HIDE DEF P
<1>15. \A k \in Nat : k \in P
  BY <1>13, <1>14, NumbersBySteps
<1>16. \A k \in 0..n : walk[k] \in D
  BY <1>1, <1>15 DEF P
<1> QED BY <1>4, <1>12, <1>16 DEF n, D

\* What a walk of depth k lists below o: o first, what belongs to something listed, and,
\* unless it is longer than k, everything that belongs to something listed.
Lists(m, k, o, s) ==
    /\ s \in Seq(Operations(m)) /\ Len(s) # 0 /\ s[1] = o
    /\ \A x \in Range(s) : x = o \/ Owner(m, x) \in Range(s)
    /\ Len(s) > k \/ \A c \in Operations(m) : Owner(m, c) \in Range(s) => \E i \in 2..Len(s) : s[i] = c

LEMMA ListsDeeper ==
    ASSUME NEW m \in Modules(Types), Agrees(m), NEW k \in Nat, NEW w \in Walks(m),
           \A c \in Operations(m) : Lists(m, k, c, w[c]), NEW o \in Operations(m)
    PROVE  Lists(m, k + 1, o, <<o>> \o Grown(m, o, w))
<1> DEFINE G == Grown(m, o, w)
           s == <<o>> \o G
           S == Operations(m)
<1>1. /\ G \in Seq(S)
      /\ \A x : x \in Range(G) <=> \E c \in S : Owner(m, c) = o /\ x \in Range(w[c])
      /\ \A c \in S : Owner(m, c) = o => Len(w[c]) <= Len(G)
  BY GrownFrom
<1>2. \A c \in S : /\ w[c] \in Seq(S) /\ Len(w[c]) \in Nat /\ w[c][1] = c /\ c \in Range(w[c])
                   /\ \A x \in Range(w[c]) : x = c \/ Owner(m, x) \in Range(w[c])
                   /\ \/ Len(w[c]) > k
                      \/ \A d \in S : Owner(m, d) \in Range(w[c]) => d \in Range(w[c])
  <2> SUFFICES ASSUME NEW c \in S
               PROVE  /\ w[c] \in Seq(S) /\ Len(w[c]) \in Nat /\ w[c][1] = c /\ c \in Range(w[c])
                      /\ \A x \in Range(w[c]) : x = c \/ Owner(m, x) \in Range(w[c])
                      /\ \/ Len(w[c]) > k
                         \/ \A d \in S : Owner(m, d) \in Range(w[c]) => d \in Range(w[c])
    OBVIOUS
  <2> DEFINE t == w[c]
  <2>1. Lists(m, k, c, t)
    OBVIOUS
  <2> HIDE DEF t
  <2>2. t \in Seq(S) /\ Len(t) # 0 /\ t[1] = c
    BY <2>1 DEF Lists
  <2>3. Len(t) \in Nat /\ DOMAIN t = 1..Len(t) /\ 1 \in 1..Len(t) /\ 2..Len(t) \subseteq 1..Len(t)
    BY <2>2
  <2>4. c \in Range(t)
    BY <2>2, <2>3 DEF Range
  <2>5. \/ Len(t) > k
        \/ \A d \in S : Owner(m, d) \in Range(t) => d \in Range(t)
    <3> SUFFICES ASSUME ~(Len(t) > k), NEW d \in S, Owner(m, d) \in Range(t) PROVE d \in Range(t)
      OBVIOUS
    <3>1. \E i \in 2..Len(t) : t[i] = d
      BY <2>1 DEF Lists
    <3> QED BY <2>3, <3>1 DEF Range
  <2>6. \A x \in Range(t) : x = c \/ Owner(m, x) \in Range(t)
    BY <2>1 DEF Lists
  <2> QED BY <2>2, <2>3, <2>4, <2>5, <2>6 DEF t
<1> HIDE DEF G, S
<1>3. /\ s \in Seq(S) /\ Len(s) = Len(G) + 1 /\ s[1] = o /\ Range(s) = {o} \cup Range(G)
      /\ \A x \in Range(G) : \E i \in 2..Len(s) : s[i] = x
  <2>1. o \in S
    BY DEF S
  <2> QED BY <1>1, <2>1, PutFirst
<1> HIDE DEF s
<1>4. Len(G) \in Nat
  BY <1>1
<1>5. \A x \in Range(s) : x = o \/ Owner(m, x) \in Range(s)
  <2> SUFFICES ASSUME NEW x \in Range(G) PROVE Owner(m, x) \in Range(s)
    BY <1>3
  <2>1. PICK c \in S : Owner(m, c) = o /\ x \in Range(w[c])
    BY <1>1
  <2>2. x = c \/ Owner(m, x) \in Range(w[c])
    BY <1>2, <2>1
  <2> QED BY <1>1, <1>3, <2>1, <2>2
<1>6. Len(s) > k + 1 \/ \A c \in S : Owner(m, c) \in Range(s) => \E i \in 2..Len(s) : s[i] = c
  <2>1. CASE \E c \in S : Owner(m, c) = o /\ Len(w[c]) > k
    <3>1. PICK c \in S : Owner(m, c) = o /\ Len(w[c]) > k
      BY <2>1
    <3>2. Len(w[c]) <= Len(G) /\ Len(w[c]) \in Nat
      BY <1>1, <1>2, <3>1
    <3>3. Len(G) > k
      BY <1>4, <3>1, <3>2
    <3> QED BY <1>3, <1>4, <3>3
  <2>2. CASE \A c \in S : Owner(m, c) = o => ~(Len(w[c]) > k)
    <3> SUFFICES ASSUME NEW c \in S, Owner(m, c) \in Range(s) PROVE c \in Range(G)
      BY <1>3
    <3>1. CASE Owner(m, c) = o
      BY <1>1, <1>2, <3>1
    <3>2. CASE Owner(m, c) \in Range(G)
      <4>1. PICK d \in S : Owner(m, d) = o /\ Owner(m, c) \in Range(w[d])
        BY <1>1, <3>2
      <4>2. c \in Range(w[d])
        BY <1>2, <2>2, <4>1
      <4> QED BY <1>1, <4>1, <4>2
    <3> QED BY <1>3, <3>1, <3>2
  <2> QED BY <2>1, <2>2
<1>7. Len(s) # 0
  BY <1>3, <1>4
<1> QED BY <1>3, <1>5, <1>6, <1>7 DEF Lists, s, G, S

\* The tree below root: root, what belongs to something in it, and nothing around it.
IsTree(m, T, root) ==
    /\ T \subseteq Operations(m) /\ root \in T
    /\ \A o \in Operations(m) : Owner(m, o) \in T <=> o \in T /\ o # root

LEMMA ShortLists ==
    ASSUME NEW m \in Modules(Types), NEW s \in Seq(Operations(m)), IsInjective(s)
    PROVE  ~(Len(s) > Cardinality(Operations(m)))
<1> DEFINE n == Len(s)
           S == Operations(m)
<1>1. n \in Nat /\ IsFiniteSet(S) /\ Cardinality(S) \in Nat
  BY OperationsFinite
<1>2. s \in [1..n -> S] /\ \A i, j \in 1..n : s[i] = s[j] => i = j
  BY DEF IsInjective
<1> HIDE DEF n, S
<1>3. s \in Injection(1..n, S)
  BY <1>2 DEF Injection, IsInjective
<1>4. Cardinality(1..n) <= Cardinality(S)
  BY <1>1, <1>3, FS_Injection
<1>5. Cardinality(1..n) = n
  BY <1>1, FS_Interval
<1> QED BY <1>1, <1>4, <1>5 DEF n, S

LEMMA TreeWalked ==
    ASSUME NEW m \in Modules(Types), Agrees(m), NEW root \in Operations(m), IsInjective(PreOrder(m, root))
    PROVE  /\ PreOrder(m, root) \in Seq(Operations(m)) /\ PostOrder(m, root) \in Seq(Operations(m))
           /\ IsInjective(PostOrder(m, root)) /\ Range(PostOrder(m, root)) = Range(PreOrder(m, root))
           /\ IsTree(m, Range(PreOrder(m, root)), root)
<1> DEFINE n == Cardinality(Operations(m))
           S == Operations(m)
<1>1. PICK f : /\ \A k \in 0..n : f[k] \in Walks(m) /\ f[k] = PreLevel(m, k, f[k - 1])
               /\ \A o \in S : PreOrder(m, o) = f[n][o]
  BY PreWalk
<1>2. PICK g : /\ \A k \in 0..n : g[k] \in Walks(m) /\ g[k] = PostLevel(m, k, g[k - 1])
               /\ \A o \in S : PostOrder(m, o) = g[n][o]
  BY PostWalk
<1>3. n \in Nat
  BY OperationsFinite
<1> DEFINE Both(k) == \A o \in S : /\ Lists(m, k, o, f[k][o])
                                   /\ Range(g[k][o]) = Range(f[k][o]) /\ Len(g[k][o]) = Len(f[k][o])
           P == {k \in Nat : k <= n => Both(k)}
<1> HIDE DEF n
<1>4. 0 \in P
  <2> SUFFICES ASSUME NEW o \in S
               PROVE  /\ Lists(m, 0, o, f[0][o])
                      /\ Range(g[0][o]) = Range(f[0][o]) /\ Len(g[0][o]) = Len(f[0][o])
    OBVIOUS
  <2>1. f[0] = PreLevel(m, 0, f[0 - 1]) /\ g[0] = PostLevel(m, 0, g[0 - 1])
    BY <1>1, <1>2, <1>3
  <2>2. f[0][o] = <<o>> /\ g[0][o] = <<o>>
    BY <2>1 DEF PreLevel, PostLevel
  <2>3. <<o>> \in Seq(S) /\ Len(<<o>>) = 1 /\ <<o>>[1] = o /\ Range(<<o>>) = {o}
    BY DEF Range
  <2>4. Lists(m, 0, o, <<o>>)
    BY <2>3 DEF Lists
  <2> QED BY <2>2, <2>4
<1>5. ASSUME NEW k \in Nat, k \in P PROVE k + 1 \in P
  <2> SUFFICES ASSUME k + 1 <= n, NEW o \in S
               PROVE  /\ Lists(m, k + 1, o, f[k + 1][o])
                      /\ Range(g[k + 1][o]) = Range(f[k + 1][o]) /\ Len(g[k + 1][o]) = Len(f[k + 1][o])
    OBVIOUS
  <2>1. k \in 0..n /\ k + 1 \in 0..n /\ (k + 1) - 1 = k /\ k + 1 # 0
    BY <1>3
  <2>2. f[k] \in Walks(m) /\ g[k] \in Walks(m) /\ Both(k)
    BY <1>1, <1>2, <1>3, <1>5, <2>1
  <2> DEFINE F == Grown(m, o, f[k])
             G == Grown(m, o, g[k])
  <2>3. f[k + 1] = PreLevel(m, k + 1, f[k]) /\ g[k + 1] = PostLevel(m, k + 1, g[k])
    BY <1>1, <1>2, <2>1
  <2>4. f[k + 1][o] = <<o>> \o F /\ g[k + 1][o] = G \o <<o>>
    BY <2>1, <2>3 DEF PreLevel, PostLevel
  <2>5. Lists(m, k + 1, o, <<o>> \o F)
    <3> DEFINE w == f[k]
    <3>1. w \in Walks(m) /\ \A c \in S : Lists(m, k, c, w[c])
      BY <2>2
    <3> HIDE DEF w
    <3>2. Lists(m, k + 1, o, <<o>> \o Grown(m, o, w))
      BY <3>1, ListsDeeper
    <3> QED BY <3>2 DEF w
  <2>6. /\ F \in Seq(S) /\ G \in Seq(S)
        /\ \A x : x \in Range(F) <=> \E c \in S : Owner(m, c) = o /\ x \in Range(f[k][c])
        /\ \A x : x \in Range(G) <=> \E c \in S : Owner(m, c) = o /\ x \in Range(g[k][c])
    BY <2>2, GrownFrom
  <2>7. Len(G) = Len(F)
    BY <2>2, GrownAlike
  <2> HIDE DEF F, G
  <2>8. Range(G) = Range(F)
    BY <2>2, <2>6
  <2>9. <<o>> \in Seq(S)
    OBVIOUS
  <2>10. Len(<<o>> \o F) = Len(<<o>>) + Len(F) /\ Range(<<o>> \o F) = Range(<<o>>) \cup Range(F)
    <3> DEFINE e == <<o>>
    <3>1. e \in Seq(S) /\ F \in Seq(S)
      BY <2>6, <2>9
    <3> HIDE DEF e, S
    <3>2. Len(e \o F) = Len(e) + Len(F) /\ Range(e \o F) = Range(e) \cup Range(F)
      BY <3>1, JoinedRange
    <3> QED BY <3>2 DEF e
  <2>12. Len(G \o <<o>>) = Len(G) + Len(<<o>>) /\ Range(G \o <<o>>) = Range(G) \cup Range(<<o>>)
    <3> DEFINE e == <<o>>
    <3>1. e \in Seq(S) /\ G \in Seq(S)
      BY <2>6, <2>9
    <3> HIDE DEF e, S
    <3>2. Len(G \o e) = Len(G) + Len(e) /\ Range(G \o e) = Range(G) \cup Range(e)
      BY <3>1, JoinedRange
    <3> QED BY <3>2 DEF e
  <2>11. Len(F) \in Nat /\ Len(<<o>>) = 1
    BY <2>6
  <2>13. Range(G \o <<o>>) = Range(<<o>> \o F)
    BY <2>8, <2>10, <2>12
  <2>14. Len(G \o <<o>>) = Len(<<o>> \o F)
    <3> DEFINE y == Len(G)
               z == Len(F)
               e == Len(<<o>>)
    <3>1. y = z /\ z \in Nat /\ e = 1
      BY <2>7, <2>11
    <3>2. Len(G \o <<o>>) = y + e /\ Len(<<o>> \o F) = e + z
      BY <2>10, <2>12
    <3> HIDE DEF y, z, e
    <3> QED BY <3>1, <3>2
  <2> QED BY <2>4, <2>5, <2>13, <2>14
<1> HIDE DEF P
<1>6. \A k \in Nat : k \in P
  BY <1>4, <1>5, NumbersBySteps
<1>7. Both(n)
  <2> HIDE DEF Both
  <2>1. n <= n
    BY <1>3
  <2> QED BY <1>3, <1>6, <2>1 DEF P
<1> DEFINE pre == PreOrder(m, root)
           post == PostOrder(m, root)
<1>8. Lists(m, n, root, pre) /\ Range(post) = Range(pre) /\ Len(post) = Len(pre)
  BY <1>1, <1>2, <1>7
<1>9. post \in Seq(S)
  <2>1. g[n] \in Walks(m)
    BY <1>2, <1>3
  <2> QED BY <1>2, <2>1 DEF Walks
<1>10. pre \in Seq(S)
  BY <1>8 DEF Lists
<1> HIDE DEF pre, post
<1>11. IsInjective(pre) /\ ~(Len(pre) > n)
  BY <1>10, ShortLists DEF pre, n
<1>12. IsInjective(post)
  BY <1>8, <1>9, <1>10, <1>11, SurelyOnce
<1>13. Len(pre) \in Nat /\ DOMAIN pre = 1..Len(pre) /\ 1 \in 1..Len(pre) /\ pre[1] = root
  BY <1>8, <1>10 DEF Lists
<1>14. \A c \in S : Owner(m, c) \in Range(pre) => \E i \in 2..Len(pre) : pre[i] = c
  BY <1>8, <1>11 DEF Lists
<1>15. ASSUME NEW c \in S, Owner(m, c) \in Range(pre) PROVE c \in Range(pre) /\ c # root
  <2>1. PICK i \in 2..Len(pre) : pre[i] = c
    BY <1>14, <1>15
  <2>2. i \in 1..Len(pre) /\ i # 1
    BY <1>13
  <2> QED BY <1>11, <1>13, <2>1, <2>2 DEF Range, IsInjective
<1>16. \A c \in Range(pre) : c = root \/ Owner(m, c) \in Range(pre)
  BY <1>8 DEF Lists
<1>17. Range(pre) \subseteq S /\ root \in Range(pre)
  BY <1>10, <1>13 DEF Range
<1>18. IsTree(m, Range(pre), root)
  BY <1>15, <1>16, <1>17 DEF IsTree
<1> QED BY <1>8, <1>9, <1>10, <1>12, <1>18 DEF pre, post

-----------------------------------------------------------------------------
(* What else a tree owns.                                                    *)

TreeRegions(m, T) == {r \in Regions(m) : Region(m, r).parent \in T}
TreeBlocks(m, T) == {b \in Blocks(m) : Block(m, b).parent \in TreeRegions(m, T)}
DefinedIn(m, T, v) ==
    LET d == Value(m, v).definition IN
    \/ d.kind = "result" /\ d.owner \in T
    \/ d.kind = "argument" /\ d.owner \in TreeBlocks(m, T)
TreeValues(m, T) == {v \in Values(m) : DefinedIn(m, T, v)}

LEMMA OwnedRegionsAre ==
    ASSUME NEW m \in Modules(Types), Agrees(m), NEW root \in Operations(m),
           PreOrder(m, root) \in Seq(Operations(m))
    PROVE  /\ OwnedRegions(m, root) \in Seq(Regions(m))
           /\ Range(OwnedRegions(m, root)) = TreeRegions(m, Range(PreOrder(m, root)))
<1> DEFINE S == Operations(m)
           s == PreOrder(m, root)
           F == [o \in S |-> Operation(m, o).regions]
           f == [i \in DOMAIN s |-> F[s[i]]]
<1>1. s \in Seq(S)
  OBVIOUS
<1>2. \A o \in S, r \in Regions(m) : r \in Range(F[o]) <=> Region(m, r).parent = o
  BY RegionsOf
<1>10. F \in [S -> Seq(Regions(m))]
  BY RegionsOf
<1>3. OwnedRegions(m, root) = FlattenSeq([i \in DOMAIN s |-> Operation(m, s[i]).regions])
  BY DEF OwnedRegions
<1> HIDE DEF s
<1>4. \A i \in DOMAIN s : s[i] \in S
  BY <1>1
<1>5. f = [i \in DOMAIN s |-> Operation(m, s[i]).regions]
  BY <1>4
<1> HIDE DEF F, S
<1>6. FlattenSeq(f) \in Seq(Regions(m)) /\ \A x : x \in Range(FlattenSeq(f)) <=> \E o \in Range(s) : x \in Range(F[o])
  BY <1>1, <1>10, GatheredOver
<1> HIDE DEF f
<1>7. \A x \in Range(FlattenSeq(f)) : x \in Regions(m)
  BY <1>6 DEF Range
<1>8. \A o \in Range(s) : o \in S
  BY <1>4 DEF Range
<1>9. Range(FlattenSeq(f)) = TreeRegions(m, Range(s))
  BY <1>2, <1>6, <1>7, <1>8 DEF TreeRegions
<1> QED BY <1>3, <1>5, <1>6, <1>9 DEF s

LEMMA OwnedBlocksAre ==
    ASSUME NEW m \in Modules(Types), Agrees(m), NEW root \in Operations(m),
           PreOrder(m, root) \in Seq(Operations(m))
    PROVE  /\ OwnedBlocks(m, root) \in Seq(Blocks(m))
           /\ Range(OwnedBlocks(m, root)) = TreeBlocks(m, Range(PreOrder(m, root)))
<1> DEFINE S == Regions(m)
           s == OwnedRegions(m, root)
           F == [r \in S |-> Region(m, r).blocks]
           f == [i \in DOMAIN s |-> F[s[i]]]
<1>1. s \in Seq(S) /\ Range(s) = TreeRegions(m, Range(PreOrder(m, root)))
  BY OwnedRegionsAre
<1>2. \A r \in S, b \in Blocks(m) : b \in Range(F[r]) <=> Block(m, b).parent = r
  BY BlocksOf
<1>10. F \in [S -> Seq(Blocks(m))]
  BY BlocksOf
<1>3. OwnedBlocks(m, root) = FlattenSeq([i \in DOMAIN s |-> Region(m, s[i]).blocks])
  BY DEF OwnedBlocks
<1> HIDE DEF s
<1>4. \A i \in DOMAIN s : s[i] \in S
  BY <1>1
<1>5. f = [i \in DOMAIN s |-> Region(m, s[i]).blocks]
  BY <1>4
<1> HIDE DEF F, S
<1>6. FlattenSeq(f) \in Seq(Blocks(m)) /\ \A x : x \in Range(FlattenSeq(f)) <=> \E r \in Range(s) : x \in Range(F[r])
  <2>1. s \in Seq(S)
    BY <1>1
  <2> QED BY <2>1, <1>10, GatheredOver
<1> HIDE DEF f
<1>7. \A x \in Range(FlattenSeq(f)) : x \in Blocks(m)
  BY <1>6 DEF Range
<1>8. \A r \in Range(s) : r \in S
  BY <1>4 DEF Range
<1>9. Range(FlattenSeq(f)) = TreeBlocks(m, Range(PreOrder(m, root)))
  BY <1>1, <1>2, <1>6, <1>7, <1>8 DEF TreeBlocks
<1> QED BY <1>3, <1>5, <1>6, <1>9

LEMMA ArgumentsOf ==
    ASSUME NEW m \in Modules(Types), Agrees(m), NEW b \in Blocks(m)
    PROVE  /\ Block(m, b).arguments \in Seq(Values(m))
           /\ \A v \in Values(m) : v \in Range(Block(m, b).arguments) <=>
                 Value(m, v).definition.kind = "argument" /\ Value(m, v).definition.owner = b
<1>1. Block(m, b).arguments \in Seq(Handles)
  BY BlockFields
<1>2. \A i \in DOMAIN Block(m, b).arguments :
         /\ Block(m, b).arguments[i] \in Values(m)
         /\ Value(m, Block(m, b).arguments[i]).definition.kind = "argument"
         /\ Value(m, Block(m, b).arguments[i]).definition.owner = b
  <2>1. \A i \in DOMAIN Block(m, b).arguments :
           /\ Block(m, b).arguments[i] \in Values(m)
           /\ Value(m, Block(m, b).arguments[i]).definition = Argument(b, i)
    BY DEF Agrees, BlocksAgree
  <2>2. \A i : Argument(b, i).kind = "argument" /\ Argument(b, i).owner = b
    BY DEF Argument
  <2> QED BY <2>1, <2>2
<1>3. ASSUME NEW v \in Values(m), Value(m, v).definition.kind = "argument", Value(m, v).definition.owner = b
      PROVE  v \in Range(Block(m, b).arguments)
  <2>1. DefinitionAgrees(m, v)
    BY AgreementSplits DEF Owned, DefinitionsAgree
  <2>2. /\ Value(m, v).definition.index \in DOMAIN Block(m, b).arguments
        /\ Block(m, b).arguments[Value(m, v).definition.index] = v
    BY <1>3, <2>1 DEF DefinitionAgrees
  <2> QED BY <2>2 DEF Range
<1>4. Block(m, b).arguments \in Seq(Values(m))
  BY <1>1, <1>2
<1> QED BY <1>2, <1>3, <1>4 DEF Range

LEMMA ResultsOf ==
    ASSUME NEW m \in Modules(Types), Agrees(m), NEW o \in Operations(m)
    PROVE  /\ Operation(m, o).results \in Seq(Values(m))
           /\ \A v \in Values(m) : v \in Range(Operation(m, o).results) <=>
                 Value(m, v).definition.kind = "result" /\ Value(m, v).definition.owner = o
<1>1. Operation(m, o).results \in Seq(Handles)
  BY OperationFields
<1>2. \A i \in DOMAIN Operation(m, o).results :
         /\ Operation(m, o).results[i] \in Values(m)
         /\ Value(m, Operation(m, o).results[i]).definition.kind = "result"
         /\ Value(m, Operation(m, o).results[i]).definition.owner = o
  <2>1. \A i \in DOMAIN Operation(m, o).results :
           /\ Operation(m, o).results[i] \in Values(m)
           /\ Value(m, Operation(m, o).results[i]).definition = Result(o, i)
    BY DEF Agrees, OperationsAgree
  <2>2. \A i : Result(o, i).kind = "result" /\ Result(o, i).owner = o
    BY DEF Result
  <2> QED BY <2>1, <2>2
<1>3. ASSUME NEW v \in Values(m), Value(m, v).definition.kind = "result", Value(m, v).definition.owner = o
      PROVE  v \in Range(Operation(m, o).results)
  <2>1. DefinitionAgrees(m, v)
    BY AgreementSplits DEF Owned, DefinitionsAgree
  <2>2. /\ Value(m, v).definition.index \in DOMAIN Operation(m, o).results
        /\ Operation(m, o).results[Value(m, v).definition.index] = v
    BY <1>3, <2>1 DEF DefinitionAgrees
  <2> QED BY <2>2 DEF Range
<1>4. Operation(m, o).results \in Seq(Values(m))
  BY <1>1, <1>2
<1> QED BY <1>2, <1>3, <1>4 DEF Range

\* The arguments of a region's blocks, and of the blocks of an operation's regions.
RegionArguments(m, r) ==
    LET blocks == Region(m, r).blocks IN FlattenSeq([j \in DOMAIN blocks |-> Block(m, blocks[j]).arguments])

OperationArguments(m, o) ==
    FlattenSeq([i \in DOMAIN Operation(m, o).regions |-> RegionArguments(m, Operation(m, o).regions[i])])

LEMMA RegionArgumentsAre ==
    ASSUME NEW m \in Modules(Types), Agrees(m), NEW r \in Regions(m)
    PROVE  /\ RegionArguments(m, r) \in Seq(Values(m))
           /\ \A v : v \in Range(RegionArguments(m, r)) <=>
                 \E b \in Blocks(m) : Block(m, b).parent = r /\ v \in Range(Block(m, b).arguments)
<1> DEFINE S == Blocks(m)
           s == Region(m, r).blocks
           F == [b \in S |-> Block(m, b).arguments]
           f == [i \in DOMAIN s |-> F[s[i]]]
<1>1. s \in Seq(S) /\ \A b \in S : b \in Range(s) <=> Block(m, b).parent = r
  BY BlocksOf
<1>2. F \in [S -> Seq(Values(m))] /\ \A b \in S : F[b] = Block(m, b).arguments
  BY ArgumentsOf
<1>3. RegionArguments(m, r) = FlattenSeq([i \in DOMAIN s |-> Block(m, s[i]).arguments])
  BY DEF RegionArguments
<1> HIDE DEF s
<1>4. \A i \in DOMAIN s : s[i] \in S
  BY <1>1
<1>5. f = [i \in DOMAIN s |-> Block(m, s[i]).arguments]
  BY <1>4
<1> HIDE DEF F, S
<1>6. FlattenSeq(f) \in Seq(Values(m)) /\ \A x : x \in Range(FlattenSeq(f)) <=> \E b \in Range(s) : x \in Range(F[b])
  BY <1>1, <1>2, GatheredOver
<1> HIDE DEF f
<1>7. \A b \in Range(s) : b \in S
  BY <1>4 DEF Range
<1>8. \A x : x \in Range(FlattenSeq(f)) <=> \E b \in S : Block(m, b).parent = r /\ x \in Range(Block(m, b).arguments)
  BY <1>1, <1>2, <1>6, <1>7
<1> QED BY <1>3, <1>5, <1>6, <1>8 DEF S

LEMMA OperationArgumentsAre ==
    ASSUME NEW m \in Modules(Types), Agrees(m), NEW o \in Operations(m)
    PROVE  /\ OperationArguments(m, o) \in Seq(Values(m))
           /\ \A v : v \in Range(OperationArguments(m, o)) <=>
                 \E r \in Regions(m) : Region(m, r).parent = o /\ v \in Range(RegionArguments(m, r))
<1> DEFINE S == Regions(m)
           s == Operation(m, o).regions
           F == [r \in S |-> RegionArguments(m, r)]
           f == [i \in DOMAIN s |-> F[s[i]]]
<1>1. s \in Seq(S) /\ \A r \in S : r \in Range(s) <=> Region(m, r).parent = o
  BY RegionsOf
<1>2. F \in [S -> Seq(Values(m))] /\ \A r \in S : F[r] = RegionArguments(m, r)
  BY RegionArgumentsAre
<1>3. OperationArguments(m, o) = FlattenSeq([i \in DOMAIN s |-> RegionArguments(m, s[i])])
  BY DEF OperationArguments
<1> HIDE DEF s
<1>4. \A i \in DOMAIN s : s[i] \in S
  BY <1>1
<1>5. f = [i \in DOMAIN s |-> RegionArguments(m, s[i])]
  BY <1>4
<1> HIDE DEF F, S
<1>6. FlattenSeq(f) \in Seq(Values(m)) /\ \A x : x \in Range(FlattenSeq(f)) <=> \E r \in Range(s) : x \in Range(F[r])
  BY <1>1, <1>2, GatheredOver
<1> HIDE DEF f
<1>7. \A r \in Range(s) : r \in S
  BY <1>4 DEF Range
<1>8. \A x : x \in Range(FlattenSeq(f)) <=> \E r \in S : Region(m, r).parent = o /\ x \in Range(RegionArguments(m, r))
  BY <1>1, <1>2, <1>6, <1>7
<1> QED BY <1>3, <1>5, <1>6, <1>8 DEF S

LEMMA OwnedValuesAre ==
    ASSUME NEW m \in Modules(Types), Agrees(m), NEW root \in Operations(m),
           PreOrder(m, root) \in Seq(Operations(m))
    PROVE  /\ OwnedValues(m, root) \in Seq(Values(m))
           /\ Range(OwnedValues(m, root)) = TreeValues(m, Range(PreOrder(m, root)))
<1> DEFINE S == Operations(m)
           V == Values(m)
           s == PreOrder(m, root)
           own(o) == Operation(m, o).results \o OperationArguments(m, o)
           F == [o \in S |-> own(o)]
           f == [i \in DOMAIN s |-> F[s[i]]]
           T == Range(s)
<1>1. s \in Seq(S)
  OBVIOUS
<1>2. ASSUME NEW o \in S
      PROVE  own(o) \in Seq(V) /\ Range(own(o)) = Range(Operation(m, o).results) \cup Range(OperationArguments(m, o))
  <2>1. Operation(m, o).results \in Seq(V) /\ OperationArguments(m, o) \in Seq(V)
    BY ResultsOf, OperationArgumentsAre
  <2> HIDE DEF V
  <2> QED BY <2>1, JoinedRange
<1>3. OwnedValues(m, root) = FlattenSeq([i \in DOMAIN s |-> own(s[i])])
  BY DEF OwnedValues, OperationArguments, RegionArguments
<1> HIDE DEF s, own
<1>4. \A i \in DOMAIN s : s[i] \in S
  BY <1>1
<1>5. f = [i \in DOMAIN s |-> own(s[i])]
  BY <1>4
<1>6. F \in [S -> Seq(V)] /\ \A o \in S : F[o] = own(o)
  BY <1>2
<1> HIDE DEF F, S, V
<1>7. FlattenSeq(f) \in Seq(V) /\ \A x : x \in Range(FlattenSeq(f)) <=> \E o \in T : x \in Range(F[o])
  BY <1>1, <1>6, GatheredOver
<1> HIDE DEF f
<1>8. \A o \in T : o \in S
  BY <1>4 DEF Range
<1> HIDE DEF T
<1>9. \A x : x \in Range(FlattenSeq(f)) <=>
         \E o \in T : x \in Range(Operation(m, o).results) \/ x \in Range(OperationArguments(m, o))
  BY <1>2, <1>6, <1>7, <1>8
<1>10. \A x \in Range(FlattenSeq(f)) : x \in V
  BY <1>7 DEF Range
<1>11. ASSUME NEW v \in V
       PROVE  v \in Range(FlattenSeq(f)) <=> DefinedIn(m, T, v)
  <2> DEFINE d == Value(m, v).definition
  <2>1. \A o \in T : v \in Range(Operation(m, o).results) <=> d.kind = "result" /\ d.owner = o
    BY <1>8, ResultsOf DEF S, V
  <2>2. \A o \in T : v \in Range(OperationArguments(m, o)) <=>
           \E r \in Regions(m) : Region(m, r).parent = o /\ v \in Range(RegionArguments(m, r))
    BY <1>8, OperationArgumentsAre DEF S
  <2>3. \A r \in Regions(m) : v \in Range(RegionArguments(m, r)) <=>
           \E b \in Blocks(m) : Block(m, b).parent = r /\ v \in Range(Block(m, b).arguments)
    BY RegionArgumentsAre
  <2>4. \A b \in Blocks(m) : v \in Range(Block(m, b).arguments) <=> d.kind = "argument" /\ d.owner = b
    BY ArgumentsOf DEF V
  <2> HIDE DEF d
  <2>5. \A r \in Regions(m) : v \in Range(RegionArguments(m, r)) <=>
           d.kind = "argument" /\ d.owner \in Blocks(m) /\ Block(m, d.owner).parent = r
    BY <2>3, <2>4
  <2>6. (\E o \in T : v \in Range(OperationArguments(m, o))) <=>
           d.kind = "argument" /\ d.owner \in TreeBlocks(m, T)
    BY <2>2, <2>5 DEF TreeBlocks, TreeRegions
  <2>7. (\E o \in T : v \in Range(Operation(m, o).results)) <=> d.kind = "result" /\ d.owner \in T
    BY <2>1
  <2> QED BY <1>9, <2>6, <2>7 DEF DefinedIn, d
<1>12. Range(FlattenSeq(f)) = TreeValues(m, T)
  BY <1>10, <1>11 DEF TreeValues, V
<1> QED BY <1>3, <1>5, <1>7, <1>12 DEF T, s, V

-----------------------------------------------------------------------------
(* Unlinking the operands of a tree.                                         *)

\* The modules in between: the shape of m and its operands, but fewer uses linked.
Unlinkings(m) ==
    {d \in [ir : Modules(Types), panicked : BOOLEAN] :
       /\ SameShape(m, d.ir)
       /\ \A u \in AllUses(m) : OperandAt(d.ir, u) = OperandAt(m, u)
       /\ \E linked \in SUBSET AllUses(m) : UsesAgree(d.ir, linked)}

UnlinkOne(d, o, i) ==
    IF d.panicked \/ ~Unlinkable(d.ir, o, i) THEN [d EXCEPT !.panicked = TRUE]
    ELSE [d EXCEPT !.ir = Unlinked(d.ir, o, i)]

LEMMA UnlinkedFrom ==
    ASSUME NEW m \in Modules(Types), NEW d \in Unlinkings(m), NEW linked \in SUBSET AllUses(m),
           UsesAgree(d.ir, linked), NEW w \in linked
    PROVE  LET n == Unlinked(d.ir, w.user, w.index)
               e == [d EXCEPT !.ir = n]
           IN  /\ Unlinkable(d.ir, w.user, w.index)
               /\ e \in Unlinkings(m) /\ e.panicked = d.panicked /\ UsesAgree(e.ir, linked \ {w})
<1> DEFINE c == d.ir
           n == Unlinked(c, w.user, w.index)
           e == [d EXCEPT !.ir = n]
<1>1. /\ d \in [ir : Modules(Types), panicked : BOOLEAN]
      /\ c \in Modules(Types) /\ SameShape(m, c) /\ \A u \in AllUses(m) : OperandAt(c, u) = OperandAt(m, u)
  BY DEF Unlinkings
<1>2. UsesAgree(c, linked)
  OBVIOUS
<1> HIDE DEF c
<1>3. /\ Unlinkable(c, w.user, w.index)
      /\ n \in Modules(Types) /\ SameShape(c, n)
      /\ UsesAgree(n, linked \ {w})
      /\ \A u : HasOperand(c, u) => OperandAt(n, u) = OperandAt(c, u)
  BY <1>1, <1>2, Unlinking
<1> HIDE DEF n
<1>4. SameShape(m, n)
  BY <1>1, <1>3, ShapesChain
<1>5. \A u \in AllUses(m) : HasOperand(c, u)
  BY <1>1, SameOperands DEF AllUses
<1>6. \A u \in AllUses(m) : OperandAt(n, u) = OperandAt(m, u)
  BY <1>1, <1>3, <1>5
<1>7. e \in [ir : Modules(Types), panicked : BOOLEAN] /\ e.ir = n /\ e.panicked = d.panicked
  BY <1>1, <1>3
<1>8. linked \ {w} \in SUBSET AllUses(m)
  OBVIOUS
<1> HIDE DEF e
<1>9. e \in Unlinkings(m)
  BY <1>3, <1>4, <1>6, <1>7, <1>8 DEF Unlinkings
<1> QED BY <1>3, <1>7, <1>9 DEF e, n, c

LEMMA UnlinkOneTyped ==
    ASSUME NEW m \in Modules(Types), Agrees(m), NEW d \in Unlinkings(m), NEW o \in Operations(m),
           NEW i \in DOMAIN Operation(m, o).operands
    PROVE  UnlinkOne(d, o, i) \in Unlinkings(m)
<1> DEFINE c == d.ir
           w == Use(o, i)
<1>1. /\ d \in [ir : Modules(Types), panicked : BOOLEAN]
      /\ c \in Modules(Types) /\ SameShape(m, c) /\ \A u \in AllUses(m) : OperandAt(c, u) = OperandAt(m, u)
  BY DEF Unlinkings
<1>2. PICK linked \in SUBSET AllUses(m) : UsesAgree(c, linked)
  BY DEF Unlinkings
<1>3. w \in AllUses(m) /\ w.user = o /\ w.index = i
  BY AllUsesLinked DEF Agrees, Use
<1>4. CASE d.panicked \/ ~Unlinkable(c, o, i)
  <2>1. UnlinkOne(d, o, i) = [d EXCEPT !.panicked = TRUE]
    BY <1>4 DEF UnlinkOne
  <2> DEFINE e == [d EXCEPT !.panicked = TRUE]
  <2>2. e \in [ir : Modules(Types), panicked : BOOLEAN] /\ e.ir = d.ir
    BY <1>1
  <2> HIDE DEF e
  <2>3. e \in Unlinkings(m)
    BY <2>2 DEF Unlinkings
  <2> QED BY <2>1, <2>3 DEF e
<1>5. CASE ~d.panicked /\ Unlinkable(c, o, i)
  <2> DEFINE v == Operation(c, o).operands[i]
  <2>1. /\ Resolves(c.values, v) /\ Operation(c, o).links[i] \in DOMAIN Value(c, v).uses
        /\ Value(c, v).uses[Operation(c, o).links[i]] = w
    BY <1>5 DEF Unlinkable
  <2> HIDE DEF c
  <2>2. HasOperand(c, w)
    BY <1>1, <1>3, SameOperands DEF AllUses
  <2>3. o \in Operations(c) /\ i \in DOMAIN Operation(c, o).operands
    BY <1>3, <2>2 DEF HasOperand
  <2>4. Operation(c, o).operands \in Seq(Handles)
    BY <1>1, <2>3, OperationFields
  <2>5. v \in Handles
    BY <2>3, <2>4
  <2>6. v \in Values(c)
    BY <1>1, <2>1, <2>5, ModuleHandles
  <2>7. w \in linked
    BY <1>2, <2>1, <2>6 DEF UsesAgree, UsesOf
  <2>8. [d EXCEPT !.ir = Unlinked(c, o, i)] \in Unlinkings(m)
    BY <1>2, <1>3, <2>7, UnlinkedFrom DEF c
  <2> QED BY <1>5, <2>8 DEF UnlinkOne, c
<1> QED BY <1>4, <1>5

LEMMA UnlinkFold ==
    ASSUME NEW m \in Modules(Types), Agrees(m), NEW done \in Unlinkings(m), NEW o \in Operations(m)
    PROVE  LET operands == Operation(m, o).operands IN
           \E f \in [0..Len(operands) -> Unlinkings(m)] :
              /\ f[0] = done /\ f[Len(operands)] = UnlinkOperands(done, o, operands)
              /\ \A k \in 1..Len(operands) : f[k] = UnlinkOne(f[k - 1], o, k)
<1> DEFINE operands == Operation(m, o).operands
           n == Len(operands)
           D == Unlinkings(m)
           op == [p \in D \X (1..n) |-> UnlinkOne(p[1], o, p[2])]
           seq == [i \in DOMAIN operands |-> i]
           iter == CHOOSE iter : iter = [t \in SUBSET DOMAIN seq |->
                      IF t = {} THEN done ELSE UnlinkOne(iter[t \ {Max(t)}], o, seq[Max(t)])]
<1>1. operands \in Seq(Handles)
  BY OperationFields
<1>2. n \in Nat /\ DOMAIN operands = 1..n /\ done \in D /\ DOMAIN seq = 1..n /\ \A i \in 1..n : seq[i] = i
  BY <1>1
<1>3. ASSUME NEW d \in D, NEW i \in 1..n PROVE UnlinkOne(d, o, i) \in D
  BY <1>2, UnlinkOneTyped
<1>4. op \in [D \X (1..n) -> D] /\ \A d \in D, i \in 1..n : op[<<d, i>>] = UnlinkOne(d, o, i)
  BY <1>3
<1> HIDE DEF op, D, operands, n, seq
<1>5. PICK g : FoldsSets(g, n, D, done, op)
  BY <1>2, <1>4, FoldExists
<1>6. ASSUME NEW t \in SUBSET (1..n), t # {}
      PROVE  Max(t) \in 1..n /\ t \ {Max(t)} \in SUBSET (1..n) /\ seq[Max(t)] = Max(t)
  BY <1>2, <1>6, MaxOfIndices
<1>7. g = [t \in SUBSET DOMAIN seq |->
             IF t = {} THEN done ELSE UnlinkOne(g[t \ {Max(t)}], o, seq[Max(t)])]
  <2>1. ASSUME NEW t \in SUBSET (1..n)
        PROVE  g[t] = IF t = {} THEN done ELSE UnlinkOne(g[t \ {Max(t)}], o, seq[Max(t)])
    <3>1. g[t] = IF t = {} THEN done ELSE op[<<g[t \ {Max(t)}], Max(t)>>]
      BY <1>5 DEF FoldsSets
    <3>2. CASE t # {}
      <4>1. Max(t) \in 1..n /\ t \ {Max(t)} \in SUBSET (1..n) /\ seq[Max(t)] = Max(t)
        BY <1>6, <3>2
      <4>2. g[t \ {Max(t)}] \in D
        BY <1>5, <4>1 DEF FoldsSets
      <4> QED BY <1>4, <3>1, <3>2, <4>1, <4>2
    <3> QED BY <3>1, <3>2
  <2>2. g \in [SUBSET DOMAIN seq -> D]
    BY <1>2, <1>5 DEF FoldsSets
  <2> QED BY <1>2, <2>1, <2>2
<1>8. iter = [t \in SUBSET DOMAIN seq |->
                IF t = {} THEN done ELSE UnlinkOne(iter[t \ {Max(t)}], o, seq[Max(t)])]
  BY <1>7
<1>9. UnlinkOperands(done, o, operands) = iter[1..n]
  BY <1>2 DEF UnlinkOperands, UnlinkOne, FoldLeftDomain, FoldLeft, MapThenFoldSet, seq
<1> HIDE DEF iter
<1>10. FoldsWithin(iter, n, D, done, op)
  <2>1. iter[{}] = done
    BY <1>2, <1>8
  <2>2. ASSUME NEW t \in SUBSET (1..n), t # {}, iter[t \ {Max(t)}] \in D
        PROVE  iter[t] = op[<<iter[t \ {Max(t)}], Max(t)>>]
    <3>1. Max(t) \in 1..n /\ t \ {Max(t)} \in SUBSET (1..n) /\ seq[Max(t)] = Max(t)
      BY <1>6, <2>2
    <3>2. iter[t] = UnlinkOne(iter[t \ {Max(t)}], o, seq[Max(t)])
      BY <1>2, <1>8, <2>2
    <3> QED BY <1>4, <2>2, <3>1, <3>2
  <2> QED BY <2>1, <2>2 DEF FoldsWithin
<1>11. PICK f : FoldsTo(iter[1..n], f, n, D, done, op)
  BY <1>2, <1>4, <1>10, FoldMeans
<1>12. ASSUME NEW k \in 1..n PROVE f[k] = UnlinkOne(f[k - 1], o, k)
  <2>1. k - 1 \in 0..n
    BY <1>2
  <2> QED BY <1>4, <1>11, <2>1 DEF FoldsTo
<1> QED BY <1>2, <1>9, <1>11, <1>12 DEF n, D, operands, FoldsTo

\* The operands of one operation are unlinked, and nothing else.
LEMMA OperandsAreUnlinked ==
    ASSUME NEW m \in Modules(Types), Agrees(m), NEW done \in Unlinkings(m), NEW o \in Operations(m),
           ~done.panicked, NEW linked \in SUBSET AllUses(m), UsesAgree(done.ir, linked),
           \A i \in DOMAIN Operation(m, o).operands : Use(o, i) \in linked
    PROVE  LET e == UnlinkOperands(done, o, Operation(m, o).operands)
           IN  /\ e \in Unlinkings(m) /\ ~e.panicked
               /\ UsesAgree(e.ir, {u \in linked : u.user # o})
<1> DEFINE operands == Operation(m, o).operands
           n == Len(operands)
<1>1. operands \in Seq(Handles) /\ o \in Handles
  BY OperationFields, ModuleHandles
<1>2. n \in Nat /\ DOMAIN operands = 1..n
  BY <1>1
<1>3. \A i \in 1..n : Use(o, i) \in linked
  BY <1>2
<1>4. PICK f \in [0..n -> Unlinkings(m)] :
              /\ f[0] = done /\ f[n] = UnlinkOperands(done, o, operands)
              /\ \A k \in 1..n : f[k] = UnlinkOne(f[k - 1], o, k)
  BY UnlinkFold
<1>5. \A u \in linked : u.user = o => u.index \in 1..n /\ u = Use(o, u.index)
  BY <1>2, UseEntry DEF AllUses, HasOperand
<1> DEFINE left(k) == linked \ {Use(o, i) : i \in 1..k}
           P == {k \in Nat : k <= n => ~f[k].panicked /\ UsesAgree(f[k].ir, left(k))}
<1> HIDE DEF operands, n
<1>6. 0 \in P
  <2>1. left(0) = linked
    OBVIOUS
  <2> HIDE DEF left
  <2> QED BY <1>4, <2>1
<1>7. ASSUME NEW k \in Nat, k \in P PROVE k + 1 \in P
  <2> SUFFICES ASSUME k + 1 <= n PROVE ~f[k + 1].panicked /\ UsesAgree(f[k + 1].ir, left(k + 1))
    OBVIOUS
  <2> DEFINE d == f[k]
             w == Use(o, k + 1)
  <2>1. k + 1 \in 1..n /\ k \in 0..n /\ (k + 1) - 1 = k
    BY <1>2
  <2>2. ~d.panicked /\ UsesAgree(d.ir, left(k)) /\ d \in Unlinkings(m)
    BY <1>4, <1>7, <2>1
  <2>3. f[k + 1] = UnlinkOne(d, o, k + 1)
    BY <1>4, <2>1
  <2>4. w.user = o /\ w.index = k + 1
    BY DEF Use
  <2>5. w \in left(k)
    <3>1. \A i \in 1..k : Use(o, i) # Use(o, k + 1)
      BY DEF Use
    <3> QED BY <1>3, <2>1, <3>1
  <2>6. left(k) \in SUBSET AllUses(m)
    OBVIOUS
  <2>7. left(k) \ {w} = left(k + 1)
    <3>1. \A i \in 1..(k + 1) : i \in 1..k \/ i = k + 1
      OBVIOUS
    <3>2. k + 1 \in 1..(k + 1) /\ \A i \in 1..k : i \in 1..(k + 1)
      OBVIOUS
    <3> QED BY <3>1, <3>2
  <2> HIDE DEF d, w, left
  <2> DEFINE e == [d EXCEPT !.ir = Unlinked(d.ir, w.user, w.index)]
  <2>8. Unlinkable(d.ir, w.user, w.index) /\ e.panicked = d.panicked /\ UsesAgree(e.ir, left(k) \ {w})
    <3> DEFINE L == left(k)
    <3>1. d \in Unlinkings(m) /\ L \in SUBSET AllUses(m) /\ UsesAgree(d.ir, L) /\ w \in L
      BY <2>2, <2>5, <2>6
    <3> HIDE DEF L
    <3>2. Unlinkable(d.ir, w.user, w.index) /\ e.panicked = d.panicked /\ UsesAgree(e.ir, L \ {w})
      BY <3>1, UnlinkedFrom
    <3> QED BY <3>2 DEF L
  <2>9. UnlinkOne(d, o, k + 1) = e
    BY <2>2, <2>4, <2>8 DEF UnlinkOne
  <2> HIDE DEF e
  <2> QED BY <2>2, <2>3, <2>7, <2>8, <2>9
<1> HIDE DEF P
<1>8. n \in P
  BY <1>2, <1>6, <1>7, NumbersBySteps
<1>9. ~f[n].panicked /\ UsesAgree(f[n].ir, left(n)) /\ f[n] \in Unlinkings(m)
  BY <1>2, <1>4, <1>8 DEF P
<1>10. left(n) = {u \in linked : u.user # o}
  <2>1. \A i : Use(o, i).user = o
    BY DEF Use
  <2> QED BY <1>5, <2>1
<1> HIDE DEF left
<1> QED BY <1>4, <1>9, <1>10 DEF operands, n

UnlinkAll(m, d, o) == UnlinkOperands(d, o, Operation(m, o).operands)

LEMMA UnlinkAllTyped ==
    ASSUME NEW m \in Modules(Types), Agrees(m), NEW d \in Unlinkings(m), NEW o \in Operations(m)
    PROVE  UnlinkAll(m, d, o) \in Unlinkings(m)
<1> DEFINE n == Len(Operation(m, o).operands)
<1>1. PICK f \in [0..n -> Unlinkings(m)] : f[n] = UnlinkOperands(d, o, Operation(m, o).operands)
  BY UnlinkFold
<1>2. n \in Nat
  BY OperationFields
<1> HIDE DEF n
<1>3. f[n] \in Unlinkings(m)
  BY <1>2
<1> QED BY <1>1, <1>3 DEF UnlinkAll

LEMMA NothingUnlinked ==
    ASSUME NEW m \in Modules(Types), Agrees(m)
    PROVE  [ir |-> m, panicked |-> FALSE] \in Unlinkings(m) /\ UsesAgree(m, AllUses(m))
<1>1. UsesAgree(m, AllUses(m))
  BY AgreementSplits
<1>2. SameShape(m, m)
  BY DEF SameShape
<1> QED BY <1>1, <1>2 DEF Unlinkings

LEMMA TreeFold ==
    ASSUME NEW m \in Modules(Types), Agrees(m), NEW root \in Operations(m),
           PostOrder(m, root) \in Seq(Operations(m))
    PROVE  LET ops == PostOrder(m, root) IN
           \E f \in [0..Len(ops) -> Unlinkings(m)] :
              /\ f[0] = [ir |-> m, panicked |-> FALSE] /\ f[Len(ops)] = UnlinkTree(m, root)
              /\ \A k \in 1..Len(ops) : f[k] = UnlinkAll(m, f[k - 1], ops[k])
<1> DEFINE ops == PostOrder(m, root)
           n == Len(ops)
           D == Unlinkings(m)
           base == [ir |-> m, panicked |-> FALSE]
           op == [p \in D \X (1..n) |-> UnlinkAll(m, p[1], ops[p[2]])]
           iter == CHOOSE iter : iter = [t \in SUBSET DOMAIN ops |->
                      IF t = {} THEN base ELSE UnlinkAll(m, iter[t \ {Max(t)}], ops[Max(t)])]
<1>1. n \in Nat /\ DOMAIN ops = 1..n /\ base \in D /\ \A i \in 1..n : ops[i] \in Operations(m)
  BY NothingUnlinked
<1>2. UnlinkTree(m, root) = FoldLeft(LAMBDA d, o : UnlinkAll(m, d, o), base, ops)
  BY DEF UnlinkTree, UnlinkAll
<1>3. ASSUME NEW d \in D, NEW i \in 1..n PROVE UnlinkAll(m, d, ops[i]) \in D
  BY <1>1, UnlinkAllTyped
<1>4. op \in [D \X (1..n) -> D] /\ \A d \in D, i \in 1..n : op[<<d, i>>] = UnlinkAll(m, d, ops[i])
  BY <1>3
<1> HIDE DEF op, D, n, base, ops
<1>5. PICK g : FoldsSets(g, n, D, base, op)
  BY <1>1, <1>4, FoldExists
<1>6. ASSUME NEW t \in SUBSET (1..n), t # {}
      PROVE  Max(t) \in 1..n /\ t \ {Max(t)} \in SUBSET (1..n)
  BY <1>1, <1>6, MaxOfIndices
<1>7. g = [t \in SUBSET DOMAIN ops |-> IF t = {} THEN base ELSE UnlinkAll(m, g[t \ {Max(t)}], ops[Max(t)])]
  <2>1. ASSUME NEW t \in SUBSET (1..n)
        PROVE  g[t] = IF t = {} THEN base ELSE UnlinkAll(m, g[t \ {Max(t)}], ops[Max(t)])
    <3>1. g[t] = IF t = {} THEN base ELSE op[<<g[t \ {Max(t)}], Max(t)>>]
      BY <1>5 DEF FoldsSets
    <3>2. CASE t # {}
      <4>1. Max(t) \in 1..n /\ t \ {Max(t)} \in SUBSET (1..n)
        BY <1>6, <3>2
      <4>2. g[t \ {Max(t)}] \in D
        BY <1>5, <4>1 DEF FoldsSets
      <4> QED BY <1>4, <3>1, <3>2, <4>1, <4>2
    <3> QED BY <3>1, <3>2
  <2>2. g \in [SUBSET DOMAIN ops -> D]
    BY <1>1, <1>5 DEF FoldsSets
  <2> QED BY <1>1, <2>1, <2>2
<1>8. iter = [t \in SUBSET DOMAIN ops |-> IF t = {} THEN base ELSE UnlinkAll(m, iter[t \ {Max(t)}], ops[Max(t)])]
  BY <1>7
<1>9. UnlinkTree(m, root) = iter[1..n]
  BY <1>1, <1>2 DEF FoldLeft, MapThenFoldSet
<1> HIDE DEF iter
<1>10. FoldsWithin(iter, n, D, base, op)
  <2>1. iter[{}] = base
    BY <1>1, <1>8
  <2>2. ASSUME NEW t \in SUBSET (1..n), t # {}, iter[t \ {Max(t)}] \in D
        PROVE  iter[t] = op[<<iter[t \ {Max(t)}], Max(t)>>]
    <3>1. Max(t) \in 1..n /\ t \ {Max(t)} \in SUBSET (1..n)
      BY <1>6, <2>2
    <3>2. iter[t] = UnlinkAll(m, iter[t \ {Max(t)}], ops[Max(t)])
      BY <1>1, <1>8, <2>2
    <3> QED BY <1>4, <2>2, <3>1, <3>2
  <2> QED BY <2>1, <2>2 DEF FoldsWithin
<1>11. PICK f : FoldsTo(iter[1..n], f, n, D, base, op)
  BY <1>1, <1>4, <1>10, FoldMeans
<1>12. ASSUME NEW k \in 1..n PROVE f[k] = UnlinkAll(m, f[k - 1], ops[k])
  <2>1. k - 1 \in 0..n
    BY <1>1
  <2> QED BY <1>4, <1>11, <2>1 DEF FoldsTo
<1> QED BY <1>9, <1>11, <1>12 DEF n, D, base, ops, FoldsTo

\* Taking a tree apart unlinks its uses, and nothing goes wrong.
LEMMA TreeIsUnlinked ==
    ASSUME NEW m \in Modules(Types), Agrees(m), NEW root \in Operations(m),
           PostOrder(m, root) \in Seq(Operations(m)), IsInjective(PostOrder(m, root))
    PROVE  LET e == UnlinkTree(m, root)
           IN  /\ e \in Unlinkings(m) /\ ~e.panicked
               /\ UsesAgree(e.ir, {u \in AllUses(m) : u.user \notin Range(PostOrder(m, root))})
<1> DEFINE ops == PostOrder(m, root)
           n == Len(ops)
<1>1. n \in Nat /\ DOMAIN ops = 1..n /\ (\A i \in 1..n : ops[i] \in Operations(m)) /\ ops \in Seq(Operations(m))
  OBVIOUS
<1>2. \A i, j \in 1..n : ops[i] = ops[j] => i = j
  BY <1>1 DEF IsInjective
<1>3. PICK f \in [0..n -> Unlinkings(m)] :
              /\ f[0] = [ir |-> m, panicked |-> FALSE] /\ f[n] = UnlinkTree(m, root)
              /\ \A k \in 1..n : f[k] = UnlinkAll(m, f[k - 1], ops[k])
  BY TreeFold
<1> DEFINE left(k) == {u \in AllUses(m) : \A i \in 1..k : u.user # ops[i]}
           P == {k \in Nat : k <= n => ~f[k].panicked /\ UsesAgree(f[k].ir, left(k))}
<1> HIDE DEF ops, n
<1>4. 0 \in P
  <2>1. left(0) = AllUses(m)
    OBVIOUS
  <2> HIDE DEF left
  <2> QED BY <1>3, <2>1, NothingUnlinked
<1>5. ASSUME NEW k \in Nat, k \in P PROVE k + 1 \in P
  <2> SUFFICES ASSUME k + 1 <= n PROVE ~f[k + 1].panicked /\ UsesAgree(f[k + 1].ir, left(k + 1))
    <3> HIDE DEF left
    <3> QED OBVIOUS
  <2> DEFINE d == f[k]
             o == ops[k + 1]
             L == left(k)
             e == UnlinkOperands(d, o, Operation(m, o).operands)
  <2>1. k + 1 \in 1..n /\ k \in 0..n /\ (k + 1) - 1 = k
    BY <1>1
  <2>2. ~d.panicked /\ UsesAgree(d.ir, L) /\ d \in Unlinkings(m) /\ o \in Operations(m) /\ L \in SUBSET AllUses(m)
    BY <1>1, <1>3, <1>5, <2>1
  <2>3. f[k + 1] = e
    BY <1>3, <2>1 DEF UnlinkAll
  <2>4. \A i \in DOMAIN Operation(m, o).operands : Use(o, i) \in L
    <3> SUFFICES ASSUME NEW i \in DOMAIN Operation(m, o).operands PROVE Use(o, i) \in L
      OBVIOUS
    <3>1. Use(o, i) \in AllUses(m)
      <4> HIDE DEF o
      <4> QED BY <2>2, AllUsesLinked DEF Agrees
    <3>2. Use(o, i).user = o
      BY DEF Use
    <3>3. ASSUME NEW j \in 1..k PROVE o # ops[j]
      <4>1. j \in 1..n /\ j # k + 1
        BY <1>1, <2>1
      <4> QED BY <1>2, <2>1, <4>1
    <3> QED BY <3>1, <3>2, <3>3
  <2>5. {u \in L : u.user # o} = left(k + 1)
    <3>1. \A i \in 1..(k + 1) : i \in 1..k \/ i = k + 1
      OBVIOUS
    <3>2. k + 1 \in 1..(k + 1) /\ \A i \in 1..k : i \in 1..(k + 1)
      OBVIOUS
    <3> QED BY <3>1, <3>2
  <2> HIDE DEF d, o, L
  <2>6. ~e.panicked /\ UsesAgree(e.ir, {u \in L : u.user # o})
    BY <2>2, <2>4, OperandsAreUnlinked
  <2> HIDE DEF e, left
  <2> QED BY <2>3, <2>5, <2>6
<1> HIDE DEF P
<1>6. n \in P
  BY <1>1, <1>4, <1>5, NumbersBySteps
<1>7. ~f[n].panicked /\ UsesAgree(f[n].ir, left(n)) /\ f[n] \in Unlinkings(m)
  BY <1>1, <1>3, <1>6 DEF P
<1>8. left(n) = {u \in AllUses(m) : u.user \notin Range(ops)}
  BY <1>1 DEF Range
<1> HIDE DEF left
<1> QED BY <1>3, <1>7, <1>8 DEF ops

-----------------------------------------------------------------------------
(* Removing what a tree owns.                                                *)

LEMMA RemovalFold ==
    ASSUME NEW Data, Nothing \notin Data, NEW a \in Arenas(Data), NEW handles \in Seq(Handles)
    PROVE  \E f \in [0..Len(handles) -> Arenas(Data)] :
              /\ f[0] = a /\ f[Len(handles)] = RemoveAll(a, handles)
              /\ \A k \in 1..Len(handles) : f[k] = RemoveFrom(f[k - 1], handles[k])
<1> DEFINE n == Len(handles)
           D == Arenas(Data)
           op == [p \in D \X (1..n) |-> RemoveFrom(p[1], handles[p[2]])]
           iter == CHOOSE iter : iter = [t \in SUBSET DOMAIN handles |->
                      IF t = {} THEN a ELSE RemoveFrom(iter[t \ {Max(t)}], handles[Max(t)])]
<1>1. n \in Nat /\ DOMAIN handles = 1..n /\ a \in D /\ \A i \in 1..n : handles[i] \in Handles
  OBVIOUS
<1>2. ASSUME NEW d \in D, NEW i \in 1..n PROVE RemoveFrom(d, handles[i]) \in D
  BY <1>1, Removing
<1>3. op \in [D \X (1..n) -> D] /\ \A d \in D, i \in 1..n : op[<<d, i>>] = RemoveFrom(d, handles[i])
  BY <1>2
<1> HIDE DEF op, D, n
<1>4. PICK g : FoldsSets(g, n, D, a, op)
  BY <1>1, <1>3, FoldExists
<1>5. ASSUME NEW t \in SUBSET (1..n), t # {}
      PROVE  Max(t) \in 1..n /\ t \ {Max(t)} \in SUBSET (1..n)
  BY <1>1, <1>5, MaxOfIndices
<1>6. g = [t \in SUBSET DOMAIN handles |-> IF t = {} THEN a ELSE RemoveFrom(g[t \ {Max(t)}], handles[Max(t)])]
  <2>1. ASSUME NEW t \in SUBSET (1..n)
        PROVE  g[t] = IF t = {} THEN a ELSE RemoveFrom(g[t \ {Max(t)}], handles[Max(t)])
    <3>1. g[t] = IF t = {} THEN a ELSE op[<<g[t \ {Max(t)}], Max(t)>>]
      BY <1>4 DEF FoldsSets
    <3>2. CASE t # {}
      <4>1. Max(t) \in 1..n /\ t \ {Max(t)} \in SUBSET (1..n)
        BY <1>5, <3>2
      <4>2. g[t \ {Max(t)}] \in D
        BY <1>4, <4>1 DEF FoldsSets
      <4> QED BY <1>3, <3>1, <3>2, <4>1, <4>2
    <3> QED BY <3>1, <3>2
  <2>2. g \in [SUBSET DOMAIN handles -> D]
    BY <1>1, <1>4 DEF FoldsSets
  <2> QED BY <1>1, <2>1, <2>2
<1>7. iter = [t \in SUBSET DOMAIN handles |-> IF t = {} THEN a ELSE RemoveFrom(iter[t \ {Max(t)}], handles[Max(t)])]
  BY <1>6
<1>8. RemoveAll(a, handles) = iter[1..n]
  BY <1>1 DEF RemoveAll, FoldLeft, MapThenFoldSet
<1> HIDE DEF iter
<1>9. FoldsWithin(iter, n, D, a, op)
  <2>1. iter[{}] = a
    BY <1>1, <1>7
  <2>2. ASSUME NEW t \in SUBSET (1..n), t # {}, iter[t \ {Max(t)}] \in D
        PROVE  iter[t] = op[<<iter[t \ {Max(t)}], Max(t)>>]
    <3>1. Max(t) \in 1..n /\ t \ {Max(t)} \in SUBSET (1..n)
      BY <1>5, <2>2
    <3>2. iter[t] = RemoveFrom(iter[t \ {Max(t)}], handles[Max(t)])
      BY <1>1, <1>7, <2>2
    <3> QED BY <1>3, <2>2, <3>1, <3>2
  <2> QED BY <2>1, <2>2 DEF FoldsWithin
<1>10. PICK f : FoldsTo(iter[1..n], f, n, D, a, op)
  BY <1>1, <1>3, <1>9, FoldMeans
<1>11. ASSUME NEW k \in 1..n PROVE f[k] = RemoveFrom(f[k - 1], handles[k])
  <2>1. k - 1 \in 0..n
    BY <1>1
  <2> QED BY <1>3, <1>10, <2>1 DEF FoldsTo
<1> QED BY <1>8, <1>10, <1>11 DEF n, D, FoldsTo

\* The handles of b are those of a without gone, and what they stand for is the same.
Without(a, b, gone) ==
    /\ LiveHandles(b) = LiveHandles(a) \ gone
    /\ \A h \in LiveHandles(b) : At(b, h) = At(a, h)

LEMMA RemovingAll ==
    ASSUME NEW Data, Nothing \notin Data, NEW a \in Arenas(Data), NEW handles \in Seq(Handles)
    PROVE  RemoveAll(a, handles) \in Arenas(Data) /\ Without(a, RemoveAll(a, handles), Range(handles))
<1> DEFINE n == Len(handles)
<1>1. n \in Nat /\ DOMAIN handles = 1..n /\ \A i \in 1..n : handles[i] \in Handles
  OBVIOUS
<1>2. PICK f \in [0..n -> Arenas(Data)] :
              /\ f[0] = a /\ f[n] = RemoveAll(a, handles)
              /\ \A k \in 1..n : f[k] = RemoveFrom(f[k - 1], handles[k])
  BY RemovalFold
<1> DEFINE gone(k) == {handles[i] : i \in 1..k}
           P == {k \in Nat : k <= n => Without(a, f[k], gone(k))}
<1> HIDE DEF n
<1>3. 0 \in P
  <2>1. gone(0) = {}
    OBVIOUS
  <2> HIDE DEF gone
  <2>2. Without(a, a, {})
    BY DEF Without
  <2> QED BY <1>2, <2>1, <2>2
<1>4. ASSUME NEW k \in Nat, k \in P PROVE k + 1 \in P
  <2> SUFFICES ASSUME k + 1 <= n PROVE Without(a, f[k + 1], gone(k + 1))
    <3> HIDE DEF gone
    <3> QED OBVIOUS
  <2> DEFINE d == f[k]
             h == handles[k + 1]
             e == RemoveFrom(d, h)
  <2>1. k + 1 \in 1..n /\ k \in 0..n /\ (k + 1) - 1 = k
    BY <1>1
  <2>2. d \in Arenas(Data) /\ h \in Handles /\ f[k + 1] = e
    BY <1>1, <1>2, <2>1
  <2>3. Without(a, d, gone(k))
    <3> HIDE DEF gone
    <3> QED BY <1>1, <1>4, <2>1
  <2>4. gone(k + 1) = gone(k) \cup {h}
    <3>1. \A i \in 1..(k + 1) : i \in 1..k \/ i = k + 1
      OBVIOUS
    <3>2. k + 1 \in 1..(k + 1) /\ \A i \in 1..k : i \in 1..(k + 1)
      OBVIOUS
    <3> QED BY <3>1, <3>2
  <2> HIDE DEF gone, d, h
  <2>5. LiveHandles(e) = LiveHandles(d) \ {h} /\ \A x \in LiveHandles(e) : At(e, x) = At(d, x)
    BY <2>2, Removing
  <2> HIDE DEF e
  <2>6. Without(a, e, gone(k) \cup {h})
    BY <2>3, <2>5 DEF Without
  <2> QED BY <2>2, <2>4, <2>6
<1> HIDE DEF P
<1>5. n \in P
  BY <1>1, <1>3, <1>4, NumbersBySteps
<1>6. Without(a, f[n], gone(n)) /\ f[n] \in Arenas(Data)
  BY <1>1, <1>2, <1>5 DEF P
<1>7. gone(n) = Range(handles)
  BY <1>1 DEF Range
<1> HIDE DEF gone
<1> QED BY <1>2, <1>6, <1>7

\* What erase_operation leaves of n, in which the operands of the tree below root are unlinked.
Dismantled(m, n, root) ==
    LET b == Operation(m, root).parent
        detached == WithBlock(n, b, [Block(n, b) EXCEPT !.operations = RemoveFirst(@, root)])
    IN  [detached EXCEPT !.values = RemoveAll(@, OwnedValues(m, root)),
                         !.operations = RemoveAll(@, PostOrder(m, root)),
                         !.attached = @ \ Range(PostOrder(m, root)),
                         !.blocks = RemoveAll(@, Reverse(OwnedBlocks(m, root))),
                         !.regions = RemoveAll(@, Reverse(OwnedRegions(m, root)))]

Dismantles(m, n, e, root, T) ==
    LET b == Operation(m, root).parent IN
    /\ e \in Modules(Types) /\ e.attached = m.attached \ T
    /\ Operations(e) = Operations(m) \ T
    /\ \A o \in Operations(e) : Operation(e, o) = Operation(n, o)
    /\ Values(e) = Values(m) \ TreeValues(m, T)
    /\ \A v \in Values(e) : Value(e, v) = Value(n, v)
    /\ Regions(e) = Regions(m) \ TreeRegions(m, T)
    /\ \A r \in Regions(e) : Region(e, r) = Region(m, r)
    /\ Blocks(e) = Blocks(m) \ TreeBlocks(m, T)
    /\ \A c \in Blocks(e) : c # b => Block(e, c) = Block(m, c)
    /\ b \in Blocks(e)
    /\ Block(e, b) = [Block(m, b) EXCEPT !.operations = RemoveFirst(Block(m, b).operations, root)]

LEMMA Dismantling ==
    ASSUME NEW m \in Modules(Types), Agrees(m), NEW root \in Operations(m), IsInjective(PreOrder(m, root)),
           NEW n \in Modules(Types), SameShape(m, n)
    PROVE  LET T == Range(PreOrder(m, root))
           IN  IsTree(m, T, root) /\ Dismantles(m, n, Dismantled(m, n, root), root, T)
<1> DEFINE b == Operation(m, root).parent
           T == Range(PreOrder(m, root))
           post == PostOrder(m, root)
           x == [Block(n, b) EXCEPT !.operations = RemoveFirst(Block(n, b).operations, root)]
           d == WithBlock(n, b, x)
           e == Dismantled(m, n, root)
           vs == OwnedValues(m, root)
           bs == Reverse(OwnedBlocks(m, root))
           rs == Reverse(OwnedRegions(m, root))
<1>1. /\ PreOrder(m, root) \in Seq(Operations(m)) /\ post \in Seq(Operations(m)) /\ Range(post) = T
      /\ IsTree(m, T, root)
  BY TreeWalked
<1>2. /\ vs \in Seq(Values(m)) /\ Range(vs) = TreeValues(m, T)
  BY <1>1, OwnedValuesAre
<1>3. bs \in Seq(Blocks(m)) /\ Range(bs) = TreeBlocks(m, T)
  BY <1>1, OwnedBlocksAre, Reversed
<1>4. rs \in Seq(Regions(m)) /\ Range(rs) = TreeRegions(m, T)
  BY <1>1, OwnedRegionsAre, Reversed
<1>5. /\ Operations(m) \subseteq Handles /\ Values(m) \subseteq Handles
      /\ Blocks(m) \subseteq Handles /\ Regions(m) \subseteq Handles
  BY ModuleHandles
<1>6. b \in Blocks(m) /\ root \in Range(Block(m, b).operations) /\ Block(m, b).parent \in Regions(m)
      /\ Owner(m, root) = Region(m, Block(m, b).parent).parent
  BY OwnerOf
<1>7. b \notin TreeBlocks(m, T)
  <2>1. Owner(m, root) \notin T
    BY <1>1 DEF IsTree
  <2> QED BY <1>6, <2>1 DEF TreeBlocks, TreeRegions
<1> HIDE DEF T, post, vs, bs, rs, b
<1>8. n.regions = m.regions /\ n.blocks = m.blocks /\ n.attached = m.attached
      /\ Operations(n) = Operations(m) /\ Values(n) = Values(m)
  BY DEF SameShape
<1>9. Blocks(n) = Blocks(m) /\ Block(n, b) = Block(m, b)
  BY <1>8 DEF Blocks, Block
<1>10. x \in BlockData /\ x = [Block(m, b) EXCEPT !.operations = RemoveFirst(Block(m, b).operations, root)]
  <2> DEFINE s == Block(m, b).operations
             t == RemoveFirst(s, root)
  <2>1. Block(m, b) \in BlockData
    BY <1>6, BlockFields
  <2>2. s \in Seq(Handles) /\ IsInjective(s) /\ root \in Range(s)
    BY <1>6, BlockOperations
  <2> HIDE DEF s
  <2>3. t \in Seq(Handles)
    BY <2>2, RemovedOnce
  <2>4. x = [Block(m, b) EXCEPT !.operations = t]
    BY <1>9 DEF s
  <2> HIDE DEF t, x
  <2>5. x \in BlockData
    BY <2>1, <2>3, <2>4 DEF BlockData
  <2> QED BY <2>4, <2>5 DEF s, t
<1> HIDE DEF x
<1>11. d \in Modules(Types) /\ Changed(n, d, "blocks") /\ Puts(n.blocks, d.blocks, b, x)
  BY <1>6, <1>9, <1>10, BlockStored
<1> HIDE DEF d
<1>12. /\ d.regions = m.regions /\ d.operations = n.operations /\ d.values = n.values /\ d.attached = m.attached
  BY <1>8, <1>11 DEF Changed
<1>13. /\ d = [regions |-> d.regions, blocks |-> d.blocks, operations |-> d.operations,
               values |-> d.values, attached |-> d.attached]
       /\ d.regions \in Arenas(RegionData) /\ d.blocks \in Arenas(BlockData)
       /\ d.operations \in Arenas(OperationData) /\ d.values \in Arenas(ValueData(Types))
       /\ d.attached \in SUBSET Handles
  BY <1>11, ModuleParts
<1>14. e = [regions |-> RemoveAll(d.regions, rs), blocks |-> RemoveAll(d.blocks, bs),
            operations |-> RemoveAll(d.operations, post), values |-> RemoveAll(d.values, vs),
            attached |-> d.attached \ T]
  <2>1. e = [d EXCEPT !.values = RemoveAll(d.values, vs),
                      !.operations = RemoveAll(d.operations, post),
                      !.attached = d.attached \ Range(post),
                      !.blocks = RemoveAll(d.blocks, bs),
                      !.regions = RemoveAll(d.regions, rs)]
    BY <1>13 DEF Dismantled, d, x, b, vs, bs, rs, post
  <2> HIDE DEF e
  <2> QED BY <1>1, <1>13, <2>1
<1> HIDE DEF e
<1>15. rs \in Seq(Handles) /\ bs \in Seq(Handles) /\ post \in Seq(Handles) /\ vs \in Seq(Handles)
  BY <1>1, <1>2, <1>3, <1>4, <1>5
<1>16. e.regions \in Arenas(RegionData) /\ Without(m.regions, e.regions, TreeRegions(m, T))
  BY <1>4, <1>12, <1>13, <1>14, <1>15, DataIsSomething, RemovingAll
<1>17. e.blocks \in Arenas(BlockData) /\ Without(d.blocks, e.blocks, TreeBlocks(m, T))
  BY <1>3, <1>13, <1>14, <1>15, DataIsSomething, RemovingAll
<1>18. e.operations \in Arenas(OperationData) /\ Without(n.operations, e.operations, T)
  BY <1>1, <1>12, <1>13, <1>14, <1>15, DataIsSomething, RemovingAll
<1>19. e.values \in Arenas(ValueData(Types)) /\ Without(n.values, e.values, TreeValues(m, T))
  BY <1>2, <1>12, <1>13, <1>14, <1>15, DataIsSomething, RemovingAll
<1>20. e \in Modules(Types) /\ e.attached = m.attached \ T
  <2>1. e.attached = m.attached \ T /\ e.attached \in SUBSET Handles
    BY <1>12, <1>13, <1>14
  <2>2. e = [regions |-> e.regions, blocks |-> e.blocks, operations |-> e.operations,
             values |-> e.values, attached |-> e.attached]
    BY <1>14
  <2> QED BY <1>16, <1>17, <1>18, <1>19, <2>1, <2>2 DEF Modules
<1>21. Operations(e) = Operations(m) \ T /\ \A o \in Operations(e) : Operation(e, o) = Operation(n, o)
  BY <1>8, <1>18 DEF Without, Operations, Operation
<1>22. Values(e) = Values(m) \ TreeValues(m, T) /\ \A v \in Values(e) : Value(e, v) = Value(n, v)
  BY <1>8, <1>19 DEF Without, Values, Value
<1>23. Regions(e) = Regions(m) \ TreeRegions(m, T) /\ \A r \in Regions(e) : Region(e, r) = Region(m, r)
  BY <1>16 DEF Without, Regions, Region
<1>24. /\ Blocks(d) = Blocks(m) /\ Block(d, b) = x /\ \A c \in Blocks(m) : c # b => Block(d, c) = Block(m, c)
  BY <1>6, <1>8, <1>11 DEF Puts, Blocks, Block
<1>25. Blocks(e) = Blocks(m) \ TreeBlocks(m, T) /\ \A c \in Blocks(e) : Block(e, c) = Block(d, c)
  BY <1>17, <1>24 DEF Without, Blocks, Block
<1>26. b \in Blocks(e) /\ Block(e, b) = x /\ \A c \in Blocks(e) : c # b => Block(e, c) = Block(m, c)
  BY <1>6, <1>7, <1>24, <1>25
<1>27. Dismantles(m, n, e, root, T)
  BY <1>10, <1>20, <1>21, <1>22, <1>23, <1>25, <1>26 DEF Dismantles, b
<1> QED BY <1>1, <1>27 DEF T, e

-----------------------------------------------------------------------------
(* Erasing.                                                                  *)

LEMMA RegionsRemain ==
    ASSUME NEW m \in Modules(Types), Agrees(m), NEW n, NEW e, NEW root \in Operations(m), NEW T,
           IsTree(m, T, root), SameShape(m, n), Dismantles(m, n, e, root, T)
    PROVE  RegionsAgree(e)
<1>1. RegionsAgree(m) /\ ModuleOwned \notin Operations(m)
  BY ModuleHandles DEF Agrees
<1>2. T \subseteq Operations(m)
  BY DEF IsTree
<1>3. RootRegion \in Regions(m) /\ RootBlock \in Blocks(m) /\ Block(m, RootBlock).parent = RootRegion
      /\ Region(m, RootRegion).parent = ModuleOwned
  BY <1>1 DEF RegionsAgree
<1>4. RootRegion \notin TreeRegions(m, T)
  BY <1>1, <1>2, <1>3 DEF TreeRegions
<1>5. RootBlock \notin TreeBlocks(m, T)
  BY <1>3, <1>4 DEF TreeBlocks
<1>6. \A c \in Blocks(e) : Block(e, c).parent = Block(m, c).parent
  <2> SUFFICES ASSUME NEW c \in Blocks(e) PROVE Block(e, c).parent = Block(m, c).parent
    OBVIOUS
  <2>1. CASE c = Operation(m, root).parent
    <3> DEFINE t == RemoveFirst(Block(m, c).operations, root)
    <3>1. c \in Blocks(m) /\ Block(e, c) = [Block(m, c) EXCEPT !.operations = t]
      BY <2>1, OwnerOf DEF Dismantles
    <3>2. Block(m, c) \in BlockData
      BY <3>1, BlockFields
    <3> HIDE DEF t
    <3> QED BY <3>1, <3>2 DEF BlockData
  <2>2. CASE c # Operation(m, root).parent
    BY <2>2 DEF Dismantles
  <2> QED BY <2>1, <2>2
<1>7. RootRegion \in Regions(e) /\ RootBlock \in Blocks(e) /\ Block(e, RootBlock).parent = RootRegion
  BY <1>3, <1>4, <1>5, <1>6 DEF Dismantles
<1>8. /\ Regions(e) = Regions(m) \ TreeRegions(m, T) /\ Blocks(e) = Blocks(m) \ TreeBlocks(m, T)
      /\ Operations(e) = Operations(m) \ T
      /\ \A r \in Regions(e) : Region(e, r) = Region(m, r)
      /\ \A o \in Operations(e) : Operation(e, o).regions = Operation(m, o).regions
  BY DEF Dismantles, SameShape
<1>9. ASSUME NEW r \in Regions(e)
      PROVE  LET region == Region(e, r) IN
             /\ IsInjective(region.blocks)
             /\ \A b \in Range(region.blocks) : b \in Blocks(e) /\ Block(e, b).parent = r
             /\ region.parent = ModuleOwned <=> r = RootRegion
             /\ r # RootRegion =>
                  /\ region.parent \in Operations(e)
                  /\ r \in Range(Operation(e, region.parent).regions)
  <2>1. r \in Regions(m) /\ r \notin TreeRegions(m, T) /\ Region(e, r) = Region(m, r)
    BY <1>8
  <2>2. /\ IsInjective(Region(m, r).blocks)
        /\ \A b \in Range(Region(m, r).blocks) : b \in Blocks(m) /\ Block(m, b).parent = r
        /\ Region(m, r).parent = ModuleOwned <=> r = RootRegion
        /\ r # RootRegion =>
             /\ Region(m, r).parent \in Operations(m)
             /\ r \in Range(Operation(m, Region(m, r).parent).regions)
    BY <1>1, <2>1 DEF RegionsAgree
  <2>3. ASSUME NEW b \in Range(Region(m, r).blocks) PROVE b \in Blocks(e) /\ Block(e, b).parent = r
    <3>1. b \notin TreeBlocks(m, T)
      BY <2>1, <2>2 DEF TreeBlocks
    <3> QED BY <1>6, <1>8, <2>2, <3>1
  <2>4. ASSUME r # RootRegion
        PROVE  Region(m, r).parent \in Operations(e) /\ r \in Range(Operation(e, Region(m, r).parent).regions)
    <3>1. Region(m, r).parent \notin T
      BY <2>1 DEF TreeRegions
    <3> QED BY <1>8, <2>2, <2>4, <3>1
  <2> QED BY <2>1, <2>2, <2>3, <2>4
<1> QED BY <1>7, <1>9 DEF RegionsAgree

LEMMA BlocksRemain ==
    ASSUME NEW m \in Modules(Types), Agrees(m), NEW n, NEW e, NEW root \in Operations(m), NEW T,
           IsTree(m, T, root), SameShape(m, n), Dismantles(m, n, e, root, T)
    PROVE  BlocksAgree(e) /\ PlacesAgree(e)
<1> DEFINE b == Operation(m, root).parent
           s == Block(m, b).operations
           t == RemoveFirst(s, root)
<1>1. BlocksAgree(m) /\ PlacesAgree(m)
  BY AgreementSplits DEF Owned
<1>2. T \subseteq Operations(m) /\ root \in T /\ \A o \in Operations(m) : Owner(m, o) \in T <=> o \in T /\ o # root
  BY DEF IsTree
<1>3. /\ Operations(e) = Operations(m) \ T /\ Values(e) = Values(m) \ TreeValues(m, T)
      /\ Regions(e) = Regions(m) \ TreeRegions(m, T) /\ Blocks(e) = Blocks(m) \ TreeBlocks(m, T)
      /\ \A r \in Regions(e) : Region(e, r) = Region(m, r)
      /\ \A c \in Blocks(e) : c # b => Block(e, c) = Block(m, c)
      /\ b \in Blocks(e) /\ Block(e, b) = [Block(m, b) EXCEPT !.operations = t]
  BY DEF Dismantles
<1>4. \A o \in Operations(e) : /\ Operation(e, o).parent = Operation(m, o).parent
                               /\ Operation(e, o).results = Operation(m, o).results
                               /\ Operation(e, o).regions = Operation(m, o).regions
                               /\ Len(Operation(e, o).operands) = Len(Operation(m, o).operands)
                               /\ Len(Operation(e, o).links) = Len(Operation(m, o).links)
  <2>1. \A o \in Operations(e) : o \in Operations(m) /\ Operation(e, o) = Operation(n, o)
    BY DEF Dismantles
  <2> QED BY <2>1 DEF SameShape
<1>5. \A v \in Values(e) : Value(e, v).definition = Value(m, v).definition
  <2>1. \A v \in Values(e) : v \in Values(m) /\ Value(e, v) = Value(n, v)
    BY DEF Dismantles
  <2> QED BY <2>1 DEF SameShape
<1>6. Block(m, b) \in BlockData /\ s \in Seq(Handles) /\ IsInjective(s) /\ root \in Range(s)
  <2>1. b \in Blocks(m) /\ root \in Range(s)
    BY OwnerOf
  <2> QED BY <2>1, BlockFields, BlockOperations
<1> HIDE DEF b, s
<1>7. t \in Seq(Handles) /\ IsInjective(t) /\ Range(t) = Range(s) \ {root}
  BY <1>6, RemovedOnce
<1> HIDE DEF t
<1>8. /\ Block(e, b).parent = Block(m, b).parent /\ Block(e, b).arguments = Block(m, b).arguments
      /\ Block(e, b).operations = t
  BY <1>3, <1>6 DEF BlockData
\* The operations of a block that remains: as before, without root.
<1>9. ASSUME NEW c \in Blocks(e)
      PROVE  /\ Block(e, c).parent = Block(m, c).parent /\ Block(e, c).arguments = Block(m, c).arguments
             /\ IsInjective(Block(e, c).operations)
             /\ Range(Block(e, c).operations) = Range(Block(m, c).operations) \ {root}
  <2>1. CASE c = b
    BY <1>7, <1>8, <2>1 DEF s
  <2>2. CASE c # b
    <3>1. Block(e, c) = Block(m, c) /\ c \in Blocks(m)
      BY <1>3, <2>2
    <3>2. root \notin Range(Block(m, c).operations)
      BY <2>2, <3>1, OwnerOf DEF b
    <3>3. IsInjective(Block(m, c).operations)
      BY <1>1, <3>1 DEF BlocksAgree
    <3> QED BY <3>1, <3>2, <3>3
  <2> QED BY <2>1, <2>2
\* An operation remains when and only when its block does.
<1>10. ASSUME NEW o \in Operations(m), o # root PROVE o \in T <=> Operation(m, o).parent \in TreeBlocks(m, T)
  <2>1. /\ Operation(m, o).parent \in Blocks(m) /\ Block(m, Operation(m, o).parent).parent \in Regions(m)
        /\ Owner(m, o) = Region(m, Block(m, Operation(m, o).parent).parent).parent
    BY OwnerOf
  <2> QED BY <1>2, <1>10, <2>1 DEF TreeBlocks, TreeRegions
<1>11. ASSUME NEW c \in Blocks(e)
       PROVE  LET block == Block(e, c) IN
              /\ block.parent \in Regions(e) /\ c \in Range(Region(e, block.parent).blocks)
              /\ \A i \in DOMAIN block.arguments :
                    /\ block.arguments[i] \in Values(e)
                    /\ Value(e, block.arguments[i]).definition = Argument(c, i)
              /\ IsInjective(block.operations)
              /\ \A o \in Range(block.operations) : o \in Operations(e) /\ Operation(e, o).parent = c
  <2>1. c \in Blocks(m) /\ c \notin TreeBlocks(m, T)
    BY <1>3
  <2>2. /\ Block(m, c).parent \in Regions(m) /\ c \in Range(Region(m, Block(m, c).parent).blocks)
        /\ \A i \in DOMAIN Block(m, c).arguments :
              /\ Block(m, c).arguments[i] \in Values(m)
              /\ Value(m, Block(m, c).arguments[i]).definition = Argument(c, i)
        /\ \A o \in Range(Block(m, c).operations) : o \in Operations(m) /\ Operation(m, o).parent = c
    BY <1>1, <2>1 DEF BlocksAgree
  <2>3. Block(m, c).parent \in Regions(e)
    BY <1>3, <2>1, <2>2 DEF TreeBlocks
  <2>4. ASSUME NEW i \in DOMAIN Block(m, c).arguments
        PROVE  /\ Block(m, c).arguments[i] \in Values(e)
               /\ Value(e, Block(m, c).arguments[i]).definition = Argument(c, i)
    <3> DEFINE v == Block(m, c).arguments[i]
    <3>1. v \in Values(m) /\ Value(m, v).definition = Argument(c, i)
      BY <2>2
    <3>2. Argument(c, i).kind = "argument" /\ Argument(c, i).owner = c
      BY DEF Argument
    <3> HIDE DEF v
    <3>3. v \notin TreeValues(m, T)
      BY <2>1, <3>1, <3>2 DEF TreeValues, DefinedIn
    <3> QED BY <1>3, <1>5, <3>1, <3>3 DEF v
  <2>5. ASSUME NEW o \in Range(Block(m, c).operations), o # root
        PROVE  o \in Operations(e) /\ Operation(e, o).parent = c
    BY <1>3, <1>4, <1>10, <2>1, <2>2, <2>5
  <2> QED BY <1>3, <1>9, <2>2, <2>3, <2>4, <2>5
<1>12. ASSUME NEW o \in Operations(e)
       PROVE  LET op == Operation(e, o) IN
              /\ op.parent \in Blocks(e) /\ o \in Range(Block(e, op.parent).operations)
              /\ Len(op.operands) = Len(op.links)
              /\ \A i \in DOMAIN op.results :
                    op.results[i] \in Values(e) /\ Value(e, op.results[i]).definition = Result(o, i)
              /\ \A r \in Range(op.regions) : r \in Regions(e) /\ Region(e, r).parent = o
  <2>1. o \in Operations(m) /\ o \notin T /\ o # root
    BY <1>2, <1>3
  <2>2. /\ Operation(m, o).parent \in Blocks(m) /\ o \in Range(Block(m, Operation(m, o).parent).operations)
        /\ Len(Operation(m, o).operands) = Len(Operation(m, o).links)
        /\ \A i \in DOMAIN Operation(m, o).results :
              /\ Operation(m, o).results[i] \in Values(m)
              /\ Value(m, Operation(m, o).results[i]).definition = Result(o, i)
        /\ \A r \in Range(Operation(m, o).regions) : r \in Regions(m) /\ Region(m, r).parent = o
    BY <1>1, <2>1 DEF PlacesAgree
  <2>3. Operation(m, o).parent \in Blocks(e)
    BY <1>3, <1>10, <2>1, <2>2
  <2>4. o \in Range(Block(e, Operation(m, o).parent).operations)
    BY <1>9, <2>1, <2>2, <2>3
  <2>5. ASSUME NEW i \in DOMAIN Operation(m, o).results
        PROVE  /\ Operation(m, o).results[i] \in Values(e)
               /\ Value(e, Operation(m, o).results[i]).definition = Result(o, i)
    <3> DEFINE v == Operation(m, o).results[i]
    <3>1. v \in Values(m) /\ Value(m, v).definition = Result(o, i)
      BY <2>2
    <3>2. Result(o, i).kind = "result" /\ Result(o, i).owner = o
      BY DEF Result
    <3> HIDE DEF v
    <3>3. v \notin TreeValues(m, T)
      BY <2>1, <3>1, <3>2 DEF TreeValues, DefinedIn
    <3> QED BY <1>3, <1>5, <3>1, <3>3 DEF v
  <2>6. ASSUME NEW r \in Range(Operation(m, o).regions) PROVE r \in Regions(e) /\ Region(e, r).parent = o
    BY <1>3, <2>1, <2>2 DEF TreeRegions
  <2> QED BY <1>4, <2>2, <2>3, <2>4, <2>5, <2>6
<1>13. BlocksAgree(e)
  BY <1>11 DEF BlocksAgree
<1>14. PlacesAgree(e)
  BY <1>12 DEF PlacesAgree
<1> QED BY <1>13, <1>14
LEMMA DefinitionsRemain ==
    ASSUME NEW m \in Modules(Types), Agrees(m), NEW n, NEW e, NEW root \in Operations(m), NEW T,
           IsTree(m, T, root), SameShape(m, n), Dismantles(m, n, e, root, T)
    PROVE  DefinitionsAgree(e)
<1>1. DefinitionsAgree(m)
  BY AgreementSplits DEF Owned
<1>2. ASSUME NEW v \in Values(e) PROVE DefinitionAgrees(e, v)
  <2> DEFINE d == Value(m, v).definition
  <2>1. v \in Values(m) /\ v \notin TreeValues(m, T) /\ Value(e, v) = Value(n, v)
    BY <1>2 DEF Dismantles
  <2>2. Value(e, v).definition = d
    BY <2>1 DEF SameShape
  <2>3. d.kind \in {"argument", "result"}
    <3>1. d \in Definitions
      BY <2>1, ValueFields
    <3> QED BY <3>1 DEF Definitions
  <2>4. DefinitionAgrees(m, v)
    BY <1>1, <2>1 DEF DefinitionsAgree
  <2>5. CASE d.kind = "argument"
    <3>1. d.owner \in Blocks(m) /\ d.index \in DOMAIN Block(m, d.owner).arguments
          /\ Block(m, d.owner).arguments[d.index] = v
      BY <2>4, <2>5 DEF DefinitionAgrees
    <3>2. d.owner \notin TreeBlocks(m, T)
      BY <2>1, <2>5 DEF TreeValues, DefinedIn
    <3> HIDE DEF d
    <3>3. d.owner \in Blocks(e)
      BY <3>1, <3>2 DEF Dismantles
    <3>4. Block(e, d.owner).arguments = Block(m, d.owner).arguments
      <4>1. CASE d.owner = Operation(m, root).parent
        <5> DEFINE t == RemoveFirst(Block(m, d.owner).operations, root)
        <5>1. Block(e, d.owner) = [Block(m, d.owner) EXCEPT !.operations = t]
          BY <4>1 DEF Dismantles
        <5>2. Block(m, d.owner) \in BlockData
          BY <3>1, BlockFields
        <5> HIDE DEF t
        <5> QED BY <5>1, <5>2 DEF BlockData
      <4>2. CASE d.owner # Operation(m, root).parent
        BY <3>3, <4>2 DEF Dismantles
      <4> QED BY <4>1, <4>2
    <3> QED BY <2>2, <2>5, <3>1, <3>3, <3>4 DEF DefinitionAgrees
  <2>6. CASE d.kind = "result"
    <3>1. d.owner \in Operations(m) /\ d.index \in DOMAIN Operation(m, d.owner).results
          /\ Operation(m, d.owner).results[d.index] = v
      BY <2>4, <2>6 DEF DefinitionAgrees
    <3>2. d.owner \notin T
      BY <2>1, <2>6 DEF TreeValues, DefinedIn
    <3> HIDE DEF d
    <3>3. d.owner \in Operations(e) /\ Operation(e, d.owner) = Operation(n, d.owner)
      BY <3>1, <3>2 DEF Dismantles
    <3>4. Operation(e, d.owner).results = Operation(m, d.owner).results
      BY <3>1, <3>3 DEF SameShape
    <3> QED BY <2>2, <2>6, <3>1, <3>3, <3>4 DEF DefinitionAgrees
  <2> QED BY <2>3, <2>5, <2>6
<1> QED BY <1>2 DEF DefinitionsAgree

\* No value of the tree is used outside it, so the uses that remain are the uses
\* of values that remain.
LEMMA UsesRemain ==
    ASSUME NEW m \in Modules(Types), Agrees(m), NEW n \in Modules(Types), NEW e, NEW root \in Operations(m),
           NEW T, SameShape(m, n), Dismantles(m, n, e, root, T),
           \A u \in AllUses(m) : OperandAt(n, u) = OperandAt(m, u),
           UsesAgree(n, {u \in AllUses(m) : u.user \notin T}),
           \A v \in TreeValues(m, T) : \A k \in DOMAIN UsesOf(m, v) : UsesOf(m, v)[k].user \in T
    PROVE  UsesAgree(e, AllUses(e))
<1> DEFINE linked == {u \in AllUses(m) : u.user \notin T}
<1>1. /\ Operations(e) = Operations(m) \ T /\ \A o \in Operations(e) : Operation(e, o) = Operation(n, o)
      /\ Values(e) = Values(m) \ TreeValues(m, T) /\ \A v \in Values(e) : Value(e, v) = Value(n, v)
      /\ Operations(n) = Operations(m) /\ Values(n) = Values(m)
  BY DEF Dismantles, SameShape
<1>2. \A u : HasOperand(e, u) <=> HasOperand(m, u) /\ u.user \notin T
  <2>1. \A u : HasOperand(e, u) <=> HasOperand(n, u) /\ u.user \notin T
    BY <1>1 DEF HasOperand
  <2> QED BY <2>1, SameOperands
<1>3. AllUses(e) = linked
  BY <1>2 DEF AllUses
<1>4. ASSUME NEW u \in linked
      PROVE  /\ HasOperand(e, u) /\ OperandAt(e, u) = OperandAt(n, u) /\ LinkAt(e, u) = LinkAt(n, u)
             /\ OperandAt(e, u) \in Values(e)
  <2>1. u \in AllUses(m) /\ u.user \notin T /\ HasOperand(m, u) /\ HasOperand(e, u)
    BY <1>2 DEF AllUses
  <2>2. OperandAt(e, u) = OperandAt(n, u) /\ LinkAt(e, u) = LinkAt(n, u)
    BY <1>1, <2>1 DEF HasOperand, OperandAt, LinkAt
  <2> DEFINE v == OperandAt(m, u)
  <2>3. v \in Values(m) /\ LinkAt(m, u) \in DOMAIN UsesOf(m, v) /\ UsesOf(m, v)[LinkAt(m, u)] = u
    BY <2>1, AgreementSplits DEF UsesAgree
  <2>4. v \notin TreeValues(m, T)
    BY <2>1, <2>3
  <2>5. OperandAt(e, u) = v
    BY <2>1, <2>2
  <2> QED BY <1>1, <2>1, <2>2, <2>3, <2>4, <2>5
<1>5. \A v \in Values(e) : v \in Values(n) /\ UsesOf(e, v) = UsesOf(n, v)
  BY <1>1 DEF UsesOf
<1> HIDE DEF linked
<1>6. UsesAgree(n, linked)
  BY DEF linked
<1>7. ASSUME NEW u \in linked
      PROVE  /\ HasOperand(e, u) /\ OperandAt(e, u) \in Values(e)
             /\ LinkAt(e, u) \in DOMAIN UsesOf(e, OperandAt(e, u))
             /\ UsesOf(e, OperandAt(e, u))[LinkAt(e, u)] = u
  BY <1>4, <1>5, <1>6 DEF UsesAgree
<1>8. ASSUME NEW v \in Values(e), NEW k \in DOMAIN UsesOf(e, v)
      PROVE  /\ UsesOf(e, v)[k] \in linked
             /\ OperandAt(e, UsesOf(e, v)[k]) = v
             /\ LinkAt(e, UsesOf(e, v)[k]) = k
  <2>1. UsesOf(e, v) = UsesOf(n, v) /\ v \in Values(n) /\ k \in DOMAIN UsesOf(n, v)
    BY <1>5
  <2>2. UsesOf(n, v)[k] \in linked /\ OperandAt(n, UsesOf(n, v)[k]) = v /\ LinkAt(n, UsesOf(n, v)[k]) = k
    BY <1>6, <2>1 DEF UsesAgree
  <2> QED BY <1>4, <2>1, <2>2
<1>9. UsesAgree(e, linked)
  BY <1>7, <1>8 DEF UsesAgree
<1> QED BY <1>3, <1>9

\* Some operations are gone; the others stay where they are.
Reduces(m, n) ==
    /\ m.attached \subseteq Operations(m) => n.attached \subseteq Operations(n)
    /\ Operations(n) \subseteq Operations(m)
    /\ \A o \in Operations(n) : Operation(n, o).parent = Operation(m, o).parent
    /\ \A b \in Blocks(n) : Block(n, b).parent = Block(m, b).parent
    /\ \A r \in Regions(n) : Region(n, r).parent = Region(m, r).parent
    /\ ListsRegionsOnce(m) => ListsRegionsOnce(n)

\* e is m without the tree T below root, and nothing else about m is different but use lists.
Cuts(m, e, root, T) ==
    /\ IsTree(m, T, root)
    /\ \E n \in Modules(Types) :
          /\ SameShape(m, n) /\ Dismantles(m, n, e, root, T)
          /\ \A u \in AllUses(m) : OperandAt(n, u) = OperandAt(m, u)

LEMMA Erasing ==
    ASSUME NEW m \in Modules(Types), Agrees(m), NEW root \in Handles
    PROVE  LET e == EraseOperation(m, root)
           IN  /\ e.ir \in Modules(Types) /\ Agrees(e.ir)
               /\ e.answer # "panic"
               /\ e.answer # "ok" => e.ir = m
               /\ e.bumps > 0 <=> e.ir # m
               /\ Reduces(m, e.ir)
               /\ e.answer = "ok" => root \in Operations(m) /\ \E T : Cuts(m, e.ir, root, T)
<1> DEFINE e == EraseOperation(m, root)
           T == Range(PreOrder(m, root))
           unlinked == UnlinkTree(m, root)
           n == unlinked.ir
           d == Dismantled(m, n, root)
<1>1. ASSUME NEW error \in {"UnknownOperation", "Corrupt", "ValueStillUsed"}, e = Refuse(m, error)
      PROVE  /\ e.ir \in Modules(Types) /\ Agrees(e.ir) /\ Reduces(m, e.ir)
             /\ e.answer # "panic" /\ e.answer # "ok" /\ e.ir = m /\ ~(e.bumps > 0)
  <2>1. e.ir = m /\ e.answer = error /\ e.bumps = 0
    BY <1>1 DEF Refuse
  <2>2. Reduces(m, m)
    BY DEF Reduces
  <2> QED BY <2>1, <2>2
<1>2. CASE ~Resolves(m.operations, root)
  <2>1. e = Refuse(m, "UnknownOperation")
    BY <1>2 DEF EraseOperation
  <2> QED BY <1>1, <2>1
<1>3. CASE Resolves(m.operations, root) /\ ~TreeAgrees(m, root)
  <2>1. e = Refuse(m, "Corrupt")
    BY <1>3 DEF EraseOperation
  <2> QED BY <1>1, <2>1
<1>4. CASE Resolves(m.operations, root) /\ TreeAgrees(m, root) /\ Escapes(m, root)
  <2>1. e = Refuse(m, "ValueStillUsed")
    BY <1>4 DEF EraseOperation
  <2> QED BY <1>1, <2>1
<1>5. CASE Resolves(m.operations, root) /\ TreeAgrees(m, root) /\ ~Escapes(m, root)
  <2>1. root \in Operations(m) /\ IsInjective(PreOrder(m, root))
    BY <1>5, ModuleHandles DEF TreeAgrees
  <2>2. /\ PreOrder(m, root) \in Seq(Operations(m)) /\ PostOrder(m, root) \in Seq(Operations(m))
        /\ IsInjective(PostOrder(m, root)) /\ Range(PostOrder(m, root)) = T
    BY <2>1, TreeWalked
  <2>3. /\ unlinked \in Unlinkings(m) /\ ~unlinked.panicked
        /\ UsesAgree(n, {u \in AllUses(m) : u.user \notin Range(PostOrder(m, root))})
    BY <2>1, <2>2, TreeIsUnlinked
  <2>4. UsesAgree(n, {u \in AllUses(m) : u.user \notin T})
    BY <2>2, <2>3
  <2>5. n \in Modules(Types) /\ SameShape(m, n) /\ \A u \in AllUses(m) : OperandAt(n, u) = OperandAt(m, u)
    BY <2>3 DEF Unlinkings
  <2>6. \A v \in TreeValues(m, T) : \A k \in DOMAIN UsesOf(m, v) : UsesOf(m, v)[k].user \in T
    <3>1. Range(OwnedValues(m, root)) = TreeValues(m, T)
      BY <2>1, <2>2, OwnedValuesAre
    <3> HIDE DEF T
    <3>2. \A v \in Range(OwnedValues(m, root)) : \A k \in DOMAIN UsesOf(m, v) : UsesOf(m, v)[k].user \in T
      BY <1>5 DEF Escapes, UsesOf, T
    <3> QED BY <3>1, <3>2
  <2>7. e = Ok(d, 1)
    BY <1>5, <2>3 DEF EraseOperation, Dismantled
  <2>8. e.ir = d /\ e.answer = "ok" /\ e.bumps = 1
    BY <2>7 DEF Ok
  <2> HIDE DEF n, unlinked
  <2>9. IsTree(m, T, root) /\ Dismantles(m, n, d, root, T)
    BY <2>1, <2>5, Dismantling
  <2> HIDE DEF T, d
  <2>10. RegionsAgree(d) /\ BlocksAgree(d) /\ PlacesAgree(d) /\ DefinitionsAgree(d)
    BY <2>1, <2>5, <2>9, RegionsRemain, BlocksRemain, DefinitionsRemain
  <2>11. UsesAgree(d, AllUses(d))
    BY <2>1, <2>4, <2>5, <2>6, <2>9, UsesRemain
  <2>12. d \in Modules(Types) /\ root \notin Operations(d)
         /\ (m.attached \subseteq Operations(m) => d.attached \subseteq Operations(d))
    BY <2>9 DEF Dismantles, IsTree
  <2>13. Agrees(d)
    BY <2>10, <2>11, <2>12, AgreementSplits DEF Owned
  <2>14. d # m
    BY <2>1, <2>12
  <2>15. Reduces(m, d)
    <3>1. Operations(d) \subseteq Operations(m) /\ \A o \in Operations(d) : Operation(d, o) = Operation(n, o)
      BY <2>9 DEF Dismantles
    <3>2. /\ \A o \in Operations(d) : Operation(d, o).parent = Operation(m, o).parent
          /\ \A o \in Operations(d) : Operation(d, o).regions = Operation(m, o).regions
      BY <2>5, <3>1 DEF SameShape
    <3>5. ListsRegionsOnce(m) => ListsRegionsOnce(d)
      BY <3>1, <3>2 DEF ListsRegionsOnce
    <3>3. \A r \in Regions(d) : Region(d, r).parent = Region(m, r).parent
      BY <2>9 DEF Dismantles
    <3>4. ASSUME NEW c \in Blocks(d) PROVE Block(d, c).parent = Block(m, c).parent
      <4> DEFINE b == Operation(m, root).parent
      <4>1. /\ Blocks(d) \subseteq Blocks(m) /\ (c # b => Block(d, c) = Block(m, c))
            /\ Block(d, b) = [Block(m, b) EXCEPT !.operations = RemoveFirst(Block(m, b).operations, root)]
        BY <2>9 DEF Dismantles
      <4>2. Block(m, c) \in BlockData
        BY <4>1, BlockFields
      <4> QED BY <4>1, <4>2 DEF BlockData
    <3> QED BY <2>12, <3>1, <3>2, <3>3, <3>4, <3>5 DEF Reduces
  <2>16. \E S : Cuts(m, d, root, S)
    BY <2>5, <2>9 DEF Cuts
  <2> QED BY <2>1, <2>8, <2>12, <2>13, <2>14, <2>15, <2>16
<1> QED BY <1>1, <1>2, <1>3, <1>4, <1>5

-----------------------------------------------------------------------------
(* Nothing is left behind.  Ownership has no cycle: among any operations one *)
(* has its owner elsewhere.  So the operations around an operation end at one *)
(* that stands in the root region.                                           *)

Rooted(m) == \A S \in SUBSET Operations(m) : S # {} => \E o \in S : Owner(m, o) \notin S

Grounded(m) == m.attached \subseteq Operations(m) /\ Rooted(m)

LEMMA OwnerIs ==
    ASSUME NEW m \in Modules(Types), Agrees(m), NEW o \in Operations(m)
    PROVE  /\ Owner(m, o) \in Operations(m) \/ Owner(m, o) = ModuleOwned
           /\ Owner(m, o) = ModuleOwned <=> Block(m, Operation(m, o).parent).parent = RootRegion
<1> DEFINE r == Block(m, Operation(m, o).parent).parent
<1>1. r \in Regions(m) /\ Owner(m, o) = Region(m, r).parent
  BY OwnerOf
<1>2. /\ Region(m, r).parent = ModuleOwned <=> r = RootRegion
      /\ r # RootRegion => Region(m, r).parent \in Operations(m)
  BY <1>1 DEF Agrees, RegionsAgree
<1> QED BY <1>1, <1>2

Owners(m, s) == {Owner(m, p) : p \in s} \ {ModuleOwned}
Outwards(m, o, k, s) == IF k = 0 THEN {o} ELSE s \cup Owners(m, s)

\* The operations around o, k levels outwards.
LEMMA EnclosingLevels ==
    ASSUME NEW m \in Modules(Types), Agrees(m), NEW o \in Operations(m)
    PROVE  LET n == Cardinality(Operations(m)) IN
           \E f \in [0..n -> SUBSET Operations(m)] :
              /\ \A k \in 0..n : f[k] = Outwards(m, o, k, f[k - 1])
              /\ Enclosing(m, o) = f[n]
<1> DEFINE n == Cardinality(Operations(m))
           D == SUBSET Operations(m)
           op == [p \in D \X (1..n) |-> Outwards(m, o, p[2], p[1])]
           outwards == CHOOSE outwards : outwards = [k \in 0..n |-> Outwards(m, o, k, outwards[k - 1])]
<1>1. n \in Nat
  BY OperationsFinite
<1>2. {o} \in D
  OBVIOUS
<1>3. ASSUME NEW s \in D, NEW k PROVE Outwards(m, o, k, s) \in D
  <2>1. Owners(m, s) \subseteq Operations(m)
    BY OwnerIs DEF Owners
  <2> QED BY <1>2, <2>1 DEF Outwards
<1>4. Enclosing(m, o) = outwards[n]
  BY DEF Enclosing, Outwards, Owners
<1>5. \A s : Outwards(m, o, 0, s) = {o}
  BY DEF Outwards
<1> HIDE DEF n, D
<1>6. op \in [D \X (1..n) -> D] /\ \A s \in D, k \in 1..n : op[<<s, k>>] = Outwards(m, o, k, s)
  BY <1>3
<1> HIDE DEF op
<1>7. PICK f : FoldsTo(f[n], f, n, D, {o}, op)
  BY <1>1, <1>2, <1>6, FoldsUp
<1>8. f \in [0..n -> D] /\ f[0] = {o} /\ \A k \in 1..n : f[k] = op[<<f[k - 1], k>>]
  BY <1>7 DEF FoldsTo
<1>9. ASSUME NEW k \in 0..n PROVE f[k] = Outwards(m, o, k, f[k - 1])
  <2>1. CASE k = 0
    BY <1>5, <1>8, <2>1
  <2>2. CASE k # 0
    <3>1. k \in 1..n /\ k - 1 \in 0..n
      BY <1>1, <2>2
    <3>2. f[k - 1] \in D
      BY <1>8, <3>1
    <3> QED BY <1>6, <1>8, <3>1, <3>2
  <2> QED BY <2>1, <2>2
<1>10. f = [k \in 0..n |-> Outwards(m, o, k, f[k - 1])]
  BY <1>8, <1>9
<1>11. outwards = [k \in 0..n |-> Outwards(m, o, k, outwards[k - 1])]
  BY <1>10
<1> HIDE DEF outwards
<1>12. \A k \in 0..n : outwards[k] = Outwards(m, o, k, outwards[k - 1])
  BY <1>11
<1> DEFINE P == {k \in Nat : k <= n => outwards[k] \in D}
<1>13. 0 \in P
  BY <1>1, <1>2, <1>5, <1>12
<1>14. ASSUME NEW k \in Nat, k \in P PROVE k + 1 \in P
  <2> SUFFICES ASSUME k + 1 <= n PROVE outwards[k + 1] \in D
    OBVIOUS
  <2>1. k + 1 \in 0..n /\ (k + 1) - 1 = k /\ outwards[k] \in D
    BY <1>1, <1>14
  <2> QED BY <1>3, <1>12, <2>1
<1> HIDE DEF P
<1>15. \A k \in Nat : k \in P
  BY <1>13, <1>14, NumbersBySteps
<1>16. \A k \in 0..n : outwards[k] \in D
  BY <1>1, <1>15 DEF P
<1>17. outwards \in [0..n -> D]
  BY <1>11, <1>16
<1> QED BY <1>4, <1>12, <1>17 DEF n, D

\* Nothing around o is missed, and nothing else is there.
LEMMA EnclosingMeans ==
    ASSUME NEW m \in Modules(Types), Agrees(m), NEW o \in Operations(m)
    PROVE  LET E == Enclosing(m, o) IN
           /\ E \in SUBSET Operations(m) /\ o \in E
           /\ Owners(m, E) \subseteq E
           /\ \A S \in SUBSET Operations(m) : o \in S /\ Owners(m, S) \subseteq S => E \subseteq S
<1> DEFINE n == Cardinality(Operations(m))
           D == SUBSET Operations(m)
           E == Enclosing(m, o)
<1>1. n \in Nat /\ IsFiniteSet(Operations(m))
  BY OperationsFinite
<1>2. PICK f \in [0..n -> D] :
         (\A k \in 0..n : f[k] = Outwards(m, o, k, f[k - 1])) /\ E = f[n]
  BY EnclosingLevels
<1>3. f[0] = {o}
  BY <1>1, <1>2 DEF Outwards
<1>4. ASSUME NEW k \in Nat, k + 1 <= n PROVE f[k + 1] = f[k] \cup Owners(m, f[k])
  <2>1. k + 1 \in 0..n /\ k + 1 # 0 /\ (k + 1) - 1 = k
    BY <1>1, <1>4
  <2> QED BY <1>2, <2>1 DEF Outwards
<1>5. \A s \in D : IsFiniteSet(s) /\ Cardinality(s) \in Nat /\ Cardinality(s) <= n
  BY <1>1, FS_Subset, FS_CardinalityType
<1> HIDE DEF n, D, E
<1>6. \A k \in 0..n : f[k] \in D
  BY <1>2
<1> DEFINE Closed(s) == Owners(m, s) \subseteq s
           P == {k \in Nat : k <= n => /\ o \in f[k]
                                       /\ Closed(f[k]) \/ Cardinality(f[k]) >= k + 1
                                       /\ \A S \in D : o \in S /\ Closed(S) => f[k] \subseteq S}
<1>7. 0 \in P
  <2>1. Cardinality({o}) = 1
    BY FS_Singleton
  <2>2. o \in f[0] /\ Cardinality(f[0]) >= 0 + 1
    BY <1>3, <2>1
  <2>3. \A S \in D : o \in S /\ Closed(S) => f[0] \subseteq S
    BY <1>3
  <2> HIDE DEF Closed
  <2> QED BY <2>2, <2>3
<1>8. ASSUME NEW k \in Nat, k \in P PROVE k + 1 \in P
  <2> SUFFICES ASSUME k + 1 <= n
               PROVE  /\ o \in f[k + 1]
                      /\ Closed(f[k + 1]) \/ Cardinality(f[k + 1]) >= (k + 1) + 1
                      /\ \A S \in D : o \in S /\ Closed(S) => f[k + 1] \subseteq S
    OBVIOUS
  <2> DEFINE s == f[k]
             t == f[k + 1]
  <2>1. k \in 0..n /\ k + 1 \in 0..n
    BY <1>1
  <2>2. /\ o \in s /\ (Closed(s) \/ Cardinality(s) >= k + 1)
        /\ \A S \in D : o \in S /\ Closed(S) => s \subseteq S
    BY <1>1, <1>8
  <2>3. t = s \cup Owners(m, s) /\ s \in D /\ t \in D
    BY <1>4, <1>6, <2>1
  <2> HIDE DEF s, t
  <2>4. Closed(t) \/ Cardinality(t) >= (k + 1) + 1
    <3>1. CASE Closed(s)
      <4>1. t = s
        BY <2>3, <3>1
      <4> QED BY <3>1, <4>1
    <3>2. CASE ~Closed(s)
      <4>1. s \subseteq t /\ s # t
        BY <2>3, <3>2
      <4>2. /\ IsFiniteSet(t) /\ Cardinality(s) \in Nat /\ Cardinality(t) \in Nat
        BY <1>5, <2>3
      <4>3. Cardinality(s) < Cardinality(t)
        BY <4>1, <4>2, FS_Subset
      <4>4. Cardinality(s) >= k + 1
        BY <2>2, <3>2
      <4> HIDE DEF Closed
      <4> QED BY <4>2, <4>3, <4>4
    <3> QED BY <3>1, <3>2
  <2>5. ASSUME NEW S \in D, o \in S, Closed(S) PROVE t \subseteq S
    <3>1. s \subseteq S
      BY <2>2, <2>5
    <3>2. Owners(m, s) \subseteq S
      BY <2>5, <3>1 DEF Owners
    <3> QED BY <2>3, <3>1, <3>2
  <2>6. o \in t
    BY <2>2, <2>3
  <2> HIDE DEF Closed
  <2> QED BY <2>4, <2>5, <2>6 DEF t
<1> HIDE DEF P
<1>9. n \in P
  BY <1>1, <1>7, <1>8, NumbersBySteps
<1>10. /\ o \in E /\ (Closed(E) \/ Cardinality(E) >= n + 1)
       /\ \A S \in D : o \in S /\ Closed(S) => E \subseteq S
  BY <1>1, <1>2, <1>9 DEF P
<1>11. E \in D /\ Cardinality(E) \in Nat /\ Cardinality(E) <= n
  BY <1>1, <1>2, <1>5
<1>12. Closed(E)
  <2> HIDE DEF Closed
  <2> QED BY <1>1, <1>10, <1>11
<1> QED BY <1>10, <1>11, <1>12 DEF E, D

LEMMA GroundedMeans ==
    ASSUME NEW m \in Modules(Types), Agrees(m)
    PROVE  LeaksNothing(m) <=> Grounded(m)
<1>1. ASSUME NEW o \in Operations(m)
      PROVE  RootRegion \in {Block(m, Operation(m, p).parent).parent : p \in Enclosing(m, o)}
             <=> \E p \in Enclosing(m, o) : Owner(m, p) = ModuleOwned
  <2>1. Enclosing(m, o) \in SUBSET Operations(m)
    BY EnclosingMeans
  <2>2. \A p \in Enclosing(m, o) :
           Owner(m, p) = ModuleOwned <=> Block(m, Operation(m, p).parent).parent = RootRegion
    BY <2>1, OwnerIs
  <2> QED BY <2>2
<1>2. ASSUME Rooted(m), NEW o \in Operations(m) PROVE \E p \in Enclosing(m, o) : Owner(m, p) = ModuleOwned
  <2> DEFINE E == Enclosing(m, o)
  <2>1. E \in SUBSET Operations(m) /\ o \in E /\ Owners(m, E) \subseteq E
    BY EnclosingMeans
  <2> HIDE DEF E
  <2>2. PICK p \in E : Owner(m, p) \notin E
    BY <1>2, <2>1 DEF Rooted
  <2>3. Owner(m, p) = ModuleOwned
    BY <2>1, <2>2 DEF Owners
  <2> QED BY <2>3 DEF E
<1>3. ASSUME \A o \in Operations(m) : \E p \in Enclosing(m, o) : Owner(m, p) = ModuleOwned PROVE Rooted(m)
  <2> SUFFICES ASSUME NEW S \in SUBSET Operations(m), NEW o \in S, \A p \in S : Owner(m, p) \in S
               PROVE  FALSE
    BY DEF Rooted
  <2>1. Enclosing(m, o) \subseteq S
    <3>1. Owners(m, S) \subseteq S
      BY DEF Owners
    <3> QED BY <3>1, EnclosingMeans
  <2>2. PICK p \in Enclosing(m, o) : Owner(m, p) = ModuleOwned
    BY <1>3
  <2>3. ModuleOwned \in Operations(m)
    BY <2>1, <2>2
  <2> QED BY <2>3, ModuleHandles
<1> QED BY <1>1, <1>2, <1>3 DEF LeaksNothing, Grounded

\* What is added stands in what was there, so the operations keep their roots.
LEMMA EnlargedIsGrounded ==
    ASSUME NEW m \in Modules(Types), Agrees(m), NEW n \in Modules(Types), Agrees(n),
           Enlarges(m, n), Grounded(m)
    PROVE  Grounded(n)
<1>1. ASSUME NEW o \in Operations(m) PROVE Owner(n, o) = Owner(m, o)
  <2> DEFINE b == Operation(m, o).parent
  <2>1. b \in Blocks(m) /\ Block(m, b).parent \in Regions(m)
    BY OwnerOf
  <2>2. Operation(n, o).parent = b /\ Block(n, b).parent = Block(m, b).parent
        /\ Region(n, Block(m, b).parent).parent = Region(m, Block(m, b).parent).parent
    BY <2>1 DEF Enlarges
  <2> QED BY <2>2 DEF Owner
<1>2. ASSUME NEW o \in Operations(n) \ Operations(m)
      PROVE  Owner(n, o) \in Operations(m) \/ Owner(n, o) = ModuleOwned
  <2> DEFINE b == Operation(n, o).parent
             r == Block(m, b).parent
  <2>1. b \in Blocks(m)
    BY DEF Enlarges
  <2>2. r \in Regions(m)
    BY <2>1 DEF Agrees, BlocksAgree
  <2>3. Block(n, b).parent = r /\ Region(n, r).parent = Region(m, r).parent
    BY <2>1, <2>2 DEF Enlarges
  <2>4. /\ Region(m, r).parent = ModuleOwned <=> r = RootRegion
        /\ r # RootRegion => Region(m, r).parent \in Operations(m)
    BY <2>2 DEF Agrees, RegionsAgree
  <2> QED BY <2>3, <2>4 DEF Owner
<1>3. ASSUME NEW S \in SUBSET Operations(n), S # {} PROVE \E o \in S : Owner(n, o) \notin S
  <2> DEFINE R == S \cap Operations(m)
  <2>1. ModuleOwned \notin S
    BY ModuleHandles
  <2>2. CASE R = {}
    <3>1. PICK o \in S : o \in Operations(n) \ Operations(m)
      BY <1>3, <2>2
    <3> QED BY <1>2, <2>1, <2>2, <3>1
  <2>3. CASE R # {}
    <3>1. PICK o \in R : Owner(m, o) \notin R
      BY <2>3 DEF Grounded, Rooted
    <3>2. Owner(m, o) \in Operations(m) \/ Owner(m, o) = ModuleOwned
      BY <3>1, OwnerIs
    <3> QED BY <1>1, <2>1, <3>1, <3>2
  <2> QED BY <2>2, <2>3
<1>4. n.attached \subseteq Operations(n)
  BY DEF Grounded, Enlarges
<1> QED BY <1>3, <1>4 DEF Grounded, Rooted

LEMMA ReducedIsGrounded ==
    ASSUME NEW m \in Modules(Types), NEW n \in Modules(Types), Agrees(n), Reduces(m, n), Grounded(m)
    PROVE  Grounded(n)
<1>1. ASSUME NEW o \in Operations(n) PROVE Owner(n, o) = Owner(m, o)
  <2> DEFINE b == Operation(n, o).parent
  <2>1. b \in Blocks(n) /\ Block(n, b).parent \in Regions(n)
    BY OwnerOf
  <2>2. Operation(m, o).parent = b /\ Block(n, b).parent = Block(m, b).parent
        /\ Region(n, Block(n, b).parent).parent = Region(m, Block(n, b).parent).parent
    BY <2>1 DEF Reduces
  <2> QED BY <2>2 DEF Owner
<1>2. ASSUME NEW S \in SUBSET Operations(n), S # {} PROVE \E o \in S : Owner(n, o) \notin S
  <2>1. S \in SUBSET Operations(m)
    BY DEF Reduces
  <2>2. PICK o \in S : Owner(m, o) \notin S
    BY <1>2, <2>1 DEF Grounded, Rooted
  <2> QED BY <1>1, <2>2
<1>3. n.attached \subseteq Operations(n)
  BY DEF Grounded, Reduces
<1> QED BY <1>2, <1>3 DEF Grounded, Rooted

-----------------------------------------------------------------------------
(* The operations around an operation stand in a line.                       *)

LEMMA EnclosingUnfolds ==
    ASSUME NEW m \in Modules(Types), Agrees(m), NEW o \in Operations(m)
    PROVE  /\ Owner(m, o) = ModuleOwned => Enclosing(m, o) = {o}
           /\ Owner(m, o) \in Operations(m) => Enclosing(m, o) = {o} \cup Enclosing(m, Owner(m, o))
<1> DEFINE E == Enclosing(m, o)
           p == Owner(m, o)
<1>1. /\ E \in SUBSET Operations(m) /\ o \in E /\ Owners(m, E) \subseteq E
      /\ \A S \in SUBSET Operations(m) : o \in S /\ Owners(m, S) \subseteq S => E \subseteq S
  BY EnclosingMeans
<1> HIDE DEF E
<1>2. CASE p = ModuleOwned
  <2>1. {o} \in SUBSET Operations(m) /\ Owners(m, {o}) \subseteq {o}
    BY <1>2 DEF Owners
  <2>2. E = {o} /\ p \notin Operations(m)
    BY <1>1, <1>2, <2>1, ModuleHandles
  <2> QED BY <2>2 DEF E
<1>3. CASE p \in Operations(m)
  <2> DEFINE F == Enclosing(m, p)
  <2>1. p # ModuleOwned
    BY <1>3, ModuleHandles
  <2>2. /\ F \in SUBSET Operations(m) /\ p \in F /\ Owners(m, F) \subseteq F
        /\ \A S \in SUBSET Operations(m) : p \in S /\ Owners(m, S) \subseteq S => F \subseteq S
    BY <1>3, EnclosingMeans
  <2> HIDE DEF F
  <2>3. F \subseteq E
    BY <1>1, <2>1, <2>2 DEF Owners
  <2>4. Owners(m, {o} \cup F) \subseteq {o} \cup F
    BY <2>2 DEF Owners
  <2>5. E \subseteq {o} \cup F
    BY <1>1, <2>2, <2>4
  <2> QED BY <1>1, <2>1, <2>3, <2>5 DEF E, F
<1>4. p \in Operations(m) \/ p = ModuleOwned
  BY OwnerIs
<1> QED BY <1>2, <1>3, <1>4

LEMMA NoCycle ==
    ASSUME NEW m \in Modules(Types), Agrees(m), Rooted(m), NEW o \in Operations(m), NEW c \in Operations(m),
           Owner(m, c) = o
    PROVE  c \notin Enclosing(m, o)
<1> SUFFICES ASSUME c \in Enclosing(m, o) PROVE FALSE
  OBVIOUS
<1> DEFINE E == Enclosing(m, o)
           S == {p \in E : c \in Enclosing(m, p)}
<1>1. E \in SUBSET Operations(m) /\ o \in E /\ Owners(m, E) \subseteq E
  BY EnclosingMeans
<1> HIDE DEF E
<1>2. o \in S
  BY <1>1 DEF E
<1>3. ASSUME NEW p \in S PROVE Owner(m, p) \in S
  <2>1. p \in Operations(m) /\ p \in E /\ c \in Enclosing(m, p)
    BY <1>1
  <2>2. CASE p = c
    BY <1>2, <2>2
  <2>3. CASE p # c
    <3>1. Owner(m, p) \in Operations(m) /\ c \in Enclosing(m, Owner(m, p))
      BY <2>1, <2>3, EnclosingUnfolds, OwnerIs
    <3>2. Owner(m, p) \in E
      BY <1>1, <2>1, <3>1, ModuleHandles DEF Owners
    <3> QED BY <3>1, <3>2
  <2> QED BY <2>2, <2>3
<1>4. S \in SUBSET Operations(m)
  BY <1>1
<1> QED BY <1>2, <1>3, <1>4 DEF Rooted

LEMMA Comparable ==
    ASSUME NEW m \in Modules(Types), Agrees(m), NEW x \in Operations(m), NEW p \in Enclosing(m, x),
           NEW q \in Enclosing(m, x)
    PROVE  p \in Enclosing(m, q) \/ q \in Enclosing(m, p)
<1> DEFINE E == Enclosing(m, x)
           F == Enclosing(m, p)
           S == {r \in E : p \in Enclosing(m, r)} \cup F
<1>1. /\ E \in SUBSET Operations(m) /\ x \in E /\ Owners(m, E) \subseteq E
      /\ \A R \in SUBSET Operations(m) : x \in R /\ Owners(m, R) \subseteq R => E \subseteq R
  BY EnclosingMeans
<1>2. p \in Operations(m) /\ F \in SUBSET Operations(m) /\ p \in F /\ Owners(m, F) \subseteq F
  BY <1>1, EnclosingMeans
<1> HIDE DEF E, F
<1>3. x \in S
  BY <1>1 DEF E
<1>4. ASSUME NEW r \in S, Owner(m, r) # ModuleOwned PROVE Owner(m, r) \in S
  <2>1. CASE r \in F
    BY <1>2, <1>4, <2>1 DEF Owners
  <2>2. CASE r \notin F
    <3>1. r \in Operations(m) /\ r \in E /\ p \in Enclosing(m, r) /\ r # p
      BY <1>1, <1>2, <2>2
    <3>2. Owner(m, r) \in Operations(m) /\ p \in Enclosing(m, Owner(m, r))
      BY <1>4, <3>1, EnclosingUnfolds, OwnerIs
    <3>3. Owner(m, r) \in E
      BY <1>1, <1>4, <3>1 DEF Owners
    <3> QED BY <3>2, <3>3
  <2> QED BY <2>1, <2>2
<1>5. Owners(m, S) \subseteq S /\ S \in SUBSET Operations(m)
  BY <1>1, <1>2, <1>4 DEF Owners
<1>6. E \subseteq S
  BY <1>1, <1>3, <1>5
<1>7. q \in S
  BY <1>6 DEF E
<1> QED BY <1>7 DEF F

\* Around an operation, one stands in each region.
LEMMA InLine ==
    ASSUME NEW m \in Modules(Types), Agrees(m), Rooted(m), NEW x \in Operations(m), NEW c \in Enclosing(m, x),
           NEW d \in Enclosing(m, x), Owner(m, c) = Owner(m, d), Owner(m, c) \in Operations(m)
    PROVE  c = d
<1>1. c \in Operations(m) /\ d \in Operations(m)
  BY EnclosingMeans
<1>2. /\ Enclosing(m, c) = {c} \cup Enclosing(m, Owner(m, c))
      /\ Enclosing(m, d) = {d} \cup Enclosing(m, Owner(m, c))
  BY <1>1, EnclosingUnfolds
<1>3. c \notin Enclosing(m, Owner(m, c)) /\ d \notin Enclosing(m, Owner(m, c))
  BY <1>1, NoCycle
<1>4. c \in Enclosing(m, d) \/ d \in Enclosing(m, c)
  BY Comparable
<1> QED BY <1>2, <1>3, <1>4

-----------------------------------------------------------------------------
(* Nothing is listed twice by the walk of a tree.                            *)

LEMMA RegionListsOnce ==
    ASSUME NEW m \in Modules(Types), Agrees(m), NEW r \in Regions(m)
    PROVE  LET blocks == Region(m, r).blocks
           IN  IsInjective(FlattenSeq([i \in DOMAIN blocks |-> Block(m, blocks[i]).operations]))
<1> DEFINE S == Operations(m)
           I == Blocks(m)
           s == Region(m, r).blocks
           F == [b \in I |-> Block(m, b).operations]
           f == [i \in DOMAIN s |-> F[s[i]]]
<1>1. s \in Seq(I) /\ IsInjective(s)
  BY BlocksOf DEF Agrees, RegionsAgree
<1>2. ASSUME NEW b \in I
      PROVE  /\ Block(m, b).operations \in Seq(S) /\ IsInjective(Block(m, b).operations)
             /\ \A c \in Range(Block(m, b).operations) : Operation(m, c).parent = b
  <2>1. /\ Block(m, b).operations \in Seq(Handles) /\ IsInjective(Block(m, b).operations)
        /\ Range(Block(m, b).operations) \subseteq S
    BY BlockOperations
  <2>2. \A c \in Range(Block(m, b).operations) : Operation(m, c).parent = b
    BY DEF Agrees, BlocksAgree
  <2>3. Block(m, b).operations \in Seq(S)
    BY <2>1 DEF Range
  <2> QED BY <2>1, <2>2, <2>3
<1> HIDE DEF s, S, I
<1>3. \A i \in DOMAIN s : s[i] \in I
  BY <1>1
<1>4. f = [i \in DOMAIN s |-> Block(m, s[i]).operations]
  BY <1>3
<1>5. F \in [I -> Seq(S)] /\ \A b \in I : F[b] = Block(m, b).operations
  BY <1>2
<1> HIDE DEF F
<1>6. \A b \in Range(s) : b \in I
  BY <1>3 DEF Range
<1>7. \A b \in Range(s) : IsInjective(F[b])
  BY <1>2, <1>5, <1>6
<1>8. \A b, c \in Range(s) : \A x : x \in Range(F[b]) /\ x \in Range(F[c]) => b = c
  BY <1>2, <1>5, <1>6, ZenonT(60)
<1>10. f \in [1..Len(s) -> Seq(S)] /\ \A i \in 1..Len(s) : f[i] = F[s[i]]
  BY <1>1, <1>3, <1>5
<1> HIDE DEF f
<1>9. IsInjective(FlattenSeq(f))
  BY <1>1, <1>5, <1>7, <1>8, <1>10, GatheredOnce
<1> QED BY <1>4, <1>9 DEF s, f

LEMMA ChildrenOnce ==
    ASSUME NEW m \in Modules(Types), Agrees(m), ListsRegionsOnce(m), NEW o \in Operations(m)
    PROVE  IsInjective(Children(m, o))
<1> DEFINE S == Operations(m)
           I == Regions(m)
           inRegion(r) == FlattenSeq([i \in DOMAIN Region(m, r).blocks |->
                                      Block(m, Region(m, r).blocks[i]).operations])
           s == Operation(m, o).regions
           F == [r \in I |-> inRegion(r)]
           f == [i \in DOMAIN s |-> F[s[i]]]
<1>1. s \in Seq(I) /\ IsInjective(s)
  BY RegionsOf DEF ListsRegionsOnce
<1>2. ASSUME NEW r \in I
      PROVE  /\ inRegion(r) \in Seq(S) /\ IsInjective(inRegion(r))
             /\ \A c \in Range(inRegion(r)) : Block(m, Operation(m, c).parent).parent = r
  <2>1. inRegion(r) \in Seq(S) /\ IsInjective(inRegion(r))
    BY RegionOperations, RegionListsOnce
  <2>2. ASSUME NEW c \in Range(inRegion(r)) PROVE Block(m, Operation(m, c).parent).parent = r
    <3>1. PICK b \in Range(Region(m, r).blocks) : c \in Range(Block(m, b).operations)
      BY RegionOperations
    <3>2. b \in Blocks(m) /\ Block(m, b).parent = r
      BY <3>1 DEF Agrees, RegionsAgree
    <3>3. Operation(m, c).parent = b
      BY <3>1, <3>2 DEF Agrees, BlocksAgree
    <3> QED BY <3>2, <3>3
  <2> QED BY <2>1, <2>2
<1>3. Children(m, o) = FlattenSeq([i \in DOMAIN s |-> inRegion(s[i])])
  BY DEF Children
<1> HIDE DEF s, S, I, inRegion
<1>4. \A i \in DOMAIN s : s[i] \in I
  BY <1>1
<1>5. f = [i \in DOMAIN s |-> inRegion(s[i])]
  BY <1>4
<1>6. F \in [I -> Seq(S)] /\ \A r \in I : F[r] = inRegion(r)
  BY <1>2
<1> HIDE DEF F
<1>7. \A r \in Range(s) : r \in I
  BY <1>4 DEF Range
<1>8. \A r \in Range(s) : IsInjective(F[r])
  BY <1>2, <1>6, <1>7
<1>9. \A r, q \in Range(s) : \A x : x \in Range(F[r]) /\ x \in Range(F[q]) => r = q
  BY <1>2, <1>6, <1>7
<1>11. f \in [1..Len(s) -> Seq(S)] /\ \A i \in 1..Len(s) : f[i] = F[s[i]]
  BY <1>1, <1>4, <1>6
<1> HIDE DEF f
<1>10. IsInjective(FlattenSeq(f))
  BY <1>1, <1>6, <1>8, <1>9, <1>11, GatheredOnce
<1> QED BY <1>3, <1>5, <1>10

LEMMA GrownOnce ==
    ASSUME NEW m \in Modules(Types), Agrees(m), Rooted(m), ListsRegionsOnce(m), NEW w \in Walks(m),
           \A c \in Operations(m) : IsInjective(w[c]) /\ \A x \in Range(w[c]) : c \in Enclosing(m, x),
           NEW o \in Operations(m)
    PROVE  LET s == <<o>> \o Grown(m, o, w)
           IN  IsInjective(s) /\ \A x \in Range(s) : o \in Enclosing(m, x)
<1> DEFINE S == Operations(m)
           s == Children(m, o)
           G == Grown(m, o, w)
<1>1. s \in Seq(S) /\ IsInjective(s) /\ \A c : c \in Range(s) <=> c \in S /\ Owner(m, c) = o
  BY ChildrenOf, ChildrenOnce
<1>2. /\ G \in Seq(S)
      /\ \A x : x \in Range(G) <=> \E c \in S : Owner(m, c) = o /\ x \in Range(w[c])
  BY GrownFrom
<1>3. G = FlattenSeq([i \in DOMAIN s |-> w[s[i]]]) /\ w \in [S -> Seq(S)]
  BY DEF Grown, Walks
<1>4. \A x \in S : \A c, d \in S :
         Owner(m, c) = o /\ Owner(m, d) = o /\ c \in Enclosing(m, x) /\ d \in Enclosing(m, x) => c = d
  BY InLine
<1>5. \A c \in S : Owner(m, c) = o => c \notin Enclosing(m, o)
  BY NoCycle
<1>6. \A x \in S, c \in S : c \in Enclosing(m, x) /\ Owner(m, c) = o => o \in Enclosing(m, x)
  <2>1. \A x \in S : Owners(m, Enclosing(m, x)) \subseteq Enclosing(m, x) /\ x \in Enclosing(m, x)
    BY EnclosingMeans
  <2>2. o # ModuleOwned
    BY ModuleHandles
  <2> QED BY <2>1, <2>2 DEF Owners
<1>7. o \in S /\ o \in Enclosing(m, o)
  BY EnclosingMeans DEF S
<1>8. \A c \in S : \A x \in Range(w[c]) : x \in S
  BY <1>3 DEF Range
<1>9. \A x \in Range(G) : x \in S
  BY <1>2 DEF Range
<1> HIDE DEF S, s, G
<1>10. IsInjective(G)
  <2>1. \A c \in Range(s) : IsInjective(w[c])
    BY <1>1 DEF S
  <2>2. \A c, d \in Range(s) : \A x : x \in Range(w[c]) /\ x \in Range(w[d]) => c = d
    BY <1>1, <1>4, <1>8 DEF S
  <2> DEFINE f == [i \in DOMAIN s |-> w[s[i]]]
  <2>3. f \in [1..Len(s) -> Seq(S)] /\ \A i \in 1..Len(s) : f[i] = w[s[i]]
    BY <1>1, <1>3
  <2> HIDE DEF f
  <2>4. IsInjective(FlattenSeq(f))
    <3>1. s \in Seq(S) /\ IsInjective(s) /\ w \in [S -> Seq(S)]
      BY <1>1, <1>3
    <3> QED BY <2>1, <2>2, <2>3, <3>1, GatheredOnce, ZenonT(60)
  <2> QED BY <1>3, <2>4 DEF f
<1>11. \A x \in Range(G) : x # o /\ o \in Enclosing(m, x)
  <2> SUFFICES ASSUME NEW x \in Range(G) PROVE x # o /\ o \in Enclosing(m, x)
    OBVIOUS
  <2>1. PICK c \in S : Owner(m, c) = o /\ x \in Range(w[c])
    BY <1>2
  <2>2. c \in Enclosing(m, x) /\ x \in S
    BY <1>8, <2>1 DEF S
  <2> QED BY <1>5, <1>6, <2>1, <2>2
<1>12. <<o>> \in Seq(S) /\ Range(<<o>>) = {o} /\ IsInjective(<<o>>)
  BY <1>7 DEF Range, IsInjective
<1> DEFINE a == <<o>>
<1> HIDE DEF a
<1>13. a \in Seq(S) /\ Range(a) = {o} /\ IsInjective(a)
  BY <1>12 DEF a
<1>14. IsInjective(a \o G) /\ Range(a \o G) = {o} \cup Range(G)
  <2>1. Range(a) \cap Range(G) = {}
    BY <1>11, <1>13
  <2> QED BY <1>2, <1>10, <1>13, <2>1, JoinedOnce, JoinedRange
<1> QED BY <1>7, <1>11, <1>14 DEF a, G

LEMMA WalkedOnce ==
    ASSUME NEW m \in Modules(Types), Agrees(m), Rooted(m), ListsRegionsOnce(m), NEW root \in Operations(m)
    PROVE  IsInjective(PreOrder(m, root)) /\ \A x \in Range(PreOrder(m, root)) : root \in Enclosing(m, x)
<1> DEFINE n == Cardinality(Operations(m))
           S == Operations(m)
<1>1. PICK f : /\ \A k \in 0..n : f[k] \in Walks(m) /\ f[k] = PreLevel(m, k, f[k - 1])
               /\ \A o \in S : PreOrder(m, o) = f[n][o]
  BY PreWalk
<1>2. n \in Nat
  BY OperationsFinite
<1> HIDE DEF n
<1> DEFINE Once(w) == \A o \in S : IsInjective(w[o]) /\ \A x \in Range(w[o]) : o \in Enclosing(m, x)
           P == {k \in Nat : k <= n => Once(f[k])}
<1>3. 0 \in P
  <2>1. f[0] = PreLevel(m, 0, f[0 - 1])
    BY <1>1, <1>2
  <2>2. \A o \in S : f[0][o] = <<o>>
    BY <2>1 DEF PreLevel
  <2>3. \A o \in S : IsInjective(<<o>>) /\ Range(<<o>>) = {o}
    BY DEF Range, IsInjective
  <2>4. \A o \in S : o \in Enclosing(m, o)
    BY EnclosingMeans
  <2>5. Once(f[0])
    BY <2>2, <2>3, <2>4
  <2> HIDE DEF Once
  <2> QED BY <2>5
<1>4. ASSUME NEW k \in Nat, k \in P PROVE k + 1 \in P
  <2> SUFFICES ASSUME k + 1 <= n PROVE Once(f[k + 1])
    <3> HIDE DEF Once
    <3> QED OBVIOUS
  <2>1. k \in 0..n /\ k + 1 \in 0..n /\ k + 1 # 0 /\ (k + 1) - 1 = k /\ k <= n
    BY <1>2
  <2> DEFINE w == f[k]
             z == f[k + 1]
  <2>2. z = PreLevel(m, k + 1, w) /\ w \in Walks(m)
    BY <1>1, <2>1
  <2>3. Once(w)
    <3> HIDE DEF Once
    <3> QED BY <1>4, <2>1
  <2> HIDE DEF w, z
  <2>4. \A o \in S : z[o] = <<o>> \o Grown(m, o, w)
    BY <2>1, <2>2 DEF PreLevel
  <2>5. \A o \in S : LET s == <<o>> \o Grown(m, o, w)
                     IN  IsInjective(s) /\ \A x \in Range(s) : o \in Enclosing(m, x)
    BY <2>2, <2>3, GrownOnce
  <2>6. Once(z)
    BY <2>4, <2>5
  <2> QED BY <2>6 DEF z
<1> HIDE DEF P
<1>5. n \in P
  BY <1>2, <1>3, <1>4, NumbersBySteps
<1>6. Once(f[n])
  <2> HIDE DEF Once
  <2> QED BY <1>2, <1>5 DEF P
<1> QED BY <1>1, <1>6

-----------------------------------------------------------------------------
(* What a tree owns is listed once too, so the plan of erase_operation finds  *)
(* every module that agrees with itself in order.                            *)

LEMMA OwnedRegionsOnce ==
    ASSUME NEW m \in Modules(Types), Agrees(m), ListsRegionsOnce(m), NEW root \in Operations(m),
           PreOrder(m, root) \in Seq(Operations(m)), IsInjective(PreOrder(m, root))
    PROVE  IsInjective(OwnedRegions(m, root))
<1> DEFINE S == Regions(m)
           I == Operations(m)
           s == PreOrder(m, root)
           F == [o \in I |-> Operation(m, o).regions]
           f == [i \in DOMAIN s |-> Operation(m, s[i]).regions]
<1>1. s \in Seq(I) /\ IsInjective(s)
  OBVIOUS
<1>2. \A o \in I : /\ F[o] \in Seq(S) /\ IsInjective(F[o])
                   /\ \A r \in Range(F[o]) : Region(m, r).parent = o
  <2> SUFFICES ASSUME NEW o \in I
               PROVE  /\ F[o] \in Seq(S) /\ IsInjective(F[o])
                      /\ \A r \in Range(F[o]) : Region(m, r).parent = o
    OBVIOUS
  <2>1. F[o] = Operation(m, o).regions
    OBVIOUS
  <2>2. F[o] \in Seq(S) /\ \A r \in S : r \in Range(F[o]) => Region(m, r).parent = o
    BY <2>1, RegionsOf
  <2>3. \A r \in Range(F[o]) : r \in S
    BY <2>2 DEF Range
  <2> QED BY <2>1, <2>2, <2>3 DEF ListsRegionsOnce
<1>3. F \in [I -> Seq(S)]
  BY <1>2
<1>4. OwnedRegions(m, root) = FlattenSeq(f)
  BY DEF OwnedRegions
<1> HIDE DEF s, S, I
<1>5. \A i \in 1..Len(s) : s[i] \in I
  BY <1>1
<1>6. \A o \in Range(s) : o \in I
  BY <1>1 DEF Range
<1>7. \A i \in 1..Len(s) : f[i] = F[s[i]]
  BY <1>1, <1>5
<1>8. DOMAIN f = 1..Len(s)
  BY <1>1
<1> HIDE DEF F
<1>9. f \in [1..Len(s) -> Seq(S)]
  BY <1>1, <1>3, <1>5, <1>7, <1>8
<1> HIDE DEF f
<1>10. \A o \in Range(s) : IsInjective(F[o])
  BY <1>2, <1>6
<1>11. \A o, p \in Range(s) : \A x : x \in Range(F[o]) /\ x \in Range(F[p]) => o = p
  BY <1>2, <1>6
<1>12. s \in Seq(I) /\ IsInjective(s)
  BY <1>1
<1>13. IsInjective(FlattenSeq(f))
  BY <1>3, <1>7, <1>9, <1>10, <1>11, <1>12, GatheredOnce
<1> QED BY <1>4, <1>13

LEMMA OwnedBlocksOnce ==
    ASSUME NEW m \in Modules(Types), Agrees(m), NEW root \in Operations(m),
           OwnedRegions(m, root) \in Seq(Regions(m)), IsInjective(OwnedRegions(m, root))
    PROVE  IsInjective(OwnedBlocks(m, root))
<1> DEFINE S == Blocks(m)
           I == Regions(m)
           s == OwnedRegions(m, root)
           F == [r \in I |-> Region(m, r).blocks]
           f == [i \in DOMAIN s |-> Region(m, s[i]).blocks]
<1>1. s \in Seq(I) /\ IsInjective(s)
  OBVIOUS
<1>2. \A r \in I : /\ F[r] \in Seq(S) /\ IsInjective(F[r])
                   /\ \A b \in Range(F[r]) : Block(m, b).parent = r
  <2> SUFFICES ASSUME NEW r \in I
               PROVE  /\ F[r] \in Seq(S) /\ IsInjective(F[r])
                      /\ \A b \in Range(F[r]) : Block(m, b).parent = r
    OBVIOUS
  <2>1. F[r] = Region(m, r).blocks
    OBVIOUS
  <2>2. F[r] \in Seq(S) /\ \A b \in S : b \in Range(F[r]) => Block(m, b).parent = r
    BY <2>1, BlocksOf
  <2>3. \A b \in Range(F[r]) : b \in S
    BY <2>2 DEF Range
  <2> QED BY <2>1, <2>2, <2>3 DEF Agrees, RegionsAgree
<1>3. F \in [I -> Seq(S)]
  BY <1>2
<1>4. OwnedBlocks(m, root) = FlattenSeq(f)
  BY DEF OwnedBlocks
<1> HIDE DEF s, S, I
<1>5. \A i \in 1..Len(s) : s[i] \in I
  BY <1>1
<1>6. \A r \in Range(s) : r \in I
  BY <1>1 DEF Range
<1>7. \A i \in 1..Len(s) : f[i] = F[s[i]]
  BY <1>1, <1>5
<1>8. DOMAIN f = 1..Len(s)
  BY <1>1
<1> HIDE DEF F
<1>9. f \in [1..Len(s) -> Seq(S)]
  BY <1>1, <1>3, <1>5, <1>7, <1>8
<1> HIDE DEF f
<1>10. \A r \in Range(s) : IsInjective(F[r])
  BY <1>2, <1>6
<1>11. \A r, q \in Range(s) : \A x : x \in Range(F[r]) /\ x \in Range(F[q]) => r = q
  BY <1>2, <1>6
<1>12. s \in Seq(I) /\ IsInjective(s)
  BY <1>1
<1>13. IsInjective(FlattenSeq(f))
  BY <1>3, <1>7, <1>9, <1>10, <1>11, <1>12, GatheredOnce
<1> QED BY <1>4, <1>13

LEMMA DefinedOnce ==
    ASSUME NEW m \in Modules(Types), Agrees(m)
    PROVE  /\ \A b \in Blocks(m) : IsInjective(Block(m, b).arguments)
           /\ \A o \in Operations(m) : IsInjective(Operation(m, o).results)
<1>1. ASSUME NEW b \in Blocks(m) PROVE IsInjective(Block(m, b).arguments)
  <2>1. \A i \in DOMAIN Block(m, b).arguments : Value(m, Block(m, b).arguments[i]).definition = Argument(b, i)
    BY DEF Agrees, BlocksAgree
  <2>2. \A i, j : Argument(b, i) = Argument(b, j) => i = j
    BY DEF Argument
  <2> QED BY <2>1, <2>2 DEF IsInjective
<1>2. ASSUME NEW o \in Operations(m) PROVE IsInjective(Operation(m, o).results)
  <2>1. \A i \in DOMAIN Operation(m, o).results : Value(m, Operation(m, o).results[i]).definition = Result(o, i)
    BY DEF Agrees, OperationsAgree
  <2>2. \A i, j : Result(o, i) = Result(o, j) => i = j
    BY DEF Result
  <2> QED BY <2>1, <2>2 DEF IsInjective
<1> QED BY <1>1, <1>2

\* The operation a value belongs to, or the one whose region it is an argument in.
Keeper(m, v) ==
    LET d == Value(m, v).definition
    IN  IF d.kind = "result" THEN d.owner ELSE Region(m, Block(m, d.owner).parent).parent

LEMMA RegionArgumentsOnce ==
    ASSUME NEW m \in Modules(Types), Agrees(m), NEW r \in Regions(m)
    PROVE  IsInjective(RegionArguments(m, r))
<1> DEFINE S == Values(m)
           I == Blocks(m)
           s == Region(m, r).blocks
           F == [b \in I |-> Block(m, b).arguments]
           f == [i \in DOMAIN s |-> Block(m, s[i]).arguments]
<1>1. s \in Seq(I) /\ IsInjective(s)
  BY BlocksOf DEF Agrees, RegionsAgree
<1>2. \A b \in I : /\ F[b] \in Seq(S) /\ IsInjective(F[b])
                   /\ \A v \in Range(F[b]) : Value(m, v).definition.owner = b
  <2> SUFFICES ASSUME NEW b \in I
               PROVE  /\ F[b] \in Seq(S) /\ IsInjective(F[b])
                      /\ \A v \in Range(F[b]) : Value(m, v).definition.owner = b
    OBVIOUS
  <2>1. F[b] = Block(m, b).arguments
    OBVIOUS
  <2>2. F[b] \in Seq(S) /\ \A v \in S : v \in Range(F[b]) => Value(m, v).definition.owner = b
    BY <2>1, ArgumentsOf
  <2>3. \A v \in Range(F[b]) : v \in S
    BY <2>2 DEF Range
  <2> QED BY <2>1, <2>2, <2>3, DefinedOnce
<1>3. F \in [I -> Seq(S)]
  BY <1>2
<1>4. RegionArguments(m, r) = FlattenSeq(f)
  BY DEF RegionArguments
<1> HIDE DEF s, S, I
<1>5. \A i \in 1..Len(s) : s[i] \in I
  BY <1>1
<1>6. \A b \in Range(s) : b \in I
  BY <1>1 DEF Range
<1>7. \A i \in 1..Len(s) : f[i] = F[s[i]]
  BY <1>1, <1>5
<1>8. DOMAIN f = 1..Len(s)
  BY <1>1
<1> HIDE DEF F
<1>9. f \in [1..Len(s) -> Seq(S)]
  BY <1>1, <1>3, <1>5, <1>7, <1>8
<1> HIDE DEF f
<1>10. \A b \in Range(s) : IsInjective(F[b])
  BY <1>2, <1>6
<1>11. \A b, c \in Range(s) : \A x : x \in Range(F[b]) /\ x \in Range(F[c]) => b = c
  BY <1>2, <1>6
<1>12. s \in Seq(I) /\ IsInjective(s)
  BY <1>1
<1>13. IsInjective(FlattenSeq(f))
  BY <1>3, <1>7, <1>9, <1>10, <1>11, <1>12, GatheredOnce
<1> QED BY <1>4, <1>13

LEMMA OperationArgumentsOnce ==
    ASSUME NEW m \in Modules(Types), Agrees(m), ListsRegionsOnce(m), NEW o \in Operations(m)
    PROVE  IsInjective(OperationArguments(m, o))
<1> DEFINE S == Values(m)
           I == Regions(m)
           s == Operation(m, o).regions
           F == [r \in I |-> RegionArguments(m, r)]
           f == [i \in DOMAIN s |-> RegionArguments(m, s[i])]
<1>1. s \in Seq(I) /\ IsInjective(s)
  BY RegionsOf DEF ListsRegionsOnce
<1>2. \A r \in I : /\ F[r] \in Seq(S) /\ IsInjective(F[r])
                   /\ \A v \in Range(F[r]) : Block(m, Value(m, v).definition.owner).parent = r
  <2> SUFFICES ASSUME NEW r \in I
               PROVE  /\ F[r] \in Seq(S) /\ IsInjective(F[r])
                      /\ \A v \in Range(F[r]) : Block(m, Value(m, v).definition.owner).parent = r
    OBVIOUS
  <2>1. F[r] = RegionArguments(m, r)
    OBVIOUS
  <2>2. /\ F[r] \in Seq(S)
        /\ \A v : v \in Range(F[r]) => \E b \in Blocks(m) : Block(m, b).parent = r /\ v \in Range(Block(m, b).arguments)
    BY <2>1, RegionArgumentsAre
  <2>3. \A v \in Range(F[r]) : v \in S
    BY <2>2 DEF Range
  <2>4. \A b \in Blocks(m), v \in S : v \in Range(Block(m, b).arguments) => Value(m, v).definition.owner = b
    BY ArgumentsOf
  <2>5. IsInjective(F[r])
    BY <2>1, RegionArgumentsOnce
  <2> HIDE DEF F, S
  <2>6. \A v \in Range(F[r]) : Block(m, Value(m, v).definition.owner).parent = r
    BY <2>2, <2>3, <2>4
  <2> QED BY <2>2, <2>5, <2>6
<1>3. F \in [I -> Seq(S)]
  BY <1>2
<1>4. OperationArguments(m, o) = FlattenSeq(f)
  BY DEF OperationArguments
<1> HIDE DEF s, S, I
<1>5. \A i \in 1..Len(s) : s[i] \in I
  BY <1>1
<1>6. \A r \in Range(s) : r \in I
  BY <1>1 DEF Range
<1>7. \A i \in 1..Len(s) : f[i] = F[s[i]]
  BY <1>1, <1>5
<1>8. DOMAIN f = 1..Len(s)
  BY <1>1
<1> HIDE DEF F
<1>9. f \in [1..Len(s) -> Seq(S)]
  BY <1>1, <1>3, <1>5, <1>7, <1>8
<1> HIDE DEF f
<1>10. \A r \in Range(s) : IsInjective(F[r])
  BY <1>2, <1>6
<1>11. \A r, q \in Range(s) : \A x : x \in Range(F[r]) /\ x \in Range(F[q]) => r = q
  BY <1>2, <1>6
<1>12. s \in Seq(I) /\ IsInjective(s)
  BY <1>1
<1>13. IsInjective(FlattenSeq(f))
  BY <1>3, <1>7, <1>9, <1>10, <1>11, <1>12, GatheredOnce
<1> QED BY <1>4, <1>13

\* The values defined in a tree are those that belong to its operations.
LEMMA KeptInTree ==
    ASSUME NEW m \in Modules(Types), Agrees(m), NEW T, NEW v \in Values(m)
    PROVE  DefinedIn(m, T, v) <=> Keeper(m, v) \in T
<1> DEFINE d == Value(m, v).definition
<1>1. d.kind \in {"argument", "result"}
  BY ValueFields DEF Definitions
<1>2. CASE d.kind = "result"
  BY <1>2 DEF DefinedIn, Keeper
<1>3. CASE d.kind = "argument"
  <2>1. DefinitionAgrees(m, v)
    BY AgreementSplits DEF Owned, DefinitionsAgree
  <2>2. d.owner \in Blocks(m)
    BY <1>3, <2>1 DEF DefinitionAgrees
  <2>3. Block(m, d.owner).parent \in Regions(m)
    BY <2>2 DEF Agrees, BlocksAgree
  <2>4. d.owner \in TreeBlocks(m, T) <=> Region(m, Block(m, d.owner).parent).parent \in T
    BY <2>2, <2>3 DEF TreeBlocks, TreeRegions
  <2> QED BY <1>3, <2>4 DEF DefinedIn, Keeper
<1> QED BY <1>1, <1>2, <1>3

LEMMA OwnValues ==
    ASSUME NEW m \in Modules(Types), Agrees(m), ListsRegionsOnce(m), NEW o \in Operations(m)
    PROVE  LET own == Operation(m, o).results \o OperationArguments(m, o)
           IN  own \in Seq(Values(m)) /\ IsInjective(own) /\ \A v \in Range(own) : Keeper(m, v) = o
<1> DEFINE V == Values(m)
           s == Operation(m, o).results
           t == OperationArguments(m, o)
<1>1. s \in Seq(V) /\ \A v \in V : v \in Range(s) => Value(m, v).definition.kind = "result" /\ Value(m, v).definition.owner = o
  BY ResultsOf
<1>2. IsInjective(s) /\ IsInjective(t)
  BY DefinedOnce, OperationArgumentsOnce
<1>3. t \in Seq(V) /\ \A v : v \in Range(t) <=>
         \E r \in Regions(m) : Region(m, r).parent = o /\ v \in Range(RegionArguments(m, r))
  BY OperationArgumentsAre
<1>4. \A r \in Regions(m) : \A v : v \in Range(RegionArguments(m, r)) <=>
         \E b \in Blocks(m) : Block(m, b).parent = r /\ v \in Range(Block(m, b).arguments)
  BY RegionArgumentsAre
<1>5. \A b \in Blocks(m), v \in V : v \in Range(Block(m, b).arguments) =>
         Value(m, v).definition.kind = "argument" /\ Value(m, v).definition.owner = b
  BY ArgumentsOf
<1> HIDE DEF s, t, V
<1>6. (\A v \in Range(s) : v \in V) /\ \A v \in Range(t) : v \in V
  BY <1>1, <1>3 DEF Range
<1>7. \A v \in Range(t) :
         /\ Value(m, v).definition.kind = "argument"
         /\ Region(m, Block(m, Value(m, v).definition.owner).parent).parent = o
  <2> SUFFICES ASSUME NEW v \in Range(t)
               PROVE  /\ Value(m, v).definition.kind = "argument"
                      /\ Region(m, Block(m, Value(m, v).definition.owner).parent).parent = o
    OBVIOUS
  <2>1. PICK r \in Regions(m) : Region(m, r).parent = o /\ v \in Range(RegionArguments(m, r))
    BY <1>3
  <2>2. PICK b \in Blocks(m) : Block(m, b).parent = r /\ v \in Range(Block(m, b).arguments)
    BY <1>4, <2>1
  <2>3. Value(m, v).definition.kind = "argument" /\ Value(m, v).definition.owner = b
    BY <1>5, <1>6, <2>2
  <2> QED BY <2>1, <2>2, <2>3
<1>8. \A v \in Range(s) : Value(m, v).definition.kind = "result" /\ Value(m, v).definition.owner = o
  BY <1>1, <1>6
<1>9. Range(s) \cap Range(t) = {}
  BY <1>7, <1>8
<1>10. s \o t \in Seq(V) /\ Range(s \o t) = Range(s) \cup Range(t)
  BY <1>1, <1>3, JoinedRange
<1>11. IsInjective(s \o t)
  BY <1>1, <1>2, <1>3, <1>9, JoinedOnce
<1>12. \A v \in Range(s) \cup Range(t) : Keeper(m, v) = o
  BY <1>7, <1>8 DEF Keeper
<1> QED BY <1>10, <1>11, <1>12 DEF s, t, V

LEMMA OwnedValuesOnce ==
    ASSUME NEW m \in Modules(Types), Agrees(m), ListsRegionsOnce(m), NEW root \in Operations(m),
           PreOrder(m, root) \in Seq(Operations(m)), IsInjective(PreOrder(m, root))
    PROVE  IsInjective(OwnedValues(m, root))
<1> DEFINE S == Values(m)
           I == Operations(m)
           s == PreOrder(m, root)
           own(o) == Operation(m, o).results \o OperationArguments(m, o)
           F == [o \in I |-> own(o)]
           f == [i \in DOMAIN s |-> own(s[i])]
<1>1. s \in Seq(I) /\ IsInjective(s)
  OBVIOUS
<1>2. \A o \in I : own(o) \in Seq(S) /\ IsInjective(own(o)) /\ \A v \in Range(own(o)) : Keeper(m, v) = o
  BY OwnValues
<1>3. OwnedValues(m, root) = FlattenSeq(f)
  BY DEF OwnedValues, OperationArguments, RegionArguments
<1> HIDE DEF s, S, I, own
<1>4. F \in [I -> Seq(S)] /\ \A o \in I : F[o] = own(o)
  BY <1>2
<1>5. \A i \in 1..Len(s) : s[i] \in I
  BY <1>1
<1>6. \A o \in Range(s) : o \in I
  BY <1>1 DEF Range
<1>7. \A i \in 1..Len(s) : f[i] = F[s[i]]
  BY <1>1, <1>5
<1>8. DOMAIN f = 1..Len(s)
  BY <1>1
<1> HIDE DEF F
<1>9. f \in [1..Len(s) -> Seq(S)]
  BY <1>1, <1>4, <1>5, <1>7, <1>8
<1> HIDE DEF f
<1>10. \A o \in Range(s) : IsInjective(F[o])
  BY <1>2, <1>4, <1>6
<1>11. \A o, p \in Range(s) : \A x : x \in Range(F[o]) /\ x \in Range(F[p]) => o = p
  BY <1>2, <1>4, <1>6
<1>12. s \in Seq(I) /\ IsInjective(s) /\ F \in [I -> Seq(S)]
  BY <1>1, <1>4
<1>13. IsInjective(FlattenSeq(f))
  BY <1>7, <1>9, <1>10, <1>11, <1>12, GatheredOnce
<1> QED BY <1>3, <1>13

LEMMA StandsOnce ==
    ASSUME NEW m \in Modules(Types), Agrees(m), NEW o \in Operations(m)
    PROVE  LET ops == Block(m, Operation(m, o).parent).operations
           IN  Cardinality({i \in DOMAIN ops : ops[i] = o}) = 1
<1> DEFINE ops == Block(m, Operation(m, o).parent).operations
<1>1. o \in Range(ops) /\ IsInjective(ops)
  BY OwnerOf, BlockOperations
<1> HIDE DEF ops
<1>2. PICK i \in DOMAIN ops : ops[i] = o
  BY <1>1 DEF Range
<1>3. {j \in DOMAIN ops : ops[j] = o} = {i}
  BY <1>1, <1>2 DEF IsInjective
<1>4. Cardinality({i}) = 1
  BY FS_Singleton
<1> QED BY <1>3, <1>4 DEF ops

LEMMA UseListsAgree ==
    ASSUME NEW m \in Modules(Types), Agrees(m), NEW v \in Values(m)
    PROVE  UseListAgrees(m, v)
<1> SUFFICES ASSUME NEW k \in DOMAIN Value(m, v).uses
             PROVE  LET u == Value(m, v).uses[k] IN
                    /\ Resolves(m.operations, u.user)
                    /\ u.index \in DOMAIN Operation(m, u.user).operands
                    /\ Operation(m, u.user).operands[u.index] = v
                    /\ Operation(m, u.user).links[u.index] = k
  BY DEF UseListAgrees
<1> DEFINE u == Value(m, v).uses[k]
<1>1. /\ u.user \in Operations(m)
      /\ u.index \in DOMAIN Operation(m, u.user).operands
      /\ Operation(m, u.user).operands[u.index] = v
      /\ Operation(m, u.user).links[u.index] = k
  BY DEF Agrees, ValuesAgree
<1>2. Resolves(m.operations, u.user)
  BY <1>1, ModuleHandles
<1> QED BY <1>1, <1>2

LEMMA PlanFindsOrder ==
    ASSUME NEW m \in Modules(Types), Agrees(m), Rooted(m), ListsRegionsOnce(m), NEW root \in Operations(m)
    PROVE  TreeAgrees(m, root)
<1>1. IsInjective(PreOrder(m, root))
  BY WalkedOnce
<1>2. PreOrder(m, root) \in Seq(Operations(m))
  BY <1>1, TreeWalked
<1>3. OwnedRegions(m, root) \in Seq(Regions(m)) /\ IsInjective(OwnedRegions(m, root))
  BY <1>1, <1>2, OwnedRegionsAre, OwnedRegionsOnce
<1>4. IsInjective(OwnedBlocks(m, root)) /\ IsInjective(OwnedValues(m, root))
  BY <1>1, <1>2, <1>3, OwnedBlocksOnce, OwnedValuesOnce
<1>5. OwnedValues(m, root) \in Seq(Values(m))
  BY <1>2, OwnedValuesAre
<1>6. /\ \A o \in Range(PreOrder(m, root)) : o \in Operations(m)
      /\ \A r \in Range(OwnedRegions(m, root)) : r \in Regions(m)
      /\ \A v \in Range(OwnedValues(m, root)) : v \in Values(m)
  BY <1>2, <1>3, <1>5 DEF Range
<1>7. \A o \in Operations(m) :
         LET op == Operation(m, o) IN
         /\ Len(op.operands) = Len(op.links)
         /\ \A i \in DOMAIN op.operands :
               /\ op.operands[i] \in Values(m)
               /\ op.links[i] \in DOMAIN Value(m, op.operands[i]).uses
               /\ Value(m, op.operands[i]).uses[op.links[i]] = Use(o, i)
         /\ \A i \in DOMAIN op.results : Value(m, op.results[i]).definition = Result(o, i)
         /\ \A r \in Range(op.regions) : Region(m, r).parent = o
  BY DEF Agrees, OperationsAgree
<1>8. \A o \in Operations(m) : \A i \in DOMAIN Operation(m, o).operands :
         UseListAgrees(m, Operation(m, o).operands[i])
  BY <1>7, UseListsAgree
<1>9. \A b \in Blocks(m) :
         LET block == Block(m, b) IN
         /\ \A i \in DOMAIN block.arguments : Value(m, block.arguments[i]).definition = Argument(b, i)
         /\ \A c \in Range(block.operations) : Operation(m, c).parent = b
  BY DEF Agrees, BlocksAgree
<1>10. \A r \in Regions(m) : \A b \in Range(Region(m, r).blocks) : Block(m, b).parent = r
  BY DEF Agrees, RegionsAgree
<1>11. \A v \in Range(OwnedValues(m, root)) : UseListAgrees(m, v)
  BY <1>6, UseListsAgree
<1>12. Cardinality({i \in DOMAIN Block(m, Operation(m, root).parent).operations :
                       Block(m, Operation(m, root).parent).operations[i] = root}) = 1
  BY StandsOnce
<1>13. \A o \in Range(PreOrder(m, root)) :
          LET op == Operation(m, o) IN
          /\ Len(op.operands) = Len(op.links)
          /\ \A i \in DOMAIN op.operands :
                /\ op.links[i] \in DOMAIN Value(m, op.operands[i]).uses
                /\ Value(m, op.operands[i]).uses[op.links[i]] = Use(o, i)
                /\ UseListAgrees(m, op.operands[i])
          /\ \A i \in DOMAIN op.results : Value(m, op.results[i]).definition = Result(o, i)
          /\ \A r \in Range(op.regions) : Region(m, r).parent = o
  BY <1>6, <1>7, <1>8
<1>14. \A r \in Range(OwnedRegions(m, root)), b \in Blocks(m) :
          b \in Range(Region(m, r).blocks) =>
             LET block == Block(m, b) IN
             /\ block.parent = r
             /\ \A i \in DOMAIN block.arguments : Value(m, block.arguments[i]).definition = Argument(b, i)
             /\ \A c \in Range(block.operations) : Operation(m, c).parent = b
  BY <1>6, <1>9, <1>10
<1> QED BY <1>1, <1>3, <1>4, <1>11, <1>12, <1>13, <1>14 DEF TreeAgrees

\* The tree is what its root stands around.
LEMMA TreeIsInside ==
    ASSUME NEW m \in Modules(Types), Agrees(m), Rooted(m), ListsRegionsOnce(m), NEW root \in Operations(m)
    PROVE  Range(PreOrder(m, root)) = {p \in Operations(m) : root \in Enclosing(m, p)}
<1> DEFINE T == Range(PreOrder(m, root))
<1>1. IsInjective(PreOrder(m, root)) /\ \A x \in T : root \in Enclosing(m, x)
  BY WalkedOnce
<1>2. IsTree(m, T, root)
  BY <1>1, TreeWalked
<1> HIDE DEF T
<1>3. T \subseteq Operations(m) /\ root \in T /\ \A o \in Operations(m) : Owner(m, o) \in T <=> o \in T /\ o # root
  BY <1>2 DEF IsTree
<1>4. ASSUME NEW p \in Operations(m), p \notin T PROVE root \notin Enclosing(m, p)
  <2> DEFINE S == Operations(m) \ T
  <2>1. p \in S /\ S \in SUBSET Operations(m)
    BY <1>4
  <2>2. Owners(m, S) \subseteq S
    BY <1>3, OwnerIs DEF Owners
  <2>3. Enclosing(m, p) \subseteq S
    BY <2>1, <2>2, EnclosingMeans
  <2> QED BY <1>3, <2>3
<1> QED BY <1>1, <1>3, <1>4 DEF T

\* A value of the tree escapes when an operation outside has it as an operand.
LEMMA EscapesMeans ==
    ASSUME NEW m \in Modules(Types), Agrees(m), NEW root \in Operations(m), NEW T,
           T = Range(PreOrder(m, root)), Range(OwnedValues(m, root)) = TreeValues(m, T)
    PROVE  Escapes(m, root) <=>
              ~\A p \in Operations(m) \ T : Range(Operation(m, p).operands) \cap TreeValues(m, T) = {}
<1> DEFINE D == TreeValues(m, T)
<1>1. Escapes(m, root) <=> \E v \in D : \E k \in DOMAIN Value(m, v).uses : Value(m, v).uses[k].user \notin T
  BY DEF Escapes
<1>2. D \subseteq Values(m)
  BY DEF TreeValues
<1> HIDE DEF D
<1>3. \A v \in Values(m) : \A k \in DOMAIN Value(m, v).uses :
         LET u == Value(m, v).uses[k]
         IN  /\ u.user \in Operations(m) /\ u.index \in DOMAIN Operation(m, u.user).operands
             /\ Operation(m, u.user).operands[u.index] = v
  BY DEF Agrees, ValuesAgree
<1>4. \A p \in Operations(m) : \A i \in DOMAIN Operation(m, p).operands :
         LET v == Operation(m, p).operands[i]
             k == Operation(m, p).links[i]
         IN  v \in Values(m) /\ k \in DOMAIN Value(m, v).uses /\ Value(m, v).uses[k].user = p
  <2>1. \A p, i : Use(p, i).user = p
    BY DEF Use
  <2> QED BY <2>1 DEF Agrees, OperationsAgree
<1>5. ASSUME NEW v \in D, NEW k \in DOMAIN Value(m, v).uses, Value(m, v).uses[k].user \notin T
      PROVE  \E p \in Operations(m) \ T : v \in Range(Operation(m, p).operands) \cap D
  <2> DEFINE u == Value(m, v).uses[k]
  <2>1. /\ u.user \in Operations(m) /\ u.index \in DOMAIN Operation(m, u.user).operands
        /\ Operation(m, u.user).operands[u.index] = v
    BY <1>2, <1>3
  <2>2. v \in Range(Operation(m, u.user).operands)
    BY <2>1 DEF Range
  <2> QED BY <1>5, <2>1, <2>2
<1>6. ASSUME NEW p \in Operations(m) \ T, NEW v \in Range(Operation(m, p).operands) \cap D
      PROVE  \E k \in DOMAIN Value(m, v).uses : Value(m, v).uses[k].user \notin T
  <2>1. PICK i \in DOMAIN Operation(m, p).operands : Operation(m, p).operands[i] = v
    BY DEF Range
  <2>2. Operation(m, p).links[i] \in DOMAIN Value(m, v).uses /\ Value(m, v).uses[Operation(m, p).links[i]].user = p
    BY <1>4, <2>1
  <2> QED BY <2>2
<1>7. (\E v \in D : \E k \in DOMAIN Value(m, v).uses : Value(m, v).uses[k].user \notin T)
      <=> \E p \in Operations(m) \ T : Range(Operation(m, p).operands) \cap D # {}
  BY <1>5, <1>6
<1> QED BY <1>1, <1>7 DEF D

\* The preflight of erase_operation refuses for one reason only.
LEMMA ErasingTree ==
    ASSUME NEW m \in Modules(Types), Agrees(m), Rooted(m), ListsRegionsOnce(m), NEW root \in Operations(m)
    PROVE  LET T == {p \in Operations(m) : root \in Enclosing(m, p)}
               D == TreeValues(m, T)
               free == \A p \in Operations(m) \ T : Range(Operation(m, p).operands) \cap D = {}
               e == EraseOperation(m, root)
           IN  /\ e.answer = IF free THEN "ok" ELSE "ValueStillUsed"
               /\ free => Operations(e.ir) = Operations(m) \ T /\ Values(e.ir) = Values(m) \ D
<1> DEFINE T == {p \in Operations(m) : root \in Enclosing(m, p)}
           D == TreeValues(m, T)
           free == \A p \in Operations(m) \ T : Range(Operation(m, p).operands) \cap D = {}
           e == EraseOperation(m, root)
           n == UnlinkTree(m, root).ir
           d == Dismantled(m, n, root)
<1>1. T = Range(PreOrder(m, root))
  BY TreeIsInside
<1>2. Resolves(m.operations, root) /\ TreeAgrees(m, root)
  BY ModuleHandles, PlanFindsOrder
<1>3. IsInjective(PreOrder(m, root))
  BY <1>2 DEF TreeAgrees
<1>4. PreOrder(m, root) \in Seq(Operations(m))
      /\ PostOrder(m, root) \in Seq(Operations(m)) /\ IsInjective(PostOrder(m, root))
  BY <1>3, TreeWalked
<1>5. Range(OwnedValues(m, root)) = D
  BY <1>1, <1>4, OwnedValuesAre
<1> HIDE DEF T
<1>6. Escapes(m, root) <=> ~free
  BY <1>1, <1>5, EscapesMeans
<1>7. CASE Escapes(m, root)
  <2>1. e = Refuse(m, "ValueStillUsed")
    BY <1>2, <1>7 DEF EraseOperation
  <2>2. e.answer = "ValueStillUsed"
    BY <2>1 DEF Refuse
  <2> HIDE DEF e, free
  <2>3. e.answer = IF free THEN "ok" ELSE "ValueStillUsed"
    BY <1>6, <1>7, <2>2
  <2> QED BY <1>6, <1>7, <2>3 DEF e, free, T
<1>8. CASE ~Escapes(m, root)
  <2>1. UnlinkTree(m, root) \in Unlinkings(m) /\ ~UnlinkTree(m, root).panicked
    BY <1>4, TreeIsUnlinked
  <2>2. n \in Modules(Types) /\ SameShape(m, n)
    BY <2>1 DEF Unlinkings
  <2>3. e = Ok(d, 1)
    BY <1>2, <1>8, <2>1 DEF EraseOperation, Dismantled
  <2>4. e.ir = d /\ e.answer = "ok"
    BY <2>3 DEF Ok
  <2> HIDE DEF n
  <2>5. Dismantles(m, n, d, root, T)
    BY <1>1, <1>3, <2>2, Dismantling
  <2> HIDE DEF d, e, free, D
  <2>6. Operations(e.ir) = Operations(m) \ T /\ Values(e.ir) = Values(m) \ D
    BY <2>4, <2>5 DEF Dismantles, D
  <2>7. e.answer = IF free THEN "ok" ELSE "ValueStillUsed"
    BY <1>6, <1>8, <2>4
  <2> QED BY <1>6, <1>8, <2>6, <2>7 DEF e, free, T, D
<1> QED BY <1>7, <1>8

-----------------------------------------------------------------------------
(* Scope, and what verification has to do with it.                           *)

\* What an operation finds in its own block, and one level of Scope.
Here(m, o) ==
    LET block == Block(m, Operation(m, o).parent)
    IN  Range(block.arguments) \cup
        UNION {Range(Operation(m, block.operations[i]).results) : i \in 1..(Position(m, o) - 1)}

InScope(m) == [Operations(m) -> SUBSET Values(m)]

ScopeLevel(m, d, s) ==
    [o \in Operations(m) |->
       Here(m, o) \cup (IF d = 0 \/ Owner(m, o) = ModuleOwned THEN {} ELSE s[Owner(m, o)])]

LEMMA HereIsDefined ==
    ASSUME NEW m \in Modules(Types), Agrees(m), NEW o \in Operations(m)
    PROVE  Here(m, o) \subseteq Values(m)
<1> DEFINE b == Operation(m, o).parent
           ops == Block(m, b).operations
<1>1. b \in Blocks(m)
  BY OwnerOf
<1>2. Block(m, b).arguments \in Seq(Values(m)) /\ ops \in Seq(Handles) /\ Range(ops) \subseteq Operations(m)
  BY <1>1, ArgumentsOf, BlockOperations
<1>3. Range(Block(m, b).arguments) \subseteq Values(m)
  BY <1>2 DEF Range
<1>4. Position(m, o) \in DOMAIN ops
  BY PositionFound
<1>5. ASSUME NEW i \in 1..(Position(m, o) - 1) PROVE Range(Operation(m, ops[i]).results) \subseteq Values(m)
  <2>1. i \in DOMAIN ops
    BY <1>2, <1>4
  <2>2. ops[i] \in Operations(m)
    BY <1>2, <2>1 DEF Range
  <2>3. Operation(m, ops[i]).results \in Seq(Values(m))
    BY <2>2, ResultsOf
  <2> QED BY <2>3 DEF Range
<1> QED BY <1>3, <1>5 DEF Here

LEMMA ScopeLevels ==
    ASSUME NEW m \in Modules(Types), Agrees(m)
    PROVE  LET n == Cardinality(Regions(m)) IN
           \E f : /\ \A k \in 0..n : f[k] \in InScope(m) /\ f[k] = ScopeLevel(m, k, f[k - 1])
                  /\ Scope(m) = f[n]
<1> DEFINE n == Cardinality(Regions(m))
           D == InScope(m)
           base == ScopeLevel(m, 0, <<>>)
           op == [p \in D \X (1..n) |-> ScopeLevel(m, p[2], p[1])]
           scope == CHOOSE scope : scope = [d \in 0..n |-> ScopeLevel(m, d, scope[d - 1])]
<1>1. n \in Nat
  BY ModuleParts, LiveFinite DEF Regions
<1>2. base \in D
  BY HereIsDefined DEF ScopeLevel, InScope
<1>3. ASSUME NEW k \in 1..n, NEW s \in D PROVE ScopeLevel(m, k, s) \in D
  <2>1. \A o \in Operations(m) : Owner(m, o) # ModuleOwned => s[Owner(m, o)] \subseteq Values(m)
    BY OwnerIs DEF InScope
  <2>2. \A o \in Operations(m) :
           Here(m, o) \cup (IF k = 0 \/ Owner(m, o) = ModuleOwned THEN {} ELSE s[Owner(m, o)]) \in SUBSET Values(m)
    BY <2>1, HereIsDefined
  <2> QED BY <2>2 DEF ScopeLevel, InScope
<1>4. Scope(m) = scope[n]
  BY DEF Scope, ScopeLevel, Here
<1>5. \A s : ScopeLevel(m, 0, s) = base
  BY DEF ScopeLevel
<1> HIDE DEF n, D, base
<1>6. op \in [D \X (1..n) -> D] /\ \A s \in D, k \in 1..n : op[<<s, k>>] = ScopeLevel(m, k, s)
  BY <1>3
<1> HIDE DEF op
<1>7. PICK f : FoldsTo(f[n], f, n, D, base, op)
  BY <1>1, <1>2, <1>6, FoldsUp
<1>8. f \in [0..n -> D] /\ f[0] = base /\ \A k \in 1..n : f[k] = op[<<f[k - 1], k>>]
  BY <1>7 DEF FoldsTo
<1>9. ASSUME NEW k \in 0..n PROVE f[k] = ScopeLevel(m, k, f[k - 1])
  <2>1. CASE k = 0
    BY <1>5, <1>8, <2>1
  <2>2. CASE k # 0
    <3>1. k \in 1..n /\ k - 1 \in 0..n
      BY <1>1, <2>2
    <3>2. f[k - 1] \in D
      BY <1>8, <3>1
    <3> QED BY <1>6, <1>8, <3>1, <3>2
  <2> QED BY <2>1, <2>2
<1>10. f = [k \in 0..n |-> ScopeLevel(m, k, f[k - 1])]
  BY <1>8, <1>9
<1>11. scope = [k \in 0..n |-> ScopeLevel(m, k, scope[k - 1])]
  BY <1>10
<1> HIDE DEF scope
<1>12. \A k \in 0..n : scope[k] = ScopeLevel(m, k, scope[k - 1])
  BY <1>11
<1> DEFINE P == {k \in Nat : k <= n => scope[k] \in D}
<1>13. 0 \in P
  BY <1>1, <1>2, <1>5, <1>12
<1>14. ASSUME NEW k \in Nat, k \in P PROVE k + 1 \in P
  <2> SUFFICES ASSUME k + 1 <= n PROVE scope[k + 1] \in D
    OBVIOUS
  <2>1. k + 1 \in 0..n /\ k + 1 \in 1..n /\ (k + 1) - 1 = k /\ scope[k] \in D
    BY <1>1, <1>14
  <2> QED BY <1>3, <1>12, <2>1
<1> HIDE DEF P
<1>15. \A k \in Nat : k \in P
  BY <1>13, <1>14, NumbersBySteps
<1>16. \A k \in 0..n : scope[k] \in D
  BY <1>1, <1>15 DEF P
<1> QED BY <1>4, <1>12, <1>16 DEF n, D

\* What stands around o but o itself owns a region each.
LEMMA AroundOwnRegions ==
    ASSUME NEW m \in Modules(Types), Agrees(m), NEW o \in Operations(m)
    PROVE  \A p \in Enclosing(m, o) : p = o \/ \E r \in Regions(m) : Region(m, r).parent = p
<1> DEFINE E == Enclosing(m, o)
           S == {o} \cup Owners(m, E)
<1>1. /\ E \in SUBSET Operations(m) /\ o \in E /\ Owners(m, E) \subseteq E
      /\ \A R \in SUBSET Operations(m) : o \in R /\ Owners(m, R) \subseteq R => E \subseteq R
  BY EnclosingMeans
<1> HIDE DEF E
<1>2. S \subseteq E /\ Owners(m, S) \subseteq S
  BY <1>1 DEF Owners
<1>3. E \subseteq S
  BY <1>1, <1>2
<1>4. \A p \in Owners(m, E) : \E r \in Regions(m) : Region(m, r).parent = p
  BY <1>1, OwnerOf DEF Owners
<1> QED BY <1>3, <1>4 DEF E

LEMMA FewAround ==
    ASSUME NEW m \in Modules(Types), Agrees(m), NEW o \in Operations(m)
    PROVE  LET A == Enclosing(m, o) \ {o}
           IN  IsFiniteSet(A) /\ Cardinality(A) \in Nat /\ Cardinality(A) <= Cardinality(Regions(m))
<1> DEFINE A == Enclosing(m, o) \ {o}
           R == Regions(m)
           I == {r \in R : Region(m, r).parent \in A}
           f == [r \in I |-> Region(m, r).parent]
<1>1. IsFiniteSet(R) /\ Cardinality(R) \in Nat
  BY ModuleParts, LiveFinite DEF Regions
<1>2. IsFiniteSet(I) /\ Cardinality(I) <= Cardinality(R) /\ Cardinality(I) \in Nat
  <2>1. I \in SUBSET R
    OBVIOUS
  <2> HIDE DEF I, R
  <2> QED BY <1>1, <2>1, FS_Subset, FS_CardinalityType
<1>3. \A p \in A : \E r \in I : f[r] = p
  BY AroundOwnRegions
<1>4. f \in Surjection(I, A)
  <2>1. f \in [I -> A]
    OBVIOUS
  <2> HIDE DEF f, I, A
  <2> QED BY <1>3, <2>1 DEF Surjection
<1> HIDE DEF f, I, A, R
<1>5. IsFiniteSet(A) /\ Cardinality(A) <= Cardinality(I)
  BY <1>2, <1>4, FS_Surjection
<1>6. Cardinality(A) \in Nat
  BY <1>5, FS_CardinalityType
<1> QED BY <1>1, <1>2, <1>5, <1>6 DEF A, R

\* Scope goes all the way out: it holds what each operation around o finds.
LEMMA ScopeIsDeep ==
    ASSUME NEW m \in Modules(Types), Agrees(m), Rooted(m), NEW o \in Operations(m)
    PROVE  \A u \in Enclosing(m, o) : Here(m, u) \subseteq Scope(m)[o]
<1> DEFINE n == Cardinality(Regions(m))
           S == Operations(m)
           Around(x) == Enclosing(m, x) \ {x}
<1>1. PICK f : /\ \A k \in 0..n : f[k] \in InScope(m) /\ f[k] = ScopeLevel(m, k, f[k - 1])
               /\ Scope(m) = f[n]
  BY ScopeLevels
<1>2. n \in Nat
  BY ModuleParts, LiveFinite DEF Regions
<1>3. \A x \in S : IsFiniteSet(Around(x)) /\ Cardinality(Around(x)) \in Nat /\ Cardinality(Around(x)) <= n
  BY FewAround
<1> HIDE DEF n
<1>4. \A x \in S, k \in 0..n :
         f[k][x] = Here(m, x) \cup (IF k = 0 \/ Owner(m, x) = ModuleOwned THEN {} ELSE f[k - 1][Owner(m, x)])
  BY <1>1, ZenonT(60) DEF ScopeLevel
<1> DEFINE Deep(k, x) == \A u \in Enclosing(m, x) : Here(m, u) \subseteq f[k][x]
           Holds(k) == \A x \in S : Deep(k, x) \/ Cardinality(Around(x)) > k
           P == {k \in Nat : k <= n => Holds(k)}
<1>5. ASSUME NEW x \in S, Owner(m, x) # ModuleOwned
      PROVE  /\ Owner(m, x) \in S /\ Enclosing(m, x) = {x} \cup Enclosing(m, Owner(m, x))
             /\ Cardinality(Around(x)) = Cardinality(Around(Owner(m, x))) + 1
  <2> DEFINE p == Owner(m, x)
             E == Enclosing(m, p)
             C == Around(p)
  <2>1. p \in S /\ Enclosing(m, x) = {x} \cup E /\ x \notin E
    BY <1>5, OwnerIs, EnclosingUnfolds, NoCycle
  <2>2. p \in E
    BY <2>1, EnclosingMeans
  <2>3. Around(x) = C \cup {p} /\ p \notin C
    BY <2>1, <2>2
  <2>4. IsFiniteSet(C)
    BY <1>3, <2>1
  <2> HIDE DEF C, Around
  <2>5. Cardinality(C \cup {p}) = Cardinality(C) + 1
    BY <2>3, <2>4, FS_AddElement
  <2> QED BY <2>1, <2>3, <2>5 DEF C
<1>6. ASSUME NEW x \in S, Owner(m, x) = ModuleOwned, NEW k \in 0..n PROVE Deep(k, x)
  <2>1. Enclosing(m, x) = {x}
    BY <1>6, EnclosingUnfolds
  <2> QED BY <1>4, <2>1
<1> HIDE DEF Around
<1>7. 0 \in P
  <2> SUFFICES ASSUME NEW x \in S PROVE Deep(0, x) \/ Cardinality(Around(x)) > 0
    OBVIOUS
  <2>1. 0 \in 0..n
    BY <1>2
  <2>2. CASE Owner(m, x) = ModuleOwned
    BY <1>6, <2>1, <2>2
  <2>3. CASE Owner(m, x) # ModuleOwned
    <3>1. Cardinality(Around(x)) = Cardinality(Around(Owner(m, x))) + 1
          /\ Cardinality(Around(Owner(m, x))) \in Nat
      BY <1>3, <1>5, <2>3
    <3> HIDE DEF Deep
    <3> QED BY <3>1
  <2> QED BY <2>2, <2>3
<1>8. ASSUME NEW k \in Nat, k \in P PROVE k + 1 \in P
  <2> SUFFICES ASSUME k + 1 <= n, NEW x \in S PROVE Deep(k + 1, x) \/ Cardinality(Around(x)) > k + 1
    OBVIOUS
  <2>1. k \in 0..n /\ k + 1 \in 0..n /\ k + 1 # 0 /\ (k + 1) - 1 = k /\ k <= n
    BY <1>2
  <2>2. CASE Owner(m, x) = ModuleOwned
    BY <1>6, <2>1, <2>2
  <2>3. CASE Owner(m, x) # ModuleOwned
    <3> DEFINE p == Owner(m, x)
    <3>1. /\ p \in S /\ Enclosing(m, x) = {x} \cup Enclosing(m, p)
          /\ Cardinality(Around(x)) = Cardinality(Around(p)) + 1 /\ Cardinality(Around(p)) \in Nat
      BY <1>3, <1>5, <2>3
    <3>2. f[k + 1][x] = Here(m, x) \cup f[k][p]
      BY <1>4, <2>1, <2>3
    <3>3. Deep(k, p) \/ Cardinality(Around(p)) > k
      <4> HIDE DEF Deep
      <4> QED BY <1>8, <2>1, <3>1
    <3> HIDE DEF p
    <3>4. CASE Deep(k, p)
      <4>1. Deep(k + 1, x)
        BY <3>1, <3>2, <3>4
      <4> QED BY <4>1
    <3>5. CASE Cardinality(Around(p)) > k
      <4> HIDE DEF Deep
      <4> QED BY <3>1, <3>5
    <3> QED BY <3>3, <3>4, <3>5
  <2> QED BY <2>2, <2>3
<1> HIDE DEF P
<1>9. n \in P
  BY <1>2, <1>7, <1>8, NumbersBySteps
<1>10. Deep(n, o)
  <2> HIDE DEF Deep
  <2>1. Deep(n, o) \/ Cardinality(Around(o)) > n
    BY <1>2, <1>9 DEF P
  <2> QED BY <1>2, <1>3, <2>1
<1> QED BY <1>1, <1>10

LEMMA DominationIsHere ==
    ASSUME NEW m \in Modules(Types), Agrees(m), NEW v \in Values(m), NEW o \in Operations(m), Dominates(m, v, o)
    PROVE  \E u \in Enclosing(m, o) : v \in Here(m, u)
<1> DEFINE d == Value(m, v).definition
<1>1. PICK u \in Enclosing(m, o) :
         /\ Operation(m, u).parent = DefinitionBlock(m, v)
         /\ d.kind = "result" => Position(m, d.owner) < Position(m, u)
  BY DEF Dominates
<1>2. u \in Operations(m)
  BY EnclosingMeans
<1>3. d.kind \in {"argument", "result"}
  BY ValueFields DEF Definitions
<1>4. DefinitionAgrees(m, v)
  BY AgreementSplits DEF Owned, DefinitionsAgree
<1>5. CASE d.kind = "argument"
  <2>1. v \in Range(Block(m, d.owner).arguments)
    BY <1>4, <1>5 DEF DefinitionAgrees, Range
  <2>2. Operation(m, u).parent = d.owner
    BY <1>1, <1>5 DEF DefinitionBlock
  <2> QED BY <2>1, <2>2 DEF Here
<1>6. CASE d.kind = "result"
  <2> DEFINE b == Operation(m, u).parent
             ops == Block(m, b).operations
             i == Position(m, d.owner)
  <2>1. d.owner \in Operations(m) /\ v \in Range(Operation(m, d.owner).results)
    BY <1>4, <1>6 DEF DefinitionAgrees, Range
  <2>2. Operation(m, d.owner).parent = b
    BY <1>1, <1>6 DEF DefinitionBlock
  <2>3. i \in DOMAIN ops /\ ops[i] = d.owner /\ Position(m, u) \in DOMAIN ops
    BY <1>2, <2>1, <2>2, PositionFound
  <2>4. ops \in Seq(Handles)
    BY <1>2, OwnerOf, BlockOperations
  <2>5. i < Position(m, u)
    BY <1>1, <1>6
  <2> HIDE DEF i, ops
  <2>6. i \in 1..(Position(m, u) - 1)
    BY <2>3, <2>4, <2>5
  <2> QED BY <2>1, <2>3, <2>6 DEF Here, ops
<1> QED BY <1>3, <1>5, <1>6

LEMMA VerifiedIsInScope ==
    ASSUME NEW m \in Modules(Types), Verified(m), Rooted(m), NEW o \in Operations(m)
    PROVE  Range(Operation(m, o).operands) \subseteq Scope(m)[o]
<1> SUFFICES ASSUME NEW v \in Range(Operation(m, o).operands) PROVE v \in Scope(m)[o]
  OBVIOUS
<1>1. Agrees(m) /\ Dominates(m, v, o)
  BY DEF Verified, IsComplete
<1>2. v \in Values(m)
  BY <1>1 DEF Agrees, OperationsAgree, Range
<1>3. PICK u \in Enclosing(m, o) : v \in Here(m, u)
  BY <1>1, <1>2, DominationIsHere
<1> QED BY <1>1, <1>3, ScopeIsDeep

\* Scope holds nothing but what the operations around o find.
LEMMA ScopeIsHere ==
    ASSUME NEW m \in Modules(Types), Agrees(m), NEW o \in Operations(m), NEW v \in Scope(m)[o]
    PROVE  \E u \in Enclosing(m, o) : v \in Here(m, u)
<1> DEFINE n == Cardinality(Regions(m))
           S == Operations(m)
           Found(x, w) == \E u \in Enclosing(m, x) : w \in Here(m, u)
<1>1. PICK f : /\ \A k \in 0..n : f[k] \in InScope(m) /\ f[k] = ScopeLevel(m, k, f[k - 1])
               /\ Scope(m) = f[n]
  BY ScopeLevels
<1>2. n \in Nat
  BY ModuleParts, LiveFinite DEF Regions
<1> HIDE DEF n
<1>3. \A x \in S, k \in 0..n :
         f[k][x] = Here(m, x) \cup (IF k = 0 \/ Owner(m, x) = ModuleOwned THEN {} ELSE f[k - 1][Owner(m, x)])
  BY <1>1, ZenonT(60) DEF ScopeLevel
<1>4. \A x \in S : x \in Enclosing(m, x)
  BY EnclosingMeans
<1>5. \A x \in S : Owner(m, x) # ModuleOwned =>
         Owner(m, x) \in S /\ Enclosing(m, x) = {x} \cup Enclosing(m, Owner(m, x))
  BY OwnerIs, EnclosingUnfolds
<1> DEFINE P == {k \in Nat : k <= n => \A x \in S : \A w \in f[k][x] : Found(x, w)}
<1>6. 0 \in P
  <2>1. 0 \in 0..n
    BY <1>2
  <2>2. \A x \in S : f[0][x] = Here(m, x)
    BY <1>3, <2>1
  <2> QED BY <1>4, <2>2
<1>7. ASSUME NEW k \in Nat, k \in P PROVE k + 1 \in P
  <2> SUFFICES ASSUME k + 1 <= n, NEW x \in S, NEW w \in f[k + 1][x] PROVE Found(x, w)
    OBVIOUS
  <2>1. k <= n /\ k + 1 \in 0..n /\ k + 1 # 0 /\ (k + 1) - 1 = k
    BY <1>2
  <2>2. CASE w \in Here(m, x)
    BY <1>4, <2>2
  <2>3. CASE w \notin Here(m, x)
    <3>1. Owner(m, x) # ModuleOwned /\ w \in f[k][Owner(m, x)]
      BY <1>3, <2>1, <2>3
    <3>2. Owner(m, x) \in S /\ Enclosing(m, x) = {x} \cup Enclosing(m, Owner(m, x))
      BY <1>5, <3>1
    <3>3. Found(Owner(m, x), w)
      <4> HIDE DEF Found
      <4> QED BY <1>7, <2>1, <3>1, <3>2
    <3> QED BY <3>2, <3>3
  <2> QED BY <2>2, <2>3
<1> HIDE DEF P
<1>8. n \in P
  BY <1>2, <1>6, <1>7, NumbersBySteps
<1> HIDE DEF Found
<1>9. \A w \in f[n][o] : Found(o, w)
  BY <1>2, <1>8 DEF P
<1> QED BY <1>1, <1>9 DEF Found

LEMMA PositionIs ==
    ASSUME NEW m \in Modules(Types), Agrees(m), NEW o \in Operations(m),
           NEW i \in DOMAIN Block(m, Operation(m, o).parent).operations,
           Block(m, Operation(m, o).parent).operations[i] = o
    PROVE  Position(m, o) = i
<1> DEFINE ops == Block(m, Operation(m, o).parent).operations
<1>1. Position(m, o) \in DOMAIN ops /\ ops[Position(m, o)] = o
  BY PositionFound
<1>2. IsInjective(ops)
  BY OwnerOf, BlockOperations
<1> QED BY <1>1, <1>2 DEF IsInjective

LEMMA InScopeDominates ==
    ASSUME NEW m \in Modules(Types), Agrees(m), NEW o \in Operations(m), NEW v \in Scope(m)[o]
    PROVE  v \in Values(m) /\ Dominates(m, v, o)
<1> DEFINE d == Value(m, v).definition
<1>1. PICK u \in Enclosing(m, o) : v \in Here(m, u)
  BY ScopeIsHere
<1>2. u \in Operations(m)
  BY EnclosingMeans
<1> DEFINE b == Operation(m, u).parent
           ops == Block(m, b).operations
<1>3. b \in Blocks(m)
  BY <1>2, OwnerOf
<1>4. v \in Values(m)
  BY <1>1, <1>2, HereIsDefined
<1>5. CASE v \in Range(Block(m, b).arguments)
  <2>1. PICK i \in DOMAIN Block(m, b).arguments : v = Block(m, b).arguments[i]
    BY <1>5 DEF Range
  <2>2. d = Argument(b, i)
    BY <1>3, <2>1 DEF Agrees, BlocksAgree
  <2>3. d.kind = "argument" /\ d.owner = b
    BY <2>2 DEF Argument
  <2>4. DefinitionBlock(m, v) = b /\ d.kind # "result"
    BY <2>3 DEF DefinitionBlock
  <2> QED BY <1>4, <2>4 DEF Dominates
<1>6. CASE v \notin Range(Block(m, b).arguments)
  <2>1. PICK i \in 1..(Position(m, u) - 1) : v \in Range(Operation(m, ops[i]).results)
    BY <1>1, <1>6 DEF Here
  <2>2. ops \in Seq(Handles) /\ Range(ops) \subseteq Operations(m) /\ \A p \in Range(ops) : Operation(m, p).parent = b
    BY <1>3, BlockOperations DEF Agrees, BlocksAgree
  <2>3. Position(m, u) \in DOMAIN ops
    BY <1>2, PositionFound
  <2>4. i \in DOMAIN ops /\ i < Position(m, u)
    <3> HIDE DEF ops
    <3> QED BY <2>1, <2>2, <2>3
  <2>5. ops[i] \in Range(ops)
    BY <2>4 DEF Range
  <2> DEFINE p == ops[i]
  <2>6. p \in Operations(m) /\ Operation(m, p).parent = b
    BY <2>2, <2>5
  <2>7. Position(m, p) = i
    BY <2>4, <2>6, PositionIs
  <2>8. PICK j \in DOMAIN Operation(m, p).results : v = Operation(m, p).results[j]
    BY <2>1 DEF Range
  <2>9. d = Result(p, j)
    BY <2>6, <2>8 DEF Agrees, OperationsAgree
  <2>10. d.kind = "result" /\ d.owner = p
    BY <2>9 DEF Result
  <2> HIDE DEF p
  <2>11. DefinitionBlock(m, v) = b /\ Position(m, d.owner) < Position(m, u)
    BY <2>4, <2>6, <2>7, <2>10 DEF DefinitionBlock
  <2> QED BY <1>4, <2>11 DEF Dominates
<1> QED BY <1>5, <1>6

-----------------------------------------------------------------------------
(* Rewriting.  What an edit leaves in place keeps its order, so what          *)
(* dominated an operation still does.                                        *)

\* What is in both modules stands where it stood, and in the same order.
Ordered(m, n) ==
    /\ \A p \in Operations(m) \cap Operations(n) :
          /\ Operation(n, p).parent = Operation(m, p).parent
          /\ Owner(n, p) = Owner(m, p)
          /\ \A q \in Operations(m) \cap Operations(n) :
                Operation(m, p).parent = Operation(m, q).parent /\ Position(m, p) < Position(m, q)
                   => Position(n, p) < Position(n, q)
    /\ \A v \in Values(m) \cap Values(n) : Value(n, v).definition = Value(m, v).definition

LEMMA EnclosingKept ==
    ASSUME NEW m \in Modules(Types), Agrees(m), NEW n \in Modules(Types), Agrees(n),
           Operations(m) \subseteq Operations(n), \A p \in Operations(m) : Owner(n, p) = Owner(m, p),
           NEW o \in Operations(m)
    PROVE  Enclosing(n, o) = Enclosing(m, o)
<1> DEFINE E == Enclosing(m, o)
           F == Enclosing(n, o)
<1>1. /\ E \in SUBSET Operations(m) /\ o \in E /\ Owners(m, E) \subseteq E
      /\ \A S \in SUBSET Operations(m) : o \in S /\ Owners(m, S) \subseteq S => E \subseteq S
  BY EnclosingMeans
<1>2. /\ o \in F /\ Owners(n, F) \subseteq F
      /\ \A S \in SUBSET Operations(n) : o \in S /\ Owners(n, S) \subseteq S => F \subseteq S
  BY EnclosingMeans
<1> HIDE DEF E, F
<1>3. F \subseteq E
  <2>1. Owners(n, E) = Owners(m, E)
    BY <1>1 DEF Owners
  <2> QED BY <1>1, <1>2, <2>1
<1>4. E \subseteq F
  <2>1. F \in SUBSET Operations(m)
    BY <1>1, <1>3
  <2>2. Owners(m, F) = Owners(n, F)
    BY <2>1 DEF Owners
  <2> QED BY <1>1, <1>2, <2>1, <2>2
<1> QED BY <1>3, <1>4 DEF E, F

LEMMA DominationKept ==
    ASSUME NEW m \in Modules(Types), Agrees(m), NEW n \in Modules(Types), Agrees(n), Ordered(m, n),
           Operations(m) \subseteq Operations(n) \/ Operations(n) \subseteq Operations(m),
           NEW o \in Operations(m) \cap Operations(n), NEW v \in Values(m) \cap Values(n), Dominates(m, v, o)
    PROVE  Dominates(n, v, o)
<1> DEFINE d == Value(m, v).definition
<1>1. PICK u \in Enclosing(m, o) :
         /\ Operation(m, u).parent = DefinitionBlock(m, v)
         /\ d.kind = "result" => Position(m, d.owner) < Position(m, u)
  BY DEF Dominates
<1>2. Enclosing(n, o) = Enclosing(m, o)
  <2>1. \A p \in Operations(m) \cap Operations(n) : Owner(n, p) = Owner(m, p)
    BY DEF Ordered
  <2>2. CASE Operations(m) \subseteq Operations(n)
    BY <2>1, <2>2, EnclosingKept
  <2>3. CASE Operations(n) \subseteq Operations(m)
    BY <2>1, <2>3, EnclosingKept
  <2> QED BY <2>2, <2>3
<1>3. u \in Operations(m) /\ u \in Operations(n)
  BY <1>2, EnclosingMeans
<1>4. Value(n, v).definition = d /\ Operation(n, u).parent = Operation(m, u).parent
  BY <1>3 DEF Ordered
<1>5. d.kind \in {"argument", "result"}
  BY ValueFields DEF Definitions
<1>6. CASE d.kind = "argument"
  <2>1. DefinitionBlock(n, v) = DefinitionBlock(m, v) /\ d.kind # "result"
    BY <1>4, <1>6 DEF DefinitionBlock
  <2> QED BY <1>1, <1>2, <1>4, <2>1 DEF Dominates
<1>7. CASE d.kind = "result"
  <2>1. DefinitionAgrees(m, v) /\ DefinitionAgrees(n, v)
    BY AgreementSplits DEF Owned, DefinitionsAgree
  <2>2. d.owner \in Operations(m) /\ d.owner \in Operations(n)
    BY <1>4, <1>7, <2>1 DEF DefinitionAgrees
  <2>3. DefinitionBlock(m, v) = Operation(m, d.owner).parent /\ DefinitionBlock(n, v) = Operation(n, d.owner).parent
    BY <1>4, <1>7 DEF DefinitionBlock
  <2>4. Operation(n, d.owner).parent = Operation(m, d.owner).parent
    BY <2>2 DEF Ordered
  <2>5. Position(n, d.owner) < Position(n, u)
    BY <1>1, <1>3, <1>7, <2>2, <2>3 DEF Ordered
  <2> QED BY <1>1, <1>2, <1>4, <2>3, <2>4, <2>5 DEF Dominates
<1> QED BY <1>5, <1>6, <1>7

\* What the operands of a verified module have become after replace_all_uses dominates its users.
LEMMA ReplacedIsVerified ==
    ASSUME NEW m \in Modules(Types), Verified(m), NEW n \in Modules(Types), Agrees(n), SameShape(m, n),
           NEW from, NEW to, Redirected(m, n, from, to),
           \A o \in Operations(m) : from \in Range(Operation(m, o).operands) => to \in Scope(m)[o]
    PROVE  Verified(n)
<1>1. Agrees(m) /\ IsComplete(m)
  BY DEF Verified
<1>2. /\ n.regions = m.regions /\ n.blocks = m.blocks
      /\ Operations(n) = Operations(m) /\ Values(n) = Values(m)
      /\ \A o \in Operations(m) :
            /\ Operation(n, o).parent = Operation(m, o).parent
            /\ Operation(n, o).terminator = Operation(m, o).terminator
            /\ Operation(n, o).successors = Operation(m, o).successors
      /\ \A v \in Values(m) : Value(n, v).definition = Value(m, v).definition
  BY DEF SameShape
<1>3. /\ Regions(n) = Regions(m) /\ Blocks(n) = Blocks(m)
      /\ \A r : Region(n, r) = Region(m, r)
      /\ \A b : Block(n, b) = Block(m, b)
  BY <1>2 DEF Regions, Blocks, Region, Block
<1>4. \A o \in Operations(m) : Owner(n, o) = Owner(m, o) /\ Position(n, o) = Position(m, o)
  BY <1>2, <1>3 DEF Owner, Position
<1>5. Ordered(m, n)
  BY <1>2, <1>4 DEF Ordered
<1>6. \A r \in Regions(n) : Region(n, r).blocks # <<>>
  BY <1>1, <1>3 DEF IsComplete
<1>7. ASSUME NEW b \in Blocks(n)
      PROVE  LET ops == Block(n, b).operations IN
             /\ ops # <<>>
             /\ \A i \in DOMAIN ops : Operation(n, ops[i]).terminator <=> i = Len(ops)
  <2> DEFINE ops == Block(m, b).operations
  <2>1. /\ ops # <<>>
        /\ \A i \in DOMAIN ops : Operation(m, ops[i]).terminator <=> i = Len(ops)
    BY <1>1, <1>3 DEF IsComplete
  <2>2. Range(ops) \subseteq Operations(m) /\ Block(n, b).operations = ops
    BY <1>1, <1>3, BlockOperations
  <2>3. \A i \in DOMAIN ops : ops[i] \in Operations(m)
    BY <2>2 DEF Range
  <2> QED BY <1>2, <2>1, <2>2, <2>3
<1>8. ASSUME NEW o \in Operations(n)
      PROVE  LET op == Operation(n, o) IN
             /\ op.successors # {} => op.terminator
             /\ \A b \in op.successors : b \in Blocks(n) /\ Block(n, b).parent = Block(n, op.parent).parent
  BY <1>1, <1>2, <1>3 DEF IsComplete
<1>9. ASSUME NEW o \in Operations(n), NEW v \in Range(Operation(n, o).operands) PROVE Dominates(n, v, o)
  <2> DEFINE ops == Operation(m, o).operands
  <2>1. PICK i \in DOMAIN Operation(n, o).operands : v = Operation(n, o).operands[i]
    BY DEF Range
  <2> DEFINE u == Use(o, i)
  <2>2. u \in AllUses(n) /\ u.user = o /\ u.index = i
    <3>1. u \in AllUses(n)
      BY AllUsesLinked DEF Agrees
    <3> QED BY <3>1 DEF Use
  <2>3. u \in AllUses(m) /\ HasOperand(m, u)
    BY <2>2, SameOperands DEF AllUses
  <2>4. OperandAt(n, u) = v /\ OperandAt(m, u) = ops[i] /\ i \in DOMAIN ops
    BY <2>1, <2>2, <2>3 DEF OperandAt, HasOperand
  <2> HIDE DEF u
  <2>5. ops[i] \in Range(ops) /\ ops[i] \in Values(m) /\ Dominates(m, ops[i], o)
    BY <1>1, <1>2, <2>4 DEF Range, IsComplete, Agrees, OperationsAgree
  <2>6. v \in Values(m) /\ Dominates(m, v, o)
    <3>1. CASE v = ops[i]
      BY <2>5, <3>1
    <3>2. CASE ops[i] = from /\ v = to
      <4>1. to \in Scope(m)[o]
        BY <1>2, <2>5, <3>2
      <4> QED BY <1>1, <1>2, <3>2, <4>1, InScopeDominates
    <3> QED BY <2>3, <2>4, <3>1, <3>2 DEF Redirected
  <2> QED BY <1>1, <1>2, <1>5, <2>6, DominationKept
<1>10. IsComplete(n)
  BY <1>6, <1>7, <1>8, <1>9 DEF IsComplete
<1> QED BY <1>10 DEF Verified

\* What stands in one block is dominated by the same values, but for what the one defines.
LEMMA RightBefore ==
    ASSUME NEW n \in Modules(Types), Agrees(n), NEW o \in Operations(n), NEW a \in Operations(n),
           Operation(n, o).parent = Operation(n, a).parent, Position(n, a) = Position(n, o) + 1,
           NEW v \in Values(n), Value(n, v).definition.kind = "result" => Value(n, v).definition.owner # o,
           Dominates(n, v, a)
    PROVE  Dominates(n, v, o)
<1> DEFINE d == Value(n, v).definition
           p == d.owner
<1>1. PICK u \in Enclosing(n, a) :
         /\ Operation(n, u).parent = DefinitionBlock(n, v)
         /\ d.kind = "result" => Position(n, p) < Position(n, u)
  BY DEF Dominates
<1>2. Owner(n, o) = Owner(n, a)
  BY DEF Owner
<1>3. CASE u = a
  <2>1. Operation(n, o).parent = DefinitionBlock(n, v) /\ o \in Enclosing(n, o)
    BY <1>1, <1>3, EnclosingMeans
  <2>2. CASE d.kind = "result"
    <3> DEFINE ops == Block(n, Operation(n, o).parent).operations
    <3>1. Position(n, p) < Position(n, o) + 1
      BY <1>1, <1>3, <2>2
    <3>2. p \in Operations(n)
      BY <2>2, AgreementSplits DEF Owned, DefinitionsAgree, DefinitionAgrees
    <3>3. Operation(n, p).parent = Operation(n, o).parent
      BY <2>1, <2>2 DEF DefinitionBlock
    <3>4. /\ Position(n, p) \in DOMAIN ops /\ ops[Position(n, p)] = p
          /\ Position(n, o) \in DOMAIN ops /\ ops[Position(n, o)] = o
      BY <3>2, <3>3, PositionFound
    <3>5. ops \in Seq(Handles)
      BY OwnerOf, BlockOperations
    <3>6. Position(n, p) \in Nat /\ Position(n, o) \in Nat
      <4> HIDE DEF ops
      <4> QED BY <3>4, <3>5
    <3>7. Position(n, p) # Position(n, o)
      BY <2>2, <3>4
    <3>8. Position(n, p) < Position(n, o)
      BY <3>1, <3>6, <3>7
    <3> QED BY <2>1, <3>8 DEF Dominates
  <2>3. CASE d.kind # "result"
    BY <2>1, <2>3 DEF Dominates
  <2> QED BY <2>2, <2>3
<1>4. CASE u # a
  <2>1. Owner(n, a) \in Operations(n) /\ u \in Enclosing(n, Owner(n, a))
    BY <1>1, <1>4, EnclosingUnfolds, OwnerIs
  <2>2. u \in Enclosing(n, o)
    BY <1>2, <2>1, EnclosingUnfolds
  <2> QED BY <1>1, <2>2 DEF Dominates
<1> QED BY <1>3, <1>4

\* Of operations in one block, none changes sides when one more is put among them.
LEMMA PutKeepsOrder ==
    ASSUME NEW m \in Modules(Types), Agrees(m), NEW n \in Modules(Types), Agrees(n), Enlarges(m, n),
           NEW anchor \in Operations(m), NEW o \in Handles, NEW spec, PutBefore(m, n, anchor, o, spec)
    PROVE  /\ Ordered(m, n)
           /\ OneMore(Block(m, Operation(m, anchor).parent).operations, Position(m, anchor), o,
                      Block(n, Operation(m, anchor).parent).operations)
           /\ Position(m, anchor) \in 1..Len(Block(m, Operation(m, anchor).parent).operations)
           /\ Position(n, o) = Position(m, anchor) /\ Position(n, anchor) = Position(m, anchor) + 1
<1> DEFINE b == Operation(m, anchor).parent
           i == Position(m, anchor)
           s == Block(m, b).operations
           t == Block(n, b).operations
           moved(k) == IF k < i THEN k ELSE k + 1
<1>1. Made(m, n, b, o) /\ t = InsertAt(s, i, o)
  BY DEF PutBefore
<1>2. b \in Blocks(m)
  BY OwnerOf
<1>3. s \in Seq(Handles) /\ i \in DOMAIN s /\ s[i] = anchor
  BY <1>2, BlockOperations, PositionFound
<1>4. i \in 1..Len(s) /\ Len(s) \in Nat /\ DOMAIN s = 1..Len(s)
  BY <1>3
<1>5. OneMore(s, i, o, t)
  <2> HIDE DEF s, t, i
  <2> QED BY <1>1, <1>3, <1>4, InsertedThere
<1>6. /\ Operations(n) = Operations(m) \cup {o} /\ o \notin Operations(m) /\ Values(m) \subseteq Values(n)
      /\ Operation(n, o).parent = b
      /\ \A p \in Operations(m) : Operation(n, p).parent = Operation(m, p).parent
      /\ \A v \in Values(m) : Value(n, v).definition = Value(m, v).definition
      /\ \A c \in Blocks(m) : c # b => Block(n, c) = Block(m, c)
  BY <1>1 DEF Made
<1>7. ASSUME NEW p \in Operations(m) PROVE Owner(n, p) = Owner(m, p)
  <2> DEFINE c == Operation(m, p).parent
  <2>1. c \in Blocks(m) /\ Block(m, c).parent \in Regions(m)
    BY OwnerOf
  <2>2. Operation(n, p).parent = c /\ Block(n, c).parent = Block(m, c).parent
        /\ Region(n, Block(m, c).parent).parent = Region(m, Block(m, c).parent).parent
    BY <2>1 DEF Enlarges
  <2> QED BY <2>2 DEF Owner
<1> HIDE DEF i, s, t, b
<1>8. ASSUME NEW p \in Operations(m), Operation(m, p).parent = b
      PROVE  /\ Position(m, p) \in 1..Len(s) /\ Position(n, p) = moved(Position(m, p))
  <2> DEFINE k == Position(m, p)
  <2>1. k \in 1..Len(s) /\ s[k] = p
    BY <1>4, <1>8, PositionFound DEF s
  <2>2. i \in Nat /\ k \in Nat
    BY <1>4, <2>1
  <2> HIDE DEF k
  <2>3. moved(k) \in 1..(Len(s) + 1)
    BY <1>4, <2>1
  <2>4. t[moved(k)] = s[k]
    <3>1. CASE k < i
      <4>1. moved(k) = k
        BY <3>1
      <4> HIDE DEF moved
      <4> QED BY <1>5, <2>3, <3>1, <4>1 DEF OneMore
    <3>2. CASE ~(k < i)
      <4>1. moved(k) = k + 1
        BY <3>2
      <4>2. ~(k + 1 < i) /\ k + 1 # i /\ (k + 1) - 1 = k
        BY <2>2, <3>2
      <4> HIDE DEF moved
      <4> QED BY <1>5, <2>3, <4>1, <4>2 DEF OneMore
    <3> QED BY <3>1, <3>2
  <2> HIDE DEF moved
  <2>5. moved(k) \in DOMAIN t /\ t[moved(k)] = p
    BY <1>5, <2>1, <2>3, <2>4 DEF OneMore
  <2>6. p \in Operations(n) /\ t = Block(n, Operation(n, p).parent).operations
    BY <1>6, <1>8 DEF t
  <2>7. Position(n, p) = moved(k)
    BY <2>5, <2>6, PositionIs
  <2> QED BY <2>1, <2>7 DEF k
<1>9. ASSUME NEW p \in Operations(m), Operation(m, p).parent # b
      PROVE  Position(n, p) = Position(m, p)
  <2>1. Operation(m, p).parent \in Blocks(m)
    BY OwnerOf
  <2>2. Operation(n, p).parent = Operation(m, p).parent
        /\ Block(n, Operation(m, p).parent) = Block(m, Operation(m, p).parent)
    BY <1>6, <1>9, <2>1
  <2> QED BY <2>2 DEF Position
<1>10. ASSUME NEW p \in Operations(m), NEW q \in Operations(m),
              Operation(m, p).parent = Operation(m, q).parent, Position(m, p) < Position(m, q)
       PROVE  Position(n, p) < Position(n, q)
  <2>1. CASE Operation(m, p).parent = b
    <3>1. /\ Position(m, p) \in 1..Len(s) /\ Position(n, p) = moved(Position(m, p))
          /\ Position(m, q) \in 1..Len(s) /\ Position(n, q) = moved(Position(m, q))
      BY <1>8, <1>10, <2>1
    <3> DEFINE k == Position(m, p)
               l == Position(m, q)
    <3>2. k \in Nat /\ l \in Nat /\ i \in Nat /\ k < l
      BY <1>4, <1>10, <3>1
    <3> HIDE DEF k, l
    <3>3. moved(k) < moved(l)
      BY <3>2
    <3> HIDE DEF moved
    <3> QED BY <3>1, <3>3 DEF k, l
  <2>2. CASE Operation(m, p).parent # b
    BY <1>9, <1>10, <2>2
  <2> QED BY <2>1, <2>2
<1>11. Ordered(m, n)
  <2>1. Operations(m) \cap Operations(n) = Operations(m) /\ Values(m) \cap Values(n) = Values(m)
    BY <1>6
  <2> QED BY <1>6, <1>7, <1>10, <2>1 DEF Ordered
<1>12. Position(n, o) = i
  <2>1. i \in 1..(Len(s) + 1) /\ ~(i < i)
    BY <1>4
  <2>2. i \in DOMAIN t /\ t[i] = o
    BY <1>5, <2>1 DEF OneMore
  <2>3. o \in Operations(n) /\ t = Block(n, Operation(n, o).parent).operations
    BY <1>6 DEF t
  <2> QED BY <2>2, <2>3, PositionIs
<1>13. Position(n, anchor) = i + 1
  <2>1. Position(n, anchor) = moved(i)
    BY <1>8 DEF b, i
  <2>2. moved(i) = i + 1
    BY <1>4
  <2> QED BY <2>1, <2>2
<1> QED BY <1>4, <1>5, <1>11, <1>12, <1>13 DEF b, i, s, t

\* An operation that neither ends its block nor branches, and uses what is in scope
\* at the anchor, leaves a verified module verified.
LEMMA InsertedIsVerified ==
    ASSUME NEW m \in Modules(Types), Verified(m), NEW n \in Modules(Types), Agrees(n), Enlarges(m, n),
           NEW anchor \in Operations(m), NEW o \in Handles, NEW spec, PutBefore(m, n, anchor, o, spec),
           spec.successors = {}, spec.terminator = FALSE, Range(spec.operands) \subseteq Scope(m)[anchor]
    PROVE  Verified(n)
<1> DEFINE b == Operation(m, anchor).parent
           i == Position(m, anchor)
           s == Block(m, b).operations
           t == Block(n, b).operations
<1>1. Agrees(m) /\ IsComplete(m)
  BY DEF Verified
<1>2. /\ Ordered(m, n) /\ OneMore(s, i, o, t) /\ i \in 1..Len(s)
      /\ Position(n, o) = i /\ Position(n, anchor) = i + 1
  BY <1>1, PutKeepsOrder
<1>3. Made(m, n, b, o) /\ Follows(n, o, spec)
  BY DEF PutBefore
<1>4. /\ n.regions = m.regions /\ Blocks(n) = Blocks(m)
      /\ \A c \in Blocks(m) : c # b => Block(n, c) = Block(m, c)
      /\ Operations(n) = Operations(m) \cup {o} /\ o \notin Operations(m)
      /\ \A p \in Operations(m) : Operation(n, p).parent = Operation(m, p).parent /\ Acts(m, n, p)
      /\ Operation(n, o).parent = b /\ Values(m) \subseteq Values(n)
      /\ \A v \in Values(m) : Value(n, v).definition = Value(m, v).definition
  BY <1>3 DEF Made
<1>5. \A c \in Blocks(m) : Block(n, c).parent = Block(m, c).parent
  BY DEF Enlarges
<1>6. b \in Blocks(m) /\ s \in Seq(Handles) /\ Range(s) \subseteq Operations(m)
  BY <1>1, OwnerOf, BlockOperations
<1>7. \A r \in Regions(n) : Region(n, r).blocks # <<>>
  BY <1>1, <1>4 DEF IsComplete, Regions, Region
<1>8. ASSUME NEW c \in Blocks(n), c # b
      PROVE  LET ops == Block(n, c).operations IN
             /\ ops # <<>>
             /\ \A j \in DOMAIN ops : Operation(n, ops[j]).terminator <=> j = Len(ops)
  <2> DEFINE ops == Block(m, c).operations
  <2>1. /\ ops # <<>>
        /\ \A j \in DOMAIN ops : Operation(m, ops[j]).terminator <=> j = Len(ops)
    BY <1>1, <1>4 DEF IsComplete
  <2>2. Range(ops) \subseteq Operations(m) /\ Block(n, c).operations = ops
    BY <1>1, <1>4, <1>8, BlockOperations
  <2>3. \A j \in DOMAIN ops : Operation(n, ops[j]).terminator = Operation(m, ops[j]).terminator
    BY <1>4, <2>2 DEF Range, Acts
  <2> QED BY <2>1, <2>2, <2>3
<1>9. /\ t # <<>>
      /\ \A j \in DOMAIN t : Operation(n, t[j]).terminator <=> j = Len(t)
  <2>1. \A j \in DOMAIN s : Operation(m, s[j]).terminator <=> j = Len(s)
    BY <1>1, <1>6 DEF IsComplete
  <2>2. \A j \in DOMAIN s : Operation(n, s[j]).terminator = Operation(m, s[j]).terminator
    BY <1>4, <1>6 DEF Range, Acts
  <2>3. Operation(n, o).terminator = FALSE
    BY <1>3 DEF Follows
  <2> HIDE DEF s, t, i
  <2>4. \A j \in 1..Len(s) : Operation(n, s[j]).terminator <=> j = Len(s)
    BY <1>6, <2>1, <2>2
  <2>5. Len(s) \in Nat /\ i \in Nat /\ i <= Len(s)
    BY <1>2, <1>6
  <2>6. Len(t) = Len(s) + 1 /\ DOMAIN t = 1..(Len(s) + 1)
    BY <1>2 DEF OneMore
  <2>7. ASSUME NEW j \in DOMAIN t PROVE Operation(n, t[j]).terminator <=> j = Len(t)
    <3>1. j \in 1..(Len(s) + 1) /\ t[j] = IF j < i THEN s[j] ELSE IF j = i THEN o ELSE s[j - 1]
      BY <1>2, <2>6 DEF OneMore
    <3>2. CASE j < i
      <4>1. j \in 1..Len(s) /\ j # Len(s) /\ j # Len(s) + 1 /\ t[j] = s[j]
        BY <2>5, <3>1, <3>2
      <4> QED BY <2>4, <2>6, <4>1
    <3>3. CASE j = i
      <4>1. t[j] = o /\ j # Len(s) + 1
        BY <2>5, <3>1, <3>3
      <4> QED BY <2>3, <2>6, <4>1
    <3>4. CASE j > i
      <4>1. j \in Nat /\ j > i /\ j <= Len(s) + 1 /\ i >= 1
        BY <1>2, <2>5, <3>1, <3>4
      <4>2. j - 1 \in 1..Len(s) /\ (j - 1 = Len(s) <=> j = Len(s) + 1) /\ ~(j < i) /\ j # i
        BY <2>5, <4>1
      <4>3. t[j] = s[j - 1]
        BY <3>1, <4>2
      <4> QED BY <2>4, <2>6, <4>2, <4>3
    <3> QED BY <2>5, <3>1, <3>2, <3>3, <3>4
  <2>8. t # <<>>
    BY <2>5, <2>6
  <2> QED BY <2>7, <2>8
<1>10. ASSUME NEW p \in Operations(n)
       PROVE  LET op == Operation(n, p) IN
              /\ op.successors # {} => op.terminator
              /\ \A c \in op.successors : c \in Blocks(n) /\ Block(n, c).parent = Block(n, op.parent).parent
  <2>1. CASE p = o
    BY <1>3, <2>1 DEF Follows
  <2>2. CASE p \in Operations(m)
    <3>1. /\ Operation(m, p).successors # {} => Operation(m, p).terminator
          /\ \A c \in Operation(m, p).successors :
                c \in Blocks(m) /\ Block(m, c).parent = Block(m, Operation(m, p).parent).parent
      BY <1>1, <2>2 DEF IsComplete
    <3>2. Operation(m, p).parent \in Blocks(m)
      BY <1>1, <2>2, OwnerOf
    <3> QED BY <1>4, <1>5, <2>2, <3>1, <3>2 DEF Acts
  <2> QED BY <1>4, <2>1, <2>2
<1>11. ASSUME NEW p \in Operations(m), NEW v \in Values(m), Dominates(m, v, p) PROVE Dominates(n, v, p)
  BY <1>1, <1>2, <1>4, <1>11, DominationKept
<1>12. ASSUME NEW p \in Operations(n), NEW v \in Range(Operation(n, p).operands) PROVE Dominates(n, v, p)
  <2>1. CASE p \in Operations(m)
    <3>1. v \in Range(Operation(m, p).operands)
      BY <1>4, <2>1 DEF Acts
    <3>2. v \in Values(m) /\ Dominates(m, v, p)
      BY <1>1, <2>1, <3>1 DEF IsComplete, Agrees, OperationsAgree, Range
    <3> QED BY <1>11, <2>1, <3>2
  <2>2. CASE p = o
    <3>1. v \in Scope(m)[anchor]
      BY <1>3, <2>2 DEF Follows
    <3>2. v \in Values(m) /\ Dominates(m, v, anchor)
      BY <1>1, <3>1, InScopeDominates
    <3>3. v \in Values(n) /\ Dominates(n, v, anchor)
      BY <1>4, <1>11, <3>2
    <3> DEFINE d == Value(m, v).definition
    <3>4. d = Value(n, v).definition
      BY <1>4, <3>2
    <3>5. d.kind = "result" => d.owner # o
      <4>1. DefinitionAgrees(m, v) /\ d.kind \in {"argument", "result"}
        BY <1>1, <3>2, ValueFields, AgreementSplits DEF Definitions, Owned, DefinitionsAgree
      <4> QED BY <1>4, <4>1 DEF DefinitionAgrees
    <3>6. anchor \in Operations(n) /\ Operation(n, o).parent = Operation(n, anchor).parent
          /\ o \in Operations(n) /\ Position(n, anchor) = Position(n, o) + 1
      BY <1>2, <1>4
    <3>7. Dominates(n, v, o)
      <4> HIDE DEF d
      <4> QED BY <3>3, <3>4, <3>5, <3>6, RightBefore
    <3> QED BY <2>2, <3>7
  <2> QED BY <1>4, <2>1, <2>2
<1>13. IsComplete(n)
  BY <1>7, <1>8, <1>9, <1>10, <1>12 DEF IsComplete
<1> QED BY <1>13 DEF Verified

\* What is left when an operation that does not end its block is erased is verified.
LEMMA ErasedIsVerified ==
    ASSUME NEW m \in Modules(Types), Verified(m), NEW e \in Modules(Types), Agrees(e), Reduces(m, e),
           NEW root \in Operations(m), Operation(m, root).terminator = FALSE, NEW T, Cuts(m, e, root, T)
    PROVE  Verified(e)
<1> DEFINE b == Operation(m, root).parent
           s == Block(m, b).operations
           t == Block(e, b).operations
           i == Position(m, root)
           left(k) == IF k < i THEN k ELSE k - 1
<1>1. Agrees(m) /\ IsComplete(m)
  BY DEF Verified
<1>2. PICK n \in Modules(Types) :
         /\ SameShape(m, n) /\ Dismantles(m, n, e, root, T)
         /\ \A u \in AllUses(m) : OperandAt(n, u) = OperandAt(m, u)
  BY DEF Cuts
<1>3. KeepsOperands(m, n)
  BY <1>2 DEF KeepsOperands, AllUses, HasOperand
<1>4. ASSUME NEW p \in Operations(e)
      PROVE  p \in Operations(m) /\ p # root /\ Operation(e, p).parent = Operation(m, p).parent /\ Acts(m, e, p)
  <2>1. p \in Operations(m) /\ p # root /\ Operation(e, p) = Operation(n, p)
    BY <1>2 DEF Dismantles, Cuts, IsTree
  <2>2. Len(Operation(m, p).operands) = Len(Operation(m, p).links)
    BY <1>1, <2>1 DEF Agrees, OperationsAgree
  <2>3. Operation(n, p).operands = Operation(m, p).operands
    BY <1>2, <1>3, <2>1, <2>2, SameLists
  <2>4. /\ Operation(n, p).parent = Operation(m, p).parent
        /\ Operation(n, p).terminator = Operation(m, p).terminator
        /\ Operation(n, p).successors = Operation(m, p).successors
    BY <1>2, <2>1 DEF SameShape
  <2> QED BY <2>1, <2>3, <2>4 DEF Acts
<1>5. /\ Values(e) \subseteq Values(m)
      /\ \A v \in Values(e) : Value(e, v).definition = Value(m, v).definition
  BY <1>2 DEF Dismantles, SameShape
<1>6. /\ Regions(e) \subseteq Regions(m) /\ \A r \in Regions(e) : Region(e, r) = Region(m, r)
      /\ Blocks(e) = Blocks(m) \ TreeBlocks(m, T)
      /\ \A c \in Blocks(e) : c # b => Block(e, c) = Block(m, c)
      /\ b \in Blocks(e) /\ Block(e, b) = [Block(m, b) EXCEPT !.operations = RemoveFirst(s, root)]
  BY <1>2 DEF Dismantles
<1>7. b \in Blocks(m) /\ Block(m, b) \in BlockData /\ s \in Seq(Handles) /\ IsInjective(s)
      /\ Range(s) \subseteq Operations(m)
  BY <1>1, OwnerOf, BlockFields, BlockOperations
<1>8. t = RemoveFirst(s, root)
  BY <1>6, <1>7 DEF BlockData
<1>9. i \in 1..Len(s) /\ s[i] = root /\ Len(s) \in Nat /\ DOMAIN s = 1..Len(s)
  BY <1>1, <1>7, PositionFound
<1>10. t \in Seq(Handles) /\ OneLess(s, i, t)
  <2> HIDE DEF s, t, i
  <2> QED BY <1>7, <1>8, <1>9, FirstRemoved
<1>11. \A p \in Operations(e) : Owner(e, p) = Owner(m, p)
  <2> SUFFICES ASSUME NEW p \in Operations(e) PROVE Owner(e, p) = Owner(m, p)
    OBVIOUS
  <2> DEFINE c == Operation(e, p).parent
  <2>1. c \in Blocks(e) /\ Block(e, c).parent \in Regions(e)
    BY OwnerOf
  <2>2. Operation(m, p).parent = c /\ Block(e, c).parent = Block(m, c).parent
        /\ Region(e, Block(e, c).parent).parent = Region(m, Block(e, c).parent).parent
    BY <2>1 DEF Reduces
  <2> QED BY <2>2 DEF Owner
<1>12. \A c \in Blocks(e) : Block(e, c).parent = Block(m, c).parent
  BY DEF Reduces
<1> HIDE DEF b, s, t, i
<1>13. ASSUME NEW p \in Operations(e), Operation(e, p).parent = b
       PROVE  Position(m, p) \in 1..Len(s) /\ Position(m, p) # i /\ Position(e, p) = left(Position(m, p))
  <2> DEFINE k == Position(m, p)
  <2>1. k \in 1..Len(s) /\ s[k] = p /\ k # i
    BY <1>1, <1>4, <1>9, <1>13, PositionFound DEF s
  <2> HIDE DEF k
  <2>2. left(k) \in 1..(Len(s) - 1)
    BY <1>9, <2>1
  <2>3. t[left(k)] = p
    <3>1. CASE k < i
      <4>1. left(k) = k
        BY <3>1
      <4> HIDE DEF left
      <4> QED BY <1>10, <2>1, <2>2, <3>1, <4>1 DEF OneLess
    <3>2. CASE ~(k < i)
      <4>1. left(k) = k - 1
        BY <3>2
      <4>2. ~(k - 1 < i) /\ (k - 1) + 1 = k
        BY <1>9, <2>1, <3>2
      <4> HIDE DEF left
      <4> QED BY <1>10, <2>1, <2>2, <4>1, <4>2 DEF OneLess
    <3> QED BY <3>1, <3>2
  <2> HIDE DEF left
  <2>4. left(k) \in DOMAIN t /\ t = Block(e, Operation(e, p).parent).operations
    BY <1>10, <1>13, <2>2 DEF OneLess, t
  <2>5. Position(e, p) = left(k)
    BY <2>3, <2>4, PositionIs
  <2> QED BY <2>1, <2>5 DEF k
<1>14. ASSUME NEW p \in Operations(e), Operation(e, p).parent # b PROVE Position(e, p) = Position(m, p)
  <2>1. Operation(e, p).parent \in Blocks(e)
    BY OwnerOf
  <2>2. Operation(m, p).parent = Operation(e, p).parent
        /\ Block(e, Operation(e, p).parent) = Block(m, Operation(e, p).parent)
    BY <1>4, <1>6, <1>14, <2>1
  <2> QED BY <2>2 DEF Position
<1>15. ASSUME NEW p \in Operations(e), NEW q \in Operations(e),
              Operation(m, p).parent = Operation(m, q).parent, Position(m, p) < Position(m, q)
       PROVE  Position(e, p) < Position(e, q)
  <2>0. Operation(e, p).parent = Operation(e, q).parent
    BY <1>4, <1>15
  <2>1. CASE Operation(e, p).parent = b
    <3>1. /\ Position(m, p) \in 1..Len(s) /\ Position(m, p) # i /\ Position(e, p) = left(Position(m, p))
          /\ Position(m, q) \in 1..Len(s) /\ Position(m, q) # i /\ Position(e, q) = left(Position(m, q))
      BY <1>13, <2>0, <2>1
    <3> DEFINE k == Position(m, p)
               l == Position(m, q)
    <3>2. k \in Nat /\ l \in Nat /\ i \in Nat /\ k < l /\ k # i /\ l # i
      BY <1>9, <1>15, <3>1
    <3> HIDE DEF k, l
    <3>3. left(k) < left(l)
      BY <3>2
    <3> HIDE DEF left
    <3> QED BY <3>1, <3>3 DEF k, l
  <2>2. CASE Operation(e, p).parent # b
    BY <1>14, <1>15, <2>0, <2>2
  <2> QED BY <2>1, <2>2
<1>16. Ordered(m, e) /\ Operations(e) \subseteq Operations(m)
  <2>1. Operations(e) \subseteq Operations(m) /\ Values(m) \cap Values(e) = Values(e)
    BY <1>4, <1>5
  <2>2. Operations(m) \cap Operations(e) = Operations(e)
    BY <2>1
  <2> QED BY <1>4, <1>5, <1>11, <1>15, <2>1, <2>2 DEF Ordered
<1>17. \A r \in Regions(e) : Region(e, r).blocks # <<>>
  BY <1>1, <1>6 DEF IsComplete
<1>18. ASSUME NEW c \in Blocks(e), c # b
       PROVE  LET ops == Block(e, c).operations IN
              /\ ops # <<>>
              /\ \A j \in DOMAIN ops : Operation(e, ops[j]).terminator <=> j = Len(ops)
  <2> DEFINE ops == Block(m, c).operations
  <2>1. Block(e, c) = Block(m, c) /\ c \in Blocks(m)
    BY <1>6, <1>18
  <2>2. /\ ops # <<>>
        /\ \A j \in DOMAIN ops : Operation(m, ops[j]).terminator <=> j = Len(ops)
    BY <1>1, <2>1 DEF IsComplete
  <2>3. Range(ops) \subseteq Operations(e)
    BY <2>1, BlockOperations
  <2>4. \A j \in DOMAIN ops : Operation(e, ops[j]).terminator = Operation(m, ops[j]).terminator
    BY <1>4, <2>3 DEF Range, Acts
  <2> QED BY <2>1, <2>2, <2>4
<1>19. /\ t # <<>>
       /\ \A j \in DOMAIN t : Operation(e, t[j]).terminator <=> j = Len(t)
  <2>1. \A j \in 1..Len(s) : Operation(m, s[j]).terminator <=> j = Len(s)
    BY <1>1, <1>7, <1>9, SMTT(40) DEF IsComplete, s
  <2>2. i # Len(s)
    <3>1. ~Operation(m, s[i]).terminator
      BY <1>9
    <3> QED BY <1>9, <2>1, <3>1
  <2>3. Len(s) \in Nat /\ i \in Nat /\ 1 <= i /\ i < Len(s)
    <3>1. Len(s) \in Nat /\ i \in 1..Len(s)
      BY <1>9
    <3> QED BY <2>2, <3>1
  <2>4. Len(t) = Len(s) - 1 /\ DOMAIN t = 1..(Len(s) - 1)
    BY <1>10 DEF OneLess
  <2>5. Range(t) \subseteq Operations(e)
    BY <1>6, BlockOperations DEF t
  <2>6. \A j \in DOMAIN t : Operation(e, t[j]).terminator = Operation(m, t[j]).terminator
    BY <1>4, <2>5 DEF Range, Acts
  <2>7. ASSUME NEW j \in DOMAIN t PROVE Operation(e, t[j]).terminator <=> j = Len(t)
    <3>1. j \in 1..(Len(s) - 1) /\ t[j] = s[IF j < i THEN j ELSE j + 1]
      BY <1>10, <2>4 DEF OneLess
    <3>2. CASE j < i
      <4>1. j \in 1..Len(s) /\ j # Len(s) /\ j # Len(s) - 1 /\ t[j] = s[j]
        BY <2>3, <3>1, <3>2
      <4> QED BY <2>1, <2>4, <2>6, <4>1
    <3>3. CASE ~(j < i)
      <4>1. j + 1 \in 1..Len(s) /\ t[j] = s[j + 1] /\ (j + 1 = Len(s) <=> j = Len(s) - 1)
        BY <2>3, <3>1, <3>3
      <4> QED BY <2>1, <2>4, <2>6, <4>1
    <3> QED BY <3>2, <3>3
  <2>8. t # <<>>
    <3>1. Len(t) # 0
      BY <2>3, <2>4, SMTT(40)
    <3> QED BY <3>1
  <2> QED BY <2>7, <2>8
<1>20. ASSUME NEW p \in Operations(e)
       PROVE  LET op == Operation(e, p) IN
              /\ op.successors # {} => op.terminator
              /\ \A c \in op.successors : c \in Blocks(e) /\ Block(e, c).parent = Block(e, op.parent).parent
  <2> DEFINE a == Operation(m, p).parent
  <2>1. p \in Operations(m) /\ Operation(e, p).parent = a /\ Acts(m, e, p) /\ a \in Blocks(e)
    BY <1>4, OwnerOf
  <2>2. /\ Operation(m, p).successors # {} => Operation(m, p).terminator
        /\ \A c \in Operation(m, p).successors : c \in Blocks(m) /\ Block(m, c).parent = Block(m, a).parent
    BY <1>1, <2>1 DEF IsComplete
  <2>3. ASSUME NEW c \in Operation(m, p).successors
        PROVE  c \in Blocks(e) /\ Block(e, c).parent = Block(e, a).parent
    <3>1. a \in Blocks(m) /\ a \notin TreeBlocks(m, T)
      BY <1>6, <2>1
    <3>2. c \in Blocks(m) /\ c \notin TreeBlocks(m, T)
      BY <2>2, <3>1 DEF TreeBlocks
    <3> QED BY <1>6, <1>12, <2>1, <2>2, <3>2
  <2> QED BY <2>1, <2>2, <2>3 DEF Acts
<1>21. ASSUME NEW p \in Operations(e), NEW v \in Range(Operation(e, p).operands) PROVE Dominates(e, v, p)
  <2>1. p \in Operations(m) /\ v \in Range(Operation(m, p).operands)
    BY <1>4 DEF Acts
  <2>2. v \in Values(e)
    BY DEF Agrees, OperationsAgree, Range
  <2>3. Dominates(m, v, p)
    BY <1>1, <2>1 DEF IsComplete
  <2> QED BY <1>1, <1>5, <1>16, <2>1, <2>2, <2>3, DominationKept
<1>22. IsComplete(e)
  BY <1>17, <1>18, <1>19, <1>20, <1>21 DEF IsComplete, t
<1> QED BY <1>22 DEF Verified

-----------------------------------------------------------------------------
(* The editor keeps the module typed, in agreement with itself and grounded.  *)

TypeOK == budget \in Budgets /\ ir \in Modules(Types)

Inv == TypeOK /\ Agrees(ir) /\ Grounded(ir) /\ ListsRegionsOnce(ir)

LEMMA KnownHandles ==
    ASSUME NEW Data, NEW a \in Arenas(Data)
    PROVE  Known(a) \subseteq Handles
<1> SUFFICES ASSUME NEW h \in Known(a) PROVE h \in Handles
  OBVIOUS
<1>1. Len(a.slots) \in Nat /\ MaxGeneration \in Nat
  BY ArenaShape, GenerationAssumption
<1>2. h \in (1..Len(a.slots)) \X (0..MaxGeneration)
  BY DEF Known
<1>3. 1..Len(a.slots) \subseteq Nat /\ 0..MaxGeneration \subseteq Nat
  BY <1>1
<1> HIDE DEF Handles
<1> QED BY <1>2, <1>3 DEF Handles

LEMMA KnownToModule ==
    ASSUME NEW m \in Modules(Types)
    PROVE  /\ Known(m.regions) \subseteq Handles /\ Known(m.blocks) \subseteq Handles
           /\ Known(m.operations) \subseteq Handles /\ Known(m.values) \subseteq Handles
BY ModuleParts, KnownHandles

\* Functions from an initial segment are sequences.
ShortListsOf(S, n) == UNION {[1..k -> S] : k \in 0..n}

LEMMA ListsOf ==
    ASSUME NEW S, NEW T, S \subseteq T, NEW n \in Int
    PROVE  ShortListsOf(S, n) \subseteq Seq(T)
<1> SUFFICES ASSUME NEW k \in 0..n, NEW s \in [1..k -> S] PROVE s \in Seq(T)
  BY DEF ShortListsOf
<1>1. k \in Nat /\ s \in [1..k -> T]
  OBVIOUS
<1> QED BY <1>1

LEMMA BudgetTyped ==
    ASSUME TypeOK
    PROVE  /\ budget.operands \in Nat /\ budget.types \subseteq Types /\ budget.terminators \subseteq BOOLEAN
<1>1. budget \in Budgets
  BY DEF TypeOK
<1> QED BY <1>1, BudgetsAssumption DEF Types

LEMMA SpecsTyped ==
    ASSUME TypeOK, NEW Vs, Vs \subseteq Handles, NEW Bs, Bs \subseteq Handles
    PROVE  Specs(ir, Vs, Bs) \subseteq OperationSpecs
<1> SUFFICES ASSUME NEW spec \in Specs(ir, Vs, Bs) PROVE spec \in OperationSpecs
  OBVIOUS
<1>1. budget.operands \in Nat /\ budget.types \subseteq Types /\ budget.terminators \subseteq BOOLEAN
  BY BudgetTyped
<1>2. spec \in [operands : UNION {[1..n -> Vs] : n \in 0..budget.operands},
                results : UNION {[1..n -> budget.types] : n \in 0..1},
                successors : IF budget.branching THEN {{}} \cup {{b} : b \in Bs} ELSE {{}},
                terminator : budget.terminators]
  BY DEF Specs
<1>3. /\ spec = [operands |-> spec.operands, results |-> spec.results,
                 successors |-> spec.successors, terminator |-> spec.terminator]
      /\ spec.operands \in ShortListsOf(Vs, budget.operands)
      /\ spec.results \in ShortListsOf(budget.types, 1)
      /\ spec.successors \in IF budget.branching THEN {{}} \cup {{b} : b \in Bs} ELSE {{}}
      /\ spec.terminator \in budget.terminators
  BY <1>2 DEF ShortListsOf
<1>4. spec.operands \in Seq(Handles)
  BY <1>1, <1>3, ListsOf
<1>5. spec.results \in Seq(Types)
  BY <1>1, <1>3, ListsOf
<1>6. spec.successors \in SUBSET Handles
  BY <1>3
<1>7. spec.terminator \in BOOLEAN
  BY <1>1, <1>3
<1> QED BY <1>3, <1>4, <1>5, <1>6, <1>7 DEF OperationSpecs

LEMMA SpecUses ==
    ASSUME TypeOK, NEW Vs, NEW Bs, NEW spec \in Specs(ir, Vs, Bs)
    PROVE  Range(spec.operands) \subseteq Vs
<1>1. budget.operands \in Nat
  BY BudgetTyped
<1>2. spec.operands \in ShortListsOf(Vs, budget.operands)
  BY DEF Specs, ShortListsOf
<1>3. spec.operands \in Seq(Vs)
  BY <1>1, <1>2, ListsOf
<1> QED BY <1>3 DEF Range

LEMMA Attaching ==
    ASSUME NEW m \in Modules(Types), Agrees(m), Grounded(m), ListsRegionsOnce(m),
           NEW attached \in SUBSET Operations(m)
    PROVE  LET n == [m EXCEPT !.attached = attached]
           IN  n \in Modules(Types) /\ Agrees(n) /\ Grounded(n) /\ ListsRegionsOnce(n)
<1> DEFINE n == [m EXCEPT !.attached = attached]
<1>0. attached \in SUBSET Handles
  BY ModuleHandles
<1>1. n \in Modules(Types) /\ n.regions = m.regions /\ n.blocks = m.blocks
      /\ n.operations = m.operations /\ n.values = m.values /\ n.attached = attached
  BY <1>0, ModuleParts DEF Modules
<1> HIDE DEF n
<1>2. /\ Regions(n) = Regions(m) /\ Blocks(n) = Blocks(m)
      /\ Operations(n) = Operations(m) /\ Values(n) = Values(m)
      /\ \A r : Region(n, r) = Region(m, r)
      /\ \A b : Block(n, b) = Block(m, b)
      /\ \A o : Operation(n, o) = Operation(m, o)
      /\ \A v : Value(n, v) = Value(m, v)
  BY <1>1 DEF Regions, Blocks, Operations, Values, Region, Block, Operation, Value
<1>3. RegionsAgree(n)
  BY <1>2 DEF Agrees, RegionsAgree
<1>4. BlocksAgree(n)
  BY <1>2 DEF Agrees, BlocksAgree
<1>5. Owned(m) /\ UsesAgree(m, AllUses(m))
  BY AgreementSplits
<1>6. PlacesAgree(n)
  BY <1>2, <1>5 DEF Owned, PlacesAgree
<1>7. DefinitionsAgree(n)
  <2> SUFFICES ASSUME NEW v \in Values(m) PROVE DefinitionAgrees(n, v)
    BY <1>2 DEF DefinitionsAgree
  <2>1. DefinitionAgrees(m, v)
    BY <1>5 DEF Owned, DefinitionsAgree
  <2>2. Value(m, v).definition.kind \in {"argument", "result"}
    BY ValueFields DEF Definitions
  <2>3. /\ Blocks(n) = Blocks(m) /\ Operations(n) = Operations(m)
        /\ Value(n, v).definition = Value(m, v).definition
        /\ \A b : Block(n, b).arguments = Block(m, b).arguments
        /\ \A o : Operation(n, o).results = Operation(m, o).results
    BY <1>2
  <2> QED BY <2>1, <2>2, <2>3 DEF DefinitionAgrees
<1>8. UsesAgree(n, AllUses(n))
  <2>1. AllUses(n) = AllUses(m)
    BY <1>2 DEF AllUses, HasOperand
  <2>2. /\ \A u : /\ HasOperand(n, u) <=> HasOperand(m, u)
                  /\ OperandAt(n, u) = OperandAt(m, u) /\ LinkAt(n, u) = LinkAt(m, u)
        /\ \A v : UsesOf(n, v) = UsesOf(m, v)
    BY <1>2 DEF HasOperand, OperandAt, LinkAt, UsesOf
  <2> QED BY <1>2, <1>5, <2>1, <2>2 DEF UsesAgree
<1>9. Agrees(n)
  BY <1>1, <1>3, <1>4, <1>6, <1>7, <1>8, AgreementSplits DEF Owned
<1>10. Grounded(n)
  <2>1. \A o : Owner(n, o) = Owner(m, o)
    BY <1>2 DEF Owner
  <2> QED BY <1>1, <1>2, <2>1 DEF Grounded, Rooted
<1>11. ListsRegionsOnce(n)
  BY <1>2 DEF ListsRegionsOnce
<1> QED BY <1>1, <1>9, <1>10, <1>11 DEF n

LEMMA Starting == Init => Inv
<1> SUFFICES ASSUME Init PROVE Inv
  OBVIOUS
<1>1. budget \in Budgets /\ ir \in Modules(Types) /\ Agrees(ir) /\ LeaksNothing(ir) /\ ListsRegionsOnce(ir)
  BY StartAssumption DEF Init
<1> QED BY <1>1, GroundedMeans DEF Inv, TypeOK

LEMMA Stepping == Inv /\ [Next]_<<ir, budget>> => Inv'
<1> SUFFICES ASSUME Inv, [Next]_<<ir, budget>> PROVE Inv'
  OBVIOUS
<1>1. TypeOK /\ ir \in Modules(Types) /\ budget \in Budgets /\ Agrees(ir) /\ Grounded(ir) /\ ListsRegionsOnce(ir)
  BY DEF Inv, TypeOK
<1>2. /\ Known(ir.regions) \subseteq Handles /\ Known(ir.blocks) \subseteq Handles
      /\ Known(ir.operations) \subseteq Handles /\ Known(ir.values) \subseteq Handles
  BY <1>1, KnownToModule
<1>3. ASSUME NEW n \in Modules(Types), Agrees(n), Enlarges(ir, n) \/ Reduces(ir, n)
      PROVE  Grounded(n) /\ ListsRegionsOnce(n)
  <2>1. Grounded(n)
    BY <1>1, <1>3, EnlargedIsGrounded, ReducedIsGrounded
  <2>2. ListsRegionsOnce(n)
    BY <1>1, <1>3 DEF Enlarges, Reduces
  <2> QED BY <2>1, <2>2
<1>4. CASE UNCHANGED <<ir, budget>>
  BY <1>4 DEF Inv, TypeOK, Grounded, Rooted, Owner, ListsRegionsOnce
<1>5. ASSUME Step, budget' = budget 
      PROVE  ir' \in Modules(Types) /\ Agrees(ir') /\ Grounded(ir') /\ ListsRegionsOnce(ir')
  <2>1. CASE Append_
    <3>1. PICK b \in Known(ir.blocks), spec \in Specs(ir, Known(ir.values), Known(ir.blocks)) :
             ir' = AppendOperation(ir, b, spec).ir
      BY <2>1 DEF Append_
    <3>2. b \in Handles /\ spec \in OperationSpecs
      BY <1>1, <1>2, <3>1, SpecsTyped
    <3>4. ir' \in Modules(Types) /\ Agrees(ir') /\ Enlarges(ir, ir')
      BY <1>1, <3>1, <3>2, Appending
    <3> QED BY <1>3, <3>4
  <2>2. CASE Insert
    <3>1. PICK o \in Known(ir.operations), spec \in Specs(ir, Known(ir.values), Known(ir.blocks)) :
             ir' = InsertOperationBefore(ir, o, spec).ir
      BY <2>2 DEF Insert
    <3>2. o \in Handles /\ spec \in OperationSpecs
      BY <1>1, <1>2, <3>1, SpecsTyped
    <3>4. ir' \in Modules(Types) /\ Agrees(ir') /\ Enlarges(ir, ir')
      BY <1>1, <3>1, <3>2, InsertingBefore
    <3> QED BY <1>3, <3>4
  <2>3. CASE NestRegion
    <3>1. PICK o \in Known(ir.operations) : ir' = AddRegion(ir, o).ir
      BY <2>3 DEF NestRegion
    <3>4. ir' \in Modules(Types) /\ Agrees(ir') /\ Enlarges(ir, ir')
      BY <1>1, <1>2, <3>1, AddingRegion
    <3> QED BY <1>3, <3>4
  <2>4. CASE NestBlock
    <3>1. PICK r \in Known(ir.regions), types \in UNION {[1..n -> budget.types] : n \in 0..1} :
             ir' = AppendBlock(ir, r, types).ir
      BY <2>4 DEF NestBlock
    <3>2. types \in ShortListsOf(budget.types, 1) /\ budget.types \subseteq Types
      BY <1>1, <3>1, BudgetTyped DEF ShortListsOf
    <3>3. r \in Handles /\ types \in Seq(Types)
      BY <1>2, <3>1, <3>2, ListsOf
    <3>4. ir' \in Modules(Types) /\ Agrees(ir') /\ Enlarges(ir, ir')
      BY <1>1, <3>1, <3>3, AppendingBlock
    <3> QED BY <1>3, <3>4
  <2>5. CASE Redirect
    <3>1. PICK o \in Known(ir.operations), i \in 1..budget.operands, v \in Known(ir.values) :
             ir' = ReplaceOperand(ir, o, i, v).ir
      BY <2>5 DEF Redirect
    <3>2. o \in Handles /\ v \in Handles /\ i \in Nat
      BY <1>1, <1>2, <3>1, BudgetTyped
    <3>4. ir' \in Modules(Types) /\ Agrees(ir') /\ Enlarges(ir, ir')
      BY <1>1, <3>1, <3>2, Replacing, ShapeEnlarges
    <3> QED BY <1>3, <3>4
  <2>6. CASE RedirectAll
    <3>1. PICK v \in Known(ir.values), w \in Known(ir.values) : ir' = ReplaceAllUses(ir, v, w).ir
      BY <2>6 DEF RedirectAll
    <3>4. ir' \in Modules(Types) /\ Agrees(ir') /\ Enlarges(ir, ir')
      BY <1>1, <1>2, <3>1, ReplacingAll, ShapeEnlarges
    <3> QED BY <1>3, <3>4
  <2>7. CASE Erase
    <3>1. PICK o \in Known(ir.operations) : ir' = EraseOperation(ir, o).ir
      BY <2>7 DEF Erase
    <3>4. ir' \in Modules(Types) /\ Agrees(ir') /\ Reduces(ir, ir')
      BY <1>1, <1>2, <3>1, Erasing
    <3> QED BY <1>3, <3>4
  <2>8. CASE Attach
    <3>1. PICK o \in Operations(ir) : ir' = [ir EXCEPT !.attached = ir.attached \cup {o}]
      BY <2>8 DEF Attach
    <3>2. ir.attached \cup {o} \in SUBSET Operations(ir)
      BY <1>1, <3>1 DEF Grounded
    <3> QED BY <1>1, <3>1, <3>2, Attaching
  <2>9. CASE Detach
    <3>1. PICK o \in Operations(ir) : ir' = [ir EXCEPT !.attached = ir.attached \ {o}]
      BY <2>9 DEF Detach
    <3>2. ir.attached \ {o} \in SUBSET Operations(ir)
      BY <1>1 DEF Grounded
    <3> QED BY <1>1, <3>1, <3>2, Attaching
  <2> QED BY <1>5, <2>1, <2>2, <2>3, <2>4, <2>5, <2>6, <2>7, <2>8, <2>9 DEF Step
<1> QED BY <1>1, <1>4, <1>5 DEF Inv, TypeOK, Next

LEMMA Invariance == Spec => []Inv
BY Starting, Stepping, PTL DEF Spec

\* What a module contains stays what the structures of ir/model allow, through
\* every chain of edits from any module that edits have made.
THEOREM TypeCorrect == Spec => [](budget \in Budgets /\ ir \in Modules(Types))
<1>1. Inv => budget \in Budgets /\ ir \in Modules(Types)
  BY DEF Inv, TypeOK
<1> QED BY <1>1, Invariance, PTL

\* However edits are chained, and whatever stale handles they are given, ownership
\* is stored alike in both directions, every definition names its value back, and
\* the use lists hold exactly the operands there are, each at its link: what
\* erase_operation and replace_all_uses rely on when they take a module apart.
THEOREM AgreementIsKept == Spec => []EditsKeepAgreement
<1>1. Inv => EditsKeepAgreement
  BY DEF Inv, EditsKeepAgreement
<1> QED BY <1>1, Invariance, PTL

\* However operations are nested, moved apart and erased, each can be reached from the
\* root region by ownership, so an erase of what is around it finds it, and nothing
\* stays attached to an operation that is gone.
THEOREM NothingIsLost == Spec => []NothingLeaks
<1>1. Inv => NothingLeaks
  BY GroundedMeans DEF Inv, TypeOK, NothingLeaks
<1> QED BY <1>1, Invariance, PTL

\* An erase that is refused and a replacement of all uses that stops half-way leave
\* the module as it was, and what erase relies on once its plan is accepted holds:
\* it never panics with half of the tree unlinked.
THEOREM RefusalsChangeNothing == Spec => []RefusedEditsChangeNothing
<1>1. ASSUME Inv PROVE RefusedEditsChangeNothing
  <2>1. ir \in Modules(Types) /\ Agrees(ir)
    BY <1>1 DEF Inv, TypeOK
  <2>2. Known(ir.operations) \subseteq Handles /\ Known(ir.values) \subseteq Handles
    BY <2>1, KnownToModule
  <2>3. ASSUME NEW o \in Known(ir.operations)
        PROVE  EraseOperation(ir, o).answer # "panic"
               /\ (EraseOperation(ir, o).answer # "ok" => EraseOperation(ir, o).ir = ir)
    BY <2>1, <2>2, Erasing
  <2>4. ASSUME NEW v \in Known(ir.values), NEW w \in Known(ir.values)
        PROVE  ReplaceAllUses(ir, v, w).answer # "ok" => ReplaceAllUses(ir, v, w).ir = ir
    BY <2>1, <2>2, ReplacingAll
  <2> QED BY <2>3, <2>4 DEF RefusedEditsChangeNothing
<1> QED BY <1>1, Invariance, PTL

\* Erasing, replacing one operand and replacing all uses of a value bump the
\* revision when and only when they leave another module, so whoever compares
\* revisions neither keeps an analysis of a module that is gone nor drops a good one.
THEOREM RevisionsTell == Spec => []RevisionTellsOfChange
<1>1. ASSUME Inv PROVE RevisionTellsOfChange
  <2>1. TypeOK /\ ir \in Modules(Types) /\ Agrees(ir)
    BY <1>1 DEF Inv, TypeOK
  <2>2. Known(ir.operations) \subseteq Handles /\ Known(ir.values) \subseteq Handles
    BY <2>1, KnownToModule
  <2>3. ASSUME NEW o \in Known(ir.operations)
        PROVE  EraseOperation(ir, o).bumps > 0 <=> EraseOperation(ir, o).ir # ir
    BY <2>1, <2>2, Erasing
  <2>4. ASSUME NEW o \in Known(ir.operations), NEW i \in 1..budget.operands, NEW v \in Known(ir.values)
        PROVE  ReplaceOperand(ir, o, i, v).bumps > 0 <=> ReplaceOperand(ir, o, i, v).ir # ir
    <3> DEFINE e == ReplaceOperand(ir, o, i, v)
    <3>1. o \in Handles /\ v \in Handles /\ i \in Nat
      BY <2>1, <2>2, BudgetTyped
    <3>2. e.bumps \in {0, 1} /\ (e.bumps = 1 <=> e.ir # ir)
      BY <2>1, <3>1, Replacing
    <3> HIDE DEF e
    <3>3. e.bumps > 0 <=> e.bumps = 1
      BY <3>2
    <3> QED BY <3>2, <3>3 DEF e
  <2>5. ASSUME NEW v \in Known(ir.values), NEW w \in Known(ir.values)
        PROVE  ReplaceAllUses(ir, v, w).bumps > 0 <=> ReplaceAllUses(ir, v, w).ir # ir
    BY <2>1, <2>2, ReplacingAll
  <2> QED BY <2>3, <2>4, <2>5 DEF RevisionTellsOfChange
<1> QED BY <1>1, Invariance, PTL

\* The preflight of erase_operation is exact: it never takes a tree apart whose
\* values are used outside, and it refuses no other, because what it checks
\* besides holds of every module the editor made.
THEOREM ErasingIsExact == Spec => []ErasesWhatNobodyUses
<1>1. Inv => ErasesWhatNobodyUses
  <2> SUFFICES ASSUME Inv, NEW o \in Operations(ir)
               PROVE  LET inside == {p \in Operations(ir) : o \in Enclosing(ir, p)}
                          defined == {v \in Values(ir) :
                                        LET d == Value(ir, v).definition IN
                                        IF d.kind = "result" THEN d.owner \in inside
                                        ELSE Region(ir, Block(ir, d.owner).parent).parent \in inside}
                          free == \A p \in Operations(ir) \ inside :
                                     Range(Operation(ir, p).operands) \cap defined = {}
                          e == EraseOperation(ir, o)
                      IN  /\ e.answer = IF free THEN "ok" ELSE "ValueStillUsed"
                          /\ free => /\ Operations(e.ir) = Operations(ir) \ inside
                                     /\ Values(e.ir) = Values(ir) \ defined
    BY DEF ErasesWhatNobodyUses
  <2> DEFINE inside == {p \in Operations(ir) : o \in Enclosing(ir, p)}
             defined == {v \in Values(ir) :
                           LET d == Value(ir, v).definition IN
                           IF d.kind = "result" THEN d.owner \in inside
                           ELSE Region(ir, Block(ir, d.owner).parent).parent \in inside}
             free == \A p \in Operations(ir) \ inside : Range(Operation(ir, p).operands) \cap defined = {}
             e == EraseOperation(ir, o)
  <2>1. ir \in Modules(Types) /\ Agrees(ir) /\ Rooted(ir) /\ ListsRegionsOnce(ir)
    BY DEF Inv, TypeOK, Grounded
  <2>2. \A v \in Values(ir) : DefinedIn(ir, inside, v) <=> Keeper(ir, v) \in inside
    BY <2>1, KeptInTree
  <2>3. defined = TreeValues(ir, inside)
    <3> HIDE DEF inside
    <3>1. defined = {v \in Values(ir) : Keeper(ir, v) \in inside}
      BY DEF Keeper
    <3> QED BY <2>2, <3>1 DEF TreeValues
  <2> HIDE DEF defined
  <2>4. /\ e.answer = IF free THEN "ok" ELSE "ValueStillUsed"
        /\ free => Operations(e.ir) = Operations(ir) \ inside /\ Values(e.ir) = Values(ir) \ defined
    BY <2>1, <2>3, ErasingTree
  <2> QED BY <2>4 DEF defined
<1> QED BY <1>1, Invariance, PTL

\* verify_module is sound: when it accepts a module, each operand is an argument
\* of a block around the operation, or a result of what ran before it there.
THEOREM VerifiedIsSound == Spec => []VerifiedUsesAreInScope
<1>1. Inv => VerifiedUsesAreInScope
  BY VerifiedIsInScope DEF Inv, TypeOK, Grounded, VerifiedUsesAreInScope
<1> QED BY <1>1, Invariance, PTL

\* The rewrites a pass is made of keep verify_module content: an operation put before one
\* that its operands are in scope at, a value replaced by one that is in scope at
\* each of its uses, and an operation erased that nobody uses and that ends no block.
THEOREM RewritesAreSafe == Spec => []RewritesKeepVerified
<1>1. Inv => RewritesKeepVerified
  <2> SUFFICES ASSUME Inv, Verified(ir) PROVE RewritesKeepVerified
    BY DEF RewritesKeepVerified
  <2>1. TypeOK /\ ir \in Modules(Types) /\ Agrees(ir)
    BY DEF Inv, TypeOK
  <2>2. Operations(ir) \subseteq Handles /\ Values(ir) \subseteq Handles
    BY <2>1, ModuleHandles
  <2>3. ASSUME NEW o \in Operations(ir), NEW spec \in Specs(ir, Scope(ir)[o], {}),
               spec.successors = {}, ~spec.terminator
        PROVE  Verified(InsertOperationBefore(ir, o, spec).ir)
    <3> DEFINE e == InsertOperationBefore(ir, o, spec)
               p == NextHandle(ir.operations)
    <3>1. Scope(ir)[o] \subseteq Handles
      BY <2>1, <2>2, InScopeDominates
    <3>2. spec \in OperationSpecs /\ Range(spec.operands) \subseteq Scope(ir)[o]
      BY <2>1, <3>1, SpecsTyped, SpecUses
    <3>3. o \in Handles
      BY <2>2
    <3>4. /\ e.ir \in Modules(Types) /\ Agrees(e.ir) /\ Enlarges(ir, e.ir)
          /\ e.answer # "ok" => e.ir = ir
          /\ e.answer = "ok" => PutBefore(ir, e.ir, o, p, spec)
      BY <2>1, <3>2, <3>3, InsertingBefore
    <3>5. p \in Handles
      BY <2>1, <3>2, <3>3, ShellInserted
    <3>6. spec.terminator = FALSE
      BY <2>3, <3>2 DEF OperationSpecs
    <3> HIDE DEF e, p
    <3>7. CASE e.answer # "ok"
      BY <3>4, <3>7 DEF e
    <3>8. CASE e.answer = "ok"
      <4>1. Verified(e.ir)
        BY <2>1, <2>3, <3>2, <3>4, <3>5, <3>6, <3>8, InsertedIsVerified
      <4> QED BY <4>1 DEF e
    <3> QED BY <3>7, <3>8
  <2>4. ASSUME NEW v \in Values(ir), NEW w \in Values(ir),
               \A o \in Operations(ir) : v \in Range(Operation(ir, o).operands) => w \in Scope(ir)[o]
        PROVE  Verified(ReplaceAllUses(ir, v, w).ir)
    <3> DEFINE n == ReplaceAllUses(ir, v, w).ir
    <3>1. n \in Modules(Types) /\ Agrees(n) /\ SameShape(ir, n) /\ Redirected(ir, n, v, w)
      BY <2>1, <2>2, ReplacingAll
    <3> HIDE DEF n
    <3>2. Verified(n)
      BY <2>1, <2>4, <3>1, ReplacedIsVerified
    <3> QED BY <3>2 DEF n
  <2>5. ASSUME NEW o \in Operations(ir), EraseOperation(ir, o).answer = "ok", ~Operation(ir, o).terminator
        PROVE  Verified(EraseOperation(ir, o).ir)
    <3> DEFINE e == EraseOperation(ir, o).ir
    <3>1. e \in Modules(Types) /\ Agrees(e) /\ Reduces(ir, e) /\ \E T : Cuts(ir, e, o, T)
      BY <2>1, <2>2, <2>5, Erasing
    <3> HIDE DEF e
    <3>2. Operation(ir, o).terminator = FALSE
      BY <2>1, <2>5, OperationFields
    <3>3. Verified(e)
      BY <2>1, <3>1, <3>2, ErasedIsVerified
    <3> QED BY <3>3 DEF e
  <2> QED BY <2>3, <2>4, <2>5 DEF RewritesKeepVerified
<1> QED BY <1>1, Invariance, PTL

=============================================================================
