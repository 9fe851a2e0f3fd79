----------------------------- MODULE ArenaProofs -----------------------------
(***************************************************************************)
(* The arena keeps its promise for every number of slots and generations.   *)
(* The inductive invariant says where a handle can come from: a vacant slot *)
(* on the free stack carries a generation that was never given out, and no  *)
(* handle given out is ahead of its slot.                                   *)
(***************************************************************************)
EXTENDS ArenaMachine, SequenceTheorems, TLAPS

\* A slot is on the free stack at most once.
FreeOnce == \A i, j \in 1..Len(free) : free[i] = free[j] => i = j

\* What the free stack offers is vacant and its next handle is new.
FreeIsNew ==
    \A i \in 1..Len(free) :
       /\ free[i] \in 1..Len(slots)
       /\ slots[free[i]].value = Nothing
       /\ <<free[i], slots[free[i]].generation>> \notin issued

\* Handles belong to slots and are never ahead of them.
IssuedBehind ==
    \A h \in issued : h[1] \in 1..Len(slots) /\ h[2] <= slots[h[1]].generation

\* What lives has been given out.
LiveIssued ==
    \A s \in 1..Len(slots) :
       slots[s].value # Nothing => <<s, slots[s].generation>> \in issued

\* What is vacant waits on the stack or has used its last generation.
VacantFreeOrRetired ==
    \A s \in 1..Len(slots) :
       slots[s].value = Nothing =>
          (\E i \in 1..Len(free) : free[i] = s) \/ <<s, MaxGeneration>> \in issued

AInv ==
    /\ TypeOK
    /\ FreeOnce
    /\ FreeIsNew
    /\ IssuedBehind
    /\ LiveIssued
    /\ VacantFreeOrRetired

-----------------------------------------------------------------------------
\* The slots after slot s became x.
Replaced(s, x) ==
    /\ Len(slots') = Len(slots)
    /\ slots' \in Seq(Slot)
    /\ slots'[s] = x
    /\ \A t \in 1..Len(slots) \ {s} : slots'[t] = slots[t]

LEMMA ReplaceSlot ==
  ASSUME TypeOK, NEW s \in 1..Len(slots), NEW x \in Slot, slots' = [slots EXCEPT ![s] = x]
  PROVE  Replaced(s, x)
  <1>1. slots \in Seq(Slot)
    BY DEF TypeOK
  <1>2. Len(slots) \in Nat
    BY <1>1, LenProperties
  <1> QED
    BY <1>1, <1>2, ExceptSeq DEF Replaced

\* A slot's fields, and the slot with another value.
LEMMA SlotFields ==
  ASSUME TypeOK, NEW s \in 1..Len(slots)
  PROVE  /\ slots[s].generation \in 0..MaxGeneration
         /\ \A v \in Payloads \cup {Nothing} :
               LET x == [generation |-> slots[s].generation, value |-> v] IN
               /\ x \in Slot
               /\ [slots[s] EXCEPT !.value = v] = x
  <1>1. slots[s] \in Slot
    BY LenProperties DEF TypeOK
  <1> QED
    BY <1>1 DEF Slot

LEMMA Lengths ==
  ASSUME TypeOK
  PROVE  /\ Len(slots) \in Nat /\ DOMAIN slots = 1..Len(slots)
         /\ Len(free) \in Nat /\ DOMAIN free = 1..Len(free)
         /\ \A i \in 1..Len(free) : free[i] \in 1..MaxSlots
         /\ \A h \in issued : h \in Handles /\ h = <<h[1], h[2]>> /\ h[1] \in Nat /\ h[2] \in Nat
  <1>1. /\ Len(slots) \in Nat /\ DOMAIN slots = 1..Len(slots)
        /\ Len(free) \in Nat /\ DOMAIN free = 1..Len(free)
        /\ \A i \in 1..Len(free) : free[i] \in 1..MaxSlots
    BY LenProperties DEF TypeOK
  <1>2. \A h \in Handles : h = <<h[1], h[2]>> /\ h[1] \in Nat /\ h[2] \in Nat
    BY SlotAssumption, GenerationAssumption DEF Handles
  <1>3. issued \subseteq Handles
    BY DEF TypeOK
  <1> QED
    BY <1>1, <1>2, <1>3

\* Inserting takes the slot freed last, whose handle is new ...
LEMMA InsertReusing ==
  ASSUME AInv, NEW p \in Payloads, Insert(p), free # <<>>
  PROVE  LET n == Len(free)
             s == free[n]
             g == slots[s].generation
         IN  /\ n \in 1..n /\ s \in 1..Len(slots)
             /\ g \in 0..MaxGeneration
             /\ slots[s].value = Nothing
             /\ NextHandle(arena) = <<s, g>>
             /\ <<s, g>> \in Handles \ issued
             /\ issued' = issued \cup {<<s, g>>}
             /\ Replaced(s, [generation |-> g, value |-> p])
             /\ free' \in Seq(1..MaxSlots) /\ Len(free') = n - 1
             /\ \A i \in 1..(n - 1) : free'[i] = free[i]
  <1> DEFINE n == Len(free)
             s == free[n]
             g == slots[s].generation
  <1>1. TypeOK
    BY DEF AInv
  <1>2. n \in Nat \ {0}
    BY <1>1, EmptySeq DEF TypeOK
  <1>3. /\ s \in 1..Len(slots) /\ slots[s].value = Nothing /\ <<s, g>> \notin issued
        /\ s \in 1..MaxSlots
    BY <1>1, <1>2, Lengths DEF AInv, FreeIsNew
  <1>4. /\ g \in 0..MaxGeneration
        /\ [generation |-> g, value |-> p] \in Slot
        /\ [slots[s] EXCEPT !.value = p] = [generation |-> g, value |-> p]
    BY <1>1, <1>3, SlotFields
  <1>5. /\ slots' = [slots EXCEPT ![s] = [slots[s] EXCEPT !.value = p]]
        /\ free' = SubSeq(free, 1, n - 1)
        /\ issued' = issued \cup {<<s, g>>}
        /\ NextHandle(arena) = <<s, g>>
    BY DEF Insert, InsertInto, Become, arena, NextHandle, Handle
  <1>6. Replaced(s, [generation |-> g, value |-> p])
    BY <1>1, <1>3, <1>4, <1>5, ReplaceSlot
  <1>7. \A i \in 1..(n - 1) : free[i] \in 1..MaxSlots
    BY <1>1, <1>2, Lengths
  <1>8. free' \in Seq(1..MaxSlots) /\ Len(free') = n - 1
    <2>1. n - 1 \in Int /\ 1 \in Int
      BY <1>2
    <2>2. /\ SubSeq(free, 1, n - 1) \in Seq(1..MaxSlots)
          /\ Len(SubSeq(free, 1, n - 1)) = IF 1 <= n - 1 THEN (n - 1) - 1 + 1 ELSE 0
      BY <1>7, <2>1, SubSeqProperties
    <2>3. (IF 1 <= n - 1 THEN (n - 1) - 1 + 1 ELSE 0) = n - 1
      BY <1>2
    <2>4. free' = SubSeq(free, 1, n - 1)
      BY <1>5
    <2> HIDE DEF n
    <2> QED
      BY <2>2, <2>3, <2>4
  <1>9. \A i \in 1..(n - 1) : free'[i] = free[i]
    BY <1>2, <1>5, <1>7, SubSeqProperties
  <1> QED
    BY <1>2, <1>3, <1>4, <1>5, <1>6, <1>8, <1>9 DEF Handles

\* ... or a slot that did not exist.
LEMMA InsertGrowing ==
  ASSUME AInv, NEW p \in Payloads, Insert(p), free = <<>>
  PROVE  LET n == Len(slots) + 1 IN
         /\ n \in 1..MaxSlots
         /\ NextHandle(arena) = <<n, 0>>
         /\ <<n, 0>> \in Handles \ issued
         /\ issued' = issued \cup {<<n, 0>>}
         /\ slots' \in Seq(Slot) /\ Len(slots') = n
         /\ slots'[n] = [generation |-> 0, value |-> p]
         /\ \A t \in 1..Len(slots) : slots'[t] = slots[t]
         /\ free' = free
  <1> DEFINE n == Len(slots) + 1
             x == [generation |-> 0, value |-> p]
  <1>1. TypeOK /\ Len(slots) \in Nat /\ Len(slots) < MaxSlots
    BY Lengths DEF AInv, Insert
  <1>2. /\ slots' = Append(slots, x)
        /\ free' = free
        /\ issued' = issued \cup {<<n, 0>>}
        /\ NextHandle(arena) = <<n, 0>>
    BY DEF Insert, InsertInto, Become, arena, NextHandle, Handle
  <1>3. x \in Slot
    BY GenerationAssumption DEF Slot
  <1>4. /\ slots' \in Seq(Slot) /\ Len(slots') = n
        /\ slots'[n] = x
        /\ \A t \in 1..Len(slots) : slots'[t] = slots[t]
    BY <1>1, <1>2, <1>3, AppendProperties DEF TypeOK
  <1>5. <<n, 0>> \notin issued
    BY <1>1 DEF AInv, IssuedBehind
  <1>6. n \in 1..MaxSlots /\ <<n, 0>> \in Handles
    BY <1>1, SlotAssumption, GenerationAssumption DEF Handles
  <1> QED
    BY <1>2, <1>4, <1>5, <1>6

\* A live handle's removal empties its slot, which is offered again under the
\* next generation or retired.
LEMMA RemoveLive ==
  ASSUME AInv, NEW h \in issued, Remove(h), Resolves(arena, h)
  PROVE  LET s == h[1]
             g == h[2]
             x == [generation |-> IF g < MaxGeneration THEN g + 1 ELSE g, value |-> Nothing]
         IN  /\ s \in 1..Len(slots) /\ s \in 1..MaxSlots
             /\ g \in 0..MaxGeneration /\ h = <<s, g>>
             /\ slots[s].generation = g /\ slots[s].value # Nothing
             /\ issued' = issued
             /\ Replaced(s, x)
             /\ IF g < MaxGeneration
                THEN /\ free' \in Seq(1..MaxSlots) /\ Len(free') = Len(free) + 1
                     /\ free'[Len(free) + 1] = s
                     /\ \A i \in 1..Len(free) : free'[i] = free[i]
                ELSE free' = free
  <1> DEFINE s == h[1]
             g == h[2]
             x == [generation |-> IF g < MaxGeneration THEN g + 1 ELSE g, value |-> Nothing]
  <1>1. TypeOK
    BY DEF AInv
  <1>2. /\ s \in 1..Len(slots) /\ slots[s].generation = g /\ slots[s].value # Nothing
        /\ h = <<s, g>> /\ s \in 1..MaxSlots /\ g \in 0..MaxGeneration
        /\ issued' = issued
    BY <1>1, Lengths DEF Resolves, arena, Remove, Handles
  <1>3. CASE g < MaxGeneration
    <2>1. slots' = [slots EXCEPT ![s] = x] /\ free' = Append(free, s)
      BY <1>3 DEF Remove, RemoveFrom, Become, arena
    <2>2. x \in Slot
      BY <1>2, <1>3, GenerationAssumption DEF Slot
    <2>3. Replaced(s, x)
      BY <1>1, <1>2, <2>1, <2>2, ReplaceSlot
    <2>4. /\ free' \in Seq(1..MaxSlots) /\ Len(free') = Len(free) + 1
          /\ free'[Len(free) + 1] = s
          /\ \A i \in 1..Len(free) : free'[i] = free[i]
      BY <1>1, <1>2, <2>1, AppendProperties DEF TypeOK
    <2> QED
      BY <1>2, <1>3, <2>3, <2>4
  <1>4. CASE ~(g < MaxGeneration)
    <2>1. slots' = [slots EXCEPT ![s] = [slots[s] EXCEPT !.value = Nothing]] /\ free' = free
      BY <1>4 DEF Remove, RemoveFrom, Become, arena
    <2>2. x \in Slot /\ [slots[s] EXCEPT !.value = Nothing] = x
      BY <1>1, <1>2, <1>4, SlotFields
    <2>3. Replaced(s, x)
      BY <1>1, <1>2, <2>1, <2>2, ReplaceSlot
    <2> QED
      BY <1>2, <1>4, <2>1, <2>3
  <1> QED
    BY <1>3, <1>4

\* Changing an entity in place.
LEMMA UpdateLive ==
  ASSUME AInv, NEW h \in issued, NEW p \in Payloads, Update(h, p)
  PROVE  /\ h[1] \in 1..Len(slots) /\ h = <<h[1], h[2]>>
         /\ slots[h[1]].generation = h[2] /\ slots[h[1]].value # Nothing
         /\ Replaced(h[1], [generation |-> h[2], value |-> p])
         /\ UNCHANGED <<free, issued>>
  <1>1. TypeOK
    BY DEF AInv
  <1>2. /\ h[1] \in 1..Len(slots) /\ slots[h[1]].generation = h[2]
        /\ slots[h[1]].value # Nothing /\ h = <<h[1], h[2]>>
    BY <1>1, Lengths DEF Update, Resolves, arena
  <1>3. /\ slots' = [slots EXCEPT ![h[1]] = [slots[h[1]] EXCEPT !.value = p]]
        /\ free' = free /\ issued' = issued
    BY DEF Update, Store, Become, arena
  <1>4. /\ [generation |-> h[2], value |-> p] \in Slot
        /\ [slots[h[1]] EXCEPT !.value = p] = [generation |-> h[2], value |-> p]
    BY <1>1, <1>2, SlotFields
  <1>5. Replaced(h[1], [generation |-> h[2], value |-> p])
    BY <1>1, <1>2, <1>3, <1>4, ReplaceSlot
  <1> QED
    BY <1>2, <1>3, <1>5

-----------------------------------------------------------------------------
\* The empty arena satisfies the invariant.
LEMMA ArenaInit == Init => AInv
  <1>1. <<>> \in Seq(Slot) /\ <<>> \in Seq(1..MaxSlots) /\ Len(<<>>) = 0
    BY EmptySeq
  <1> QED
    BY <1>1, SlotAssumption
    DEF Init, AInv, TypeOK, EmptyArena, FreeOnce, FreeIsNew, IssuedBehind, LiveIssued,
        VacantFreeOrRetired

LEMMA InsertKeeps ==
  ASSUME AInv, NEW p \in Payloads, Insert(p)
  PROVE  AInv'
  <1>0. TypeOK /\ Len(free) \in Nat /\ Len(slots) \in Nat
    BY Lengths DEF AInv
  <1>1. CASE free # <<>>
    <2> DEFINE n == Len(free)
               s == free[n]
               g == slots[s].generation
    <2>1. /\ n \in 1..n /\ s \in 1..Len(slots)
          /\ slots[s].value = Nothing
          /\ <<s, g>> \in Handles \ issued
          /\ issued' = issued \cup {<<s, g>>}
          /\ Len(slots') = Len(slots) /\ slots' \in Seq(Slot)
          /\ slots'[s] = [generation |-> g, value |-> p]
          /\ \A t \in 1..Len(slots) \ {s} : slots'[t] = slots[t]
          /\ free' \in Seq(1..MaxSlots) /\ Len(free') = n - 1
          /\ \A i \in 1..(n - 1) : free'[i] = free[i]
      BY <1>1, InsertReusing DEF Replaced
    <2>2. \A i \in 1..(n - 1) : free[i] # s
      <3>1. \A i, j \in 1..n : free[i] = free[j] => i = j
        BY DEF AInv, FreeOnce
      <3>2. n \in Nat /\ n \in 1..n /\ s = free[n]
        BY <1>0, <2>1
      <3> HIDE DEF n, s
      <3> QED
        BY <3>1, <3>2
    <2>9. \A i \in 1..n : /\ free[i] \in 1..Len(slots)
                          /\ slots[free[i]].value = Nothing
                          /\ <<free[i], slots[free[i]].generation>> \notin issued
      BY DEF AInv, FreeIsNew
    <2>n. n \in Nat /\ n = Len(free)
      BY <1>0
    <2> HIDE DEF n, s, g
    <2>3. TypeOK'
      BY <1>0, <2>1 DEF TypeOK
    <2>4. FreeOnce'
      BY <1>0, <2>1 DEF AInv, FreeOnce, n
    <2>5. FreeIsNew'
      <3> SUFFICES ASSUME NEW i \in 1..(n - 1)
                   PROVE  /\ free'[i] \in 1..Len(slots')
                          /\ slots'[free'[i]].value = Nothing
                          /\ <<free'[i], slots'[free'[i]].generation>> \notin issued'
        BY <2>1 DEF FreeIsNew
      <3>1. i \in 1..n /\ free'[i] = free[i] /\ free[i] # s
        BY <2>1, <2>2, <2>n
      <3>2. free[i] \in 1..Len(slots) \ {s}
        BY <2>9, <3>1
      <3> QED
        BY <2>1, <2>9, <3>1, <3>2
    <2>6. IssuedBehind'
      BY <2>1, g = slots[s].generation, <1>0, SlotFields DEF AInv, IssuedBehind, g
    <2>7. LiveIssued'
      <3> SUFFICES ASSUME NEW t \in 1..Len(slots), slots'[t].value # Nothing
                   PROVE  <<t, slots'[t].generation>> \in issued'
        BY <2>1 DEF LiveIssued
      <3>1. CASE t = s
        BY <3>1, <2>1
      <3>2. CASE t # s
        BY <3>2, <2>1 DEF AInv, LiveIssued
      <3> QED
        BY <3>1, <3>2
    <2>8. VacantFreeOrRetired'
      <3> SUFFICES ASSUME NEW t \in 1..Len(slots), slots'[t].value = Nothing
                   PROVE  \/ \E i \in 1..Len(free') : free'[i] = t
                          \/ <<t, MaxGeneration>> \in issued'
        BY <2>1 DEF VacantFreeOrRetired
      <3>1. t # s /\ slots[t].value = Nothing
        BY <2>1, PayloadAssumption
      <3>2. CASE <<t, MaxGeneration>> \in issued
        BY <3>2, <2>1
      <3>3. CASE \E i \in 1..Len(free) : free[i] = t
        <4>1. PICK i \in 1..Len(free) : free[i] = t
          BY <3>3
        <4>2. i \in 1..(n - 1)
          BY <4>1, <3>1, <2>1, <1>0 DEF n, s
        <4> QED
          BY <4>1, <4>2, <2>1
      <3> QED
        BY <3>1, <3>2, <3>3 DEF AInv, VacantFreeOrRetired
    <2> QED
      BY <2>3, <2>4, <2>5, <2>6, <2>7, <2>8 DEF AInv
  <1>2. CASE free = <<>>
    <2> DEFINE n == Len(slots) + 1
    <2>1. /\ n \in 1..MaxSlots
          /\ <<n, 0>> \in Handles \ issued
          /\ issued' = issued \cup {<<n, 0>>}
          /\ slots' \in Seq(Slot) /\ Len(slots') = n
          /\ slots'[n] = [generation |-> 0, value |-> p]
          /\ \A t \in 1..Len(slots) : slots'[t] = slots[t]
          /\ free' = free /\ Len(free) = 0
      BY <1>2, InsertGrowing, EmptySeq
    <2>2. TypeOK'
      BY <1>0, <2>1, SlotAssumption DEF TypeOK
    <2>3. FreeOnce' /\ FreeIsNew'
      BY <2>1 DEF FreeOnce, FreeIsNew
    <2>4. IssuedBehind'
      BY <1>0, <2>1 DEF AInv, IssuedBehind
    <2>5. LiveIssued'
      BY <1>0, <2>1 DEF AInv, LiveIssued
    <2>6. VacantFreeOrRetired'
      BY <1>0, <2>1, PayloadAssumption DEF AInv, VacantFreeOrRetired
    <2> QED
      BY <2>2, <2>3, <2>4, <2>5, <2>6 DEF AInv
  <1> QED
    BY <1>1, <1>2

LEMMA RemoveKeeps ==
  ASSUME AInv, NEW h \in issued, Remove(h)
  PROVE  AInv'
  <1>0. TypeOK /\ Len(free) \in Nat /\ Len(slots) \in Nat
    BY Lengths DEF AInv
  <1>1. CASE ~Resolves(arena, h)
    <2>1. UNCHANGED vars
      BY <1>1 DEF Remove, RemoveFrom, Become, arena, vars
    <2> QED
      BY <2>1 DEF vars, AInv, TypeOK, FreeOnce, FreeIsNew, IssuedBehind, LiveIssued,
                  VacantFreeOrRetired
  <1>2. CASE Resolves(arena, h)
    <2> DEFINE s == h[1]
               g == h[2]
               n == Len(free)
               y == IF g < MaxGeneration THEN g + 1 ELSE g
    <2>1. /\ s \in 1..Len(slots) /\ s \in 1..MaxSlots
          /\ g \in 0..MaxGeneration /\ h = <<s, g>>
          /\ slots[s].generation = g /\ slots[s].value # Nothing
          /\ issued' = issued
          /\ Len(slots') = Len(slots) /\ slots' \in Seq(Slot)
          /\ slots'[s] = [generation |-> y, value |-> Nothing]
          /\ \A t \in 1..Len(slots) \ {s} : slots'[t] = slots[t]
          /\ y \in Nat /\ g <= y
      BY <1>2, RemoveLive, GenerationAssumption DEF Replaced
    <2>2. \A i \in 1..n : free[i] # s
      BY <2>1 DEF AInv, FreeIsNew
    <2>3. CASE g < MaxGeneration
      <3>1. /\ free' \in Seq(1..MaxSlots) /\ Len(free') = n + 1
            /\ free'[n + 1] = s /\ y = g + 1
            /\ \A i \in 1..n : free'[i] = free[i]
        BY <1>2, <2>3, RemoveLive
      <3>2. <<s, y>> \notin issued
        BY <2>1, <3>1 DEF AInv, IssuedBehind
      <3> HIDE DEF s, g, y
      <3>3. TypeOK'
        BY <1>0, <2>1, <3>1 DEF TypeOK
      <3>4. FreeOnce'
        BY <1>0, <2>2, <3>1 DEF AInv, FreeOnce
      <3>5. FreeIsNew'
        <4> SUFFICES ASSUME NEW i \in 1..(n + 1)
                     PROVE  /\ free'[i] \in 1..Len(slots')
                            /\ slots'[free'[i]].value = Nothing
                            /\ <<free'[i], slots'[free'[i]].generation>> \notin issued'
          BY <3>1 DEF FreeIsNew
        <4>1. CASE i = n + 1
          <5>1. free'[i] = s /\ s \in 1..Len(slots')
            BY <4>1, <2>1, <3>1
          <5>2. slots'[s].value = Nothing /\ slots'[s].generation = y
            BY <2>1
          <5> QED
            BY <5>1, <5>2, <2>1, <3>2
        <4>2. CASE i \in 1..n
          <5>1. free[i] \in 1..Len(slots) \ {s} /\ free'[i] = free[i]
            BY <4>2, <2>2, <3>1 DEF AInv, FreeIsNew
          <5> QED
            BY <4>2, <5>1, <2>1 DEF AInv, FreeIsNew
        <4> QED
          BY <1>0, <4>1, <4>2
      <3>6. IssuedBehind'
        <4> SUFFICES ASSUME NEW k \in issued
                     PROVE  k[1] \in 1..Len(slots) /\ k[2] <= slots'[k[1]].generation
          BY <2>1 DEF IssuedBehind
        <4>1. k[1] \in 1..Len(slots) /\ k[2] <= slots[k[1]].generation /\ k[2] \in Nat
          BY <1>0, Lengths DEF AInv, IssuedBehind
        <4> QED
          BY <4>1, <2>1
      <3>7. LiveIssued'
        BY <2>1 DEF AInv, LiveIssued
      <3>8. VacantFreeOrRetired'
        <4> SUFFICES ASSUME NEW t \in 1..Len(slots), slots'[t].value = Nothing
                     PROVE  \/ \E i \in 1..(n + 1) : free'[i] = t
                            \/ <<t, MaxGeneration>> \in issued
          BY <2>1, <3>1 DEF VacantFreeOrRetired
        <4>1. CASE t = s
          BY <4>1, <1>0, <3>1
        <4>2. CASE t # s
          <5>1. slots[t].value = Nothing
            BY <4>2, <2>1
          <5>2. (\E i \in 1..n : free[i] = t) \/ <<t, MaxGeneration>> \in issued
            BY <5>1 DEF AInv, VacantFreeOrRetired
          <5> QED
            BY <5>2, <1>0, <3>1
        <4> QED
          BY <4>1, <4>2
      <3> QED
        BY <3>3, <3>4, <3>5, <3>6, <3>7, <3>8 DEF AInv
    <2>4. CASE ~(g < MaxGeneration)
      <3>1. free' = free /\ y = g /\ g = MaxGeneration
        BY <1>2, <2>1, <2>4, RemoveLive, GenerationAssumption
      <3> HIDE DEF s, g, y
      <3>2. TypeOK' /\ FreeOnce'
        BY <1>0, <2>1, <3>1 DEF AInv, TypeOK, FreeOnce
      <3>3. FreeIsNew'
        BY <2>1, <2>2, <3>1 DEF AInv, FreeIsNew
      <3>4. IssuedBehind'
        BY <2>1, <3>1 DEF AInv, IssuedBehind
      <3>5. LiveIssued'
        BY <2>1 DEF AInv, LiveIssued
      <3>6. VacantFreeOrRetired'
        BY <2>1, <3>1 DEF AInv, VacantFreeOrRetired
      <3> QED
        BY <3>2, <3>3, <3>4, <3>5, <3>6 DEF AInv
    <2> QED
      BY <2>3, <2>4
  <1> QED
    BY <1>1, <1>2

LEMMA UpdateKeeps ==
  ASSUME AInv, NEW h \in issued, NEW p \in Payloads, Update(h, p)
  PROVE  AInv'
  <1> DEFINE s == h[1]
             g == h[2]
  <1>1. /\ s \in 1..Len(slots) /\ slots[s].generation = g /\ slots[s].value # Nothing
        /\ Len(slots') = Len(slots) /\ slots' \in Seq(Slot)
        /\ slots'[s] = [generation |-> g, value |-> p]
        /\ \A t \in 1..Len(slots) \ {s} : slots'[t] = slots[t]
        /\ free' = free /\ issued' = issued /\ TypeOK
    BY UpdateLive DEF Replaced, AInv
  <1> HIDE DEF s, g
  <1>2. TypeOK' /\ FreeOnce'
    BY <1>1 DEF AInv, TypeOK, FreeOnce
  <1>3. FreeIsNew'
    BY <1>1 DEF AInv, FreeIsNew
  <1>4. IssuedBehind' /\ LiveIssued'
    BY <1>1 DEF AInv, IssuedBehind, LiveIssued
  <1>5. VacantFreeOrRetired'
    BY <1>1, PayloadAssumption DEF AInv, VacantFreeOrRetired
  <1> QED
    BY <1>2, <1>3, <1>4, <1>5 DEF AInv

LEMMA ArenaStep == AInv /\ [Next]_vars => AInv'
  <1> SUFFICES ASSUME AInv, [Next]_vars
               PROVE  AInv'
    OBVIOUS
  <1>1. CASE \E p \in Payloads : Insert(p)
    BY <1>1, InsertKeeps
  <1>2. CASE \E h \in issued : Remove(h)
    BY <1>2, RemoveKeeps
  <1>3. CASE \E h \in issued, p \in Payloads : Update(h, p)
    BY <1>3, UpdateKeeps
  <1>4. CASE UNCHANGED vars
    BY <1>4 DEF vars, AInv, TypeOK, FreeOnce, FreeIsNew, IssuedBehind, LiveIssued,
                VacantFreeOrRetired
  <1> QED
    BY <1>1, <1>2, <1>3, <1>4 DEF Next

LEMMA ArenaInductive == Spec => []AInv
  BY ArenaInit, ArenaStep, PTL DEF Spec

-----------------------------------------------------------------------------
\* The arena and the handles given out keep their types: no generation passes
\* u32::MAX.
THEOREM TypeCorrect == Spec => []TypeOK
  <1>1. AInv => TypeOK
    BY DEF AInv
  <1> QED
    BY <1>1, ArenaInductive, PTL

\* Every slot is occupied, on the free stack once, or retired.
THEOREM EverySlotAccountedFor == Spec => []SlotsAccountedFor
  <1>1. AInv => SlotsAccountedFor
    <2> SUFFICES ASSUME AInv, NEW s \in 1..Len(slots)
                 PROVE  LET onStack == {i \in 1..Len(free) : free[i] = s} IN
                        /\ slots[s].value # Nothing => onStack = {}
                        /\ slots[s].value = Nothing /\ onStack = {} =>
                             <<s, MaxGeneration>> \in issued
                        /\ \A i, j \in onStack : i = j
      BY DEF SlotsAccountedFor
    <2> QED
      BY DEF AInv, FreeOnce, FreeIsNew, VacantFreeOrRetired
  <1> QED
    BY <1>1, ArenaInductive, PTL

-----------------------------------------------------------------------------
\* What resolves, without the arena's record around the slots.
LEMMA ResolvesMeans ==
  ASSUME TypeOK, NEW h \in issued
  PROVE  /\ Resolves(arena, h) <=> /\ h[1] \in 1..Len(slots)
                                   /\ slots[h[1]].generation = h[2]
                                   /\ slots[h[1]].value # Nothing
         /\ At(arena, h) = slots[h[1]].value
  BY Lengths DEF Resolves, At, arena

\* A step of the arena is a step of the store that never reuses a handle.
LEMMA StepRefines == AInv /\ AInv' /\ [Next]_vars => [Promise!Next]_(Promise!vars)
  <1> SUFFICES ASSUME AInv, AInv', [Next]_vars
               PROVE  Promise!Next \/ (Held' = Held /\ issued' = issued)
    BY DEF Promise!vars
  <1> DEFINE Live == {k \in issued : Resolves(arena, k)}
  <1>0. /\ DOMAIN Held = Live
        /\ \A k \in Live : Held[k] = slots[k[1]].value
        /\ Held' = [k \in Live' |-> slots'[k[1]].value]
    BY DEF Held, At, arena
  <1>t. TypeOK /\ TypeOK' /\ Len(slots) \in Nat
    BY Lengths DEF AInv
  <1>r. /\ \A k \in issued : k \in Live <=> /\ k[1] \in 1..Len(slots)
                                            /\ slots[k[1]].generation = k[2]
                                            /\ slots[k[1]].value # Nothing
        /\ \A k \in issued' : k \in Live' <=> /\ k[1] \in 1..Len(slots')
                                              /\ slots'[k[1]].generation = k[2]
                                              /\ slots'[k[1]].value # Nothing
    <2>1. DOMAIN slots = 1..Len(slots) /\ DOMAIN slots' = 1..Len(slots')
      BY <1>t, LenProperties DEF TypeOK
    <2> QED
      BY <2>1 DEF Resolves, arena
  <1>b. \A k \in issued : k = <<k[1], k[2]>> /\ k[1] \in 1..Len(slots)
    BY <1>t, Lengths DEF AInv, IssuedBehind
  <1> HIDE DEF Live
  <1>i. Live \subseteq issued /\ Live' \subseteq issued'
    BY DEF Live
  <1>1. ASSUME NEW p \in Payloads, Insert(p)
        PROVE  Promise!Next
    <2>1. PICK h \in Handles \ issued :
            /\ issued' = issued \cup {h}
            /\ h[1] \in 1..Len(slots')
            /\ Len(slots) <= Len(slots')
            /\ slots'[h[1]] = [generation |-> h[2], value |-> p]
            /\ \A t \in 1..Len(slots) \ {h[1]} : slots'[t] = slots[t]
            /\ h[1] \in 1..Len(slots) => slots[h[1]].value = Nothing /\ slots[h[1]].generation = h[2]
            /\ h = <<h[1], h[2]>>
      <3>1. CASE free # <<>>
        <4> DEFINE s == free[Len(free)]
                   g == slots[s].generation
        <4>1. /\ s \in 1..Len(slots) /\ slots[s].value = Nothing
              /\ <<s, g>> \in Handles \ issued
              /\ issued' = issued \cup {<<s, g>>}
              /\ Len(slots') = Len(slots)
              /\ slots'[s] = [generation |-> g, value |-> p]
              /\ \A t \in 1..Len(slots) \ {s} : slots'[t] = slots[t]
          BY <1>1, <3>1, InsertReusing DEF Replaced
        <4> HIDE DEF s, g
        <4>2. <<s, g>>[1] = s /\ <<s, g>>[2] = g /\ Len(slots) <= Len(slots')
          BY <4>1, <1>t
        <4>3. s \in 1..Len(slots) => slots[s].value = Nothing /\ slots[s].generation = g
          BY <4>1 DEF g
        <4> QED
          BY <4>1, <4>2, <4>3
      <3>2. CASE free = <<>>
        BY <1>1, <1>t, <3>2, InsertGrowing
      <3> QED
        BY <3>1, <3>2
    <2>2. \A k \in issued : k \in Live' <=> k \in Live
      <3> SUFFICES ASSUME NEW k \in issued
                   PROVE  k \in Live' <=> k \in Live
        OBVIOUS
      <3>1. CASE k[1] = h[1]
        BY <3>1, <2>1, <1>r, <1>b
      <3>2. CASE k[1] # h[1]
        BY <3>2, <2>1, <1>r, <1>b, <1>t
      <3> QED
        BY <3>1, <3>2
    <2>3. h \in Live'
      BY <2>1, <1>r, PayloadAssumption
    <2>4. Live' = Live \cup {h}
      BY <1>i, <2>1, <2>2, <2>3
    <2>5. \A k \in Live : slots'[k[1]].value = slots[k[1]].value
      BY <1>i, <1>r, <1>b, <2>1
    <2>6. Held' = [k \in DOMAIN Held \cup {h} |-> IF k = h THEN p ELSE Held[k]]
      BY <1>0, <1>i, <2>1, <2>4, <2>5
    <2>7. Promise!Insert(p)
      BY <2>1, <2>6 DEF Promise!Insert
    <2> QED
      BY <2>7 DEF Promise!Next
  <1>2. ASSUME NEW h \in issued, Remove(h)
        PROVE  Promise!Next \/ (Held' = Held /\ issued' = issued)
    <2>1. CASE ~Resolves(arena, h)
      <3>1. UNCHANGED vars
        BY <1>2, <2>1 DEF Remove, RemoveFrom, Become, arena, vars
      <3> QED
        BY <3>1 DEF vars, Held, arena
    <2>2. CASE Resolves(arena, h)
      <3>1. /\ issued' = issued
            /\ Len(slots') = Len(slots)
            /\ slots[h[1]].generation = h[2]
            /\ slots'[h[1]].value = Nothing
            /\ \A t \in 1..Len(slots) \ {h[1]} : slots'[t] = slots[t]
        <4> DEFINE x == [generation |-> IF h[2] < MaxGeneration THEN h[2] + 1 ELSE h[2],
                         value |-> Nothing]
        <4>1. slots[h[1]].generation = h[2] /\ issued' = issued /\ Replaced(h[1], x)
          BY <1>2, <2>2, RemoveLive
        <4> QED
          BY <4>1 DEF Replaced
      <3>2. h \in Live
        BY <1>2, <2>2 DEF Live
      <3>3. Live' = Live \ {h}
        <4> SUFFICES ASSUME NEW k \in issued
                     PROVE  k \in Live' <=> k \in Live /\ k # h
          BY <1>i, <3>1
        <4> QED
          BY <1>r, <1>b, <3>1, <1>2
      <3>4. \A k \in Live' : slots'[k[1]].value = slots[k[1]].value
        BY <1>i, <1>r, <1>b, <3>1, <3>3
      <3>5. Held' = [k \in DOMAIN Held \ {h} |-> Held[k]]
        BY <1>0, <3>3, <3>4
      <3>6. Promise!Remove(h)
        BY <1>0, <3>1, <3>2, <3>5 DEF Promise!Remove
      <3> QED
        BY <1>0, <3>2, <3>6 DEF Promise!Next
    <2> QED
      BY <2>1, <2>2
  <1>3. ASSUME NEW h \in issued, NEW p \in Payloads, Update(h, p)
        PROVE  Promise!Next
    <2>1. /\ issued' = issued
          /\ Len(slots') = Len(slots)
          /\ h[1] \in 1..Len(slots)
          /\ slots[h[1]].generation = h[2] /\ slots[h[1]].value # Nothing
          /\ slots'[h[1]] = [generation |-> h[2], value |-> p]
          /\ \A t \in 1..Len(slots) \ {h[1]} : slots'[t] = slots[t]
      BY <1>3, UpdateLive DEF Replaced
    <2>2. Live' = Live /\ h \in Live
      <3>1. \A k \in issued : k \in Live' <=> k \in Live
        BY <1>r, <1>b, <2>1, PayloadAssumption
      <3> QED
        BY <1>i, <1>r, <1>3, <2>1, <3>1
    <2>3. \A k \in Live \ {h} : slots'[k[1]].value = slots[k[1]].value
      BY <1>i, <1>r, <1>b, <2>1, <2>2
    <2>4. Held' = [k \in Live |-> IF k = h THEN p ELSE Held[k]]
      BY <1>0, <2>1, <2>2, <2>3
    <2>5. Held' = [Held EXCEPT ![h] = p]
      BY <1>0, <2>2, <2>4 DEF Held, Live
    <2>6. Promise!Update(h, p)
      BY <1>0, <2>1, <2>2, <2>5 DEF Promise!Update
    <2> QED
      BY <1>0, <2>2, <2>6 DEF Promise!Next
  <1>4. CASE UNCHANGED vars
    BY <1>4 DEF vars, Held, arena
  <1> QED
    BY <1>1, <1>2, <1>3, <1>4 DEF Next

\* The arena implements a store whose handles are never given out twice.
THEOREM ArenaImplementsStore == Spec => HandlesNameOneEntity
  <1>1. Init => Promise!Init
    BY DEF Init, Promise!Init, Held
  <1> QED
    BY <1>1, StepRefines, ArenaInductive, PTL DEF Spec, HandlesNameOneEntity, Promise!Spec

=============================================================================
