----------------------------- MODULE ArenaMachine -----------------------------
(***************************************************************************)
(* One arena and every handle it ever returned.  Callers insert, change and *)
(* remove with any handle they were given, stale ones included.             *)
(***************************************************************************)
EXTENDS Arena

CONSTANTS
    Payloads,   \* what can be stored
    MaxSlots    \* u32 slot numbers: the arena panics when they are exhausted

ASSUME PayloadAssumption == Nothing \notin Payloads
ASSUME SlotAssumption == MaxSlots \in Nat

VARIABLES
    slots, free,   \* the arena's two fields
    issued         \* every handle an insert returned

vars == <<slots, free, issued>>

arena == [slots |-> slots, free |-> free]

Handles == (1..MaxSlots) \X (0..MaxGeneration)

Slot == [generation : 0..MaxGeneration, value : Payloads \cup {Nothing}]

TypeOK ==
    /\ slots \in Seq(Slot)
    /\ Len(slots) <= MaxSlots
    /\ free \in Seq(1..MaxSlots)
    /\ issued \in SUBSET Handles

Become(a) == slots' = a.slots /\ free' = a.free

Init ==
    /\ slots = EmptyArena.slots
    /\ free = EmptyArena.free
    /\ issued = {}

Insert(p) ==
    /\ free # <<>> \/ Len(slots) < MaxSlots
    /\ Become(InsertInto(arena, p))
    /\ issued' = issued \cup {NextHandle(arena)}

Remove(h) ==
    /\ Become(RemoveFrom(arena, h))
    /\ UNCHANGED issued

Update(h, p) ==
    /\ Resolves(arena, h)
    /\ Become(Store(arena, h, p))
    /\ UNCHANGED issued

Next ==
    \/ \E p \in Payloads : Insert(p)
    \/ \E h \in issued : Remove(h)
    \/ \E h \in issued, p \in Payloads : Update(h, p)

Spec == Init /\ [][Next]_vars

-----------------------------------------------------------------------------
\* What is behind each handle that resolves.
Held == [h \in {k \in issued : Resolves(arena, k)} |-> At(arena, h)]

Promise == INSTANCE HandleStore WITH held <- Held, issued <- issued

\* "Reusing an erased slot increments its generation, causing stale lookups to
\* fail instead of silently targeting a different entity": the arena implements
\* a store whose handles are never given out twice.
HandlesNameOneEntity == Promise!Spec

\* Every slot is in exactly one of three conditions: occupied, vacant and on the
\* free stack once, or retired because its last generation was used.
SlotsAccountedFor ==
    \A s \in 1..Len(slots) :
       LET onStack == {i \in 1..Len(free) : free[i] = s} IN
       /\ slots[s].value # Nothing => onStack = {}
       /\ slots[s].value = Nothing /\ onStack = {} => <<s, MaxGeneration>> \in issued
       /\ \A i, j \in onStack : i = j

=============================================================================
