-------------------------------- MODULE Arena --------------------------------
(***************************************************************************)
(* The generational arena of crates/afterburner/src/ir/entity/arena.rs, as  *)
(* operators on its two fields.  A slot carries the generation that its     *)
(* current or next occupant's handle has; `free' is the stack of vacant     *)
(* slots that may be used again.                                            *)
(***************************************************************************)
EXTENDS Integers, Sequences

CONSTANTS
    MaxGeneration,  \* u32::MAX: a slot whose generation cannot grow is retired
    Nothing         \* the value of a vacant slot

ASSUME GenerationAssumption == MaxGeneration \in Nat

Handle(s, g) == <<s, g>>

\* The arenas of data: what is on the free stack is vacant and there once.
Arenas(Data) ==
    {a \in [slots : Seq([generation : 0..MaxGeneration, value : Data \cup {Nothing}]),
            free : Seq(Nat)] :
       /\ \A i \in DOMAIN a.free : a.free[i] \in DOMAIN a.slots /\ a.slots[a.free[i]].value = Nothing
       /\ \A i, j \in DOMAIN a.free : a.free[i] = a.free[j] => i = j}

EmptyArena == [slots |-> <<>>, free |-> <<>>]

\* The handle the next insert returns.
NextHandle(a) ==
    IF a.free # <<>>
    THEN LET s == a.free[Len(a.free)] IN Handle(s, a.slots[s].generation)
    ELSE Handle(Len(a.slots) + 1, 0)

\* Mutant: the slot is looked at on the stack and stays there.
InsertIntoPeeking(a, v) ==
    IF a.free # <<>>
    THEN [a EXCEPT !.slots[a.free[Len(a.free)]].value = v]
    ELSE [a EXCEPT !.slots = Append(@, [generation |-> 0, value |-> v])]

\* Insert into the vacant slot freed last, or else into a new one.
InsertInto(a, v) ==
    IF a.free # <<>>
    THEN [slots |-> [a.slots EXCEPT ![a.free[Len(a.free)]].value = v],
          free  |-> SubSeq(a.free, 1, Len(a.free) - 1)]
    ELSE [slots |-> Append(a.slots, [generation |-> 0, value |-> v]),
          free  |-> a.free]

\* Does get find an entity behind the handle?
Resolves(a, h) ==
    /\ h[1] \in DOMAIN a.slots
    /\ a.slots[h[1]].generation = h[2]
    /\ a.slots[h[1]].value # Nothing

\* get, where it finds one.
At(a, h) == a.slots[h[1]].value

\* get_mut: the entity behind a live handle is replaced by v.
Store(a, h, v) == [a EXCEPT !.slots[h[1]].value = v]

\* Mutant: the generation wraps instead of retiring the slot.
RemoveFromWrapping(a, h) ==
    IF ~Resolves(a, h) THEN a
    ELSE [slots |-> [a.slots EXCEPT ![h[1]] =
                        [generation |-> (h[2] + 1) % (MaxGeneration + 1), value |-> Nothing]],
          free  |-> Append(a.free, h[1])]

\* Remove a live entity: the next generation of its slot becomes available,
\* unless there is none and the slot is retired.  A stale handle removes nothing.
RemoveFrom(a, h) ==
    IF ~Resolves(a, h) THEN a
    ELSE IF h[2] < MaxGeneration
    THEN [slots |-> [a.slots EXCEPT ![h[1]] = [generation |-> h[2] + 1, value |-> Nothing]],
          free  |-> Append(a.free, h[1])]
    ELSE [a EXCEPT !.slots[h[1]].value = Nothing]

\* iter: the handles of everything that lives.
LiveHandles(a) ==
    {Handle(s, a.slots[s].generation) : s \in {t \in DOMAIN a.slots : a.slots[t].value # Nothing}}

=============================================================================
