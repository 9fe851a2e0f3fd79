----------------------------- MODULE HandleStore -----------------------------
(***************************************************************************)
(* What the arenas of crates/afterburner/src/ir/entity promise their        *)
(* callers: a handle names one entity for ever.  While the entity lives the *)
(* handle resolves to it; afterwards it resolves to nothing, however often  *)
(* the storage behind it is used again.                                     *)
(***************************************************************************)
CONSTANTS Handles, Payloads

VARIABLES
    held,    \* the live entities, by handle
    issued   \* every handle ever given out

vars == <<held, issued>>

Init ==
    /\ held = [h \in {} |-> {}]
    /\ issued = {}

\* A new entity gets a handle nobody has seen.
Insert(p) ==
    \E h \in Handles \ issued :
       /\ held' = [k \in DOMAIN held \cup {h} |-> IF k = h THEN p ELSE held[k]]
       /\ issued' = issued \cup {h}

\* The entity is gone and its handle is never given out again.
Remove(h) ==
    /\ h \in DOMAIN held
    /\ held' = [k \in DOMAIN held \ {h} |-> held[k]]
    /\ UNCHANGED issued

\* The entity behind a live handle is changed in place.
Update(h, p) ==
    /\ h \in DOMAIN held
    /\ held' = [held EXCEPT ![h] = p]
    /\ UNCHANGED issued

Next ==
    \/ \E p \in Payloads : Insert(p)
    \/ \E h \in DOMAIN held : Remove(h)
    \/ \E h \in DOMAIN held, p \in Payloads : Update(h, p)

Spec == Init /\ [][Next]_vars

=============================================================================
