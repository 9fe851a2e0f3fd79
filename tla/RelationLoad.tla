----------------------------- MODULE RelationLoad -----------------------------
(***************************************************************************)
(* Batched relation loading (crates/jetorm-executor/src/relations.rs): the   *)
(* rows on one side of an edge are in hand, one statement fetches those on   *)
(* the other, and they are dealt out by join key.                            *)
(*                                                                         *)
(* load_many deals each parent the children that reference it; load_one      *)
(* deals each source row the row it references.  "Near" rows are the ones in  *)
(* hand, "far" rows the ones fetched.                                        *)
(***************************************************************************)
EXTENDS Naturals, FiniteSets, SequencesExt

CONSTANTS
    Key,            \* join keys
    Null,           \* the key of a row that takes part in no edge
    Far,            \* rows there may be on the far side
    MaxNear,        \* bound: rows in hand
    MaxWrites       \* bound: writes of others to the far side

ASSUME NullAssumption == Null \notin Key
ASSUME BoundsAssumption == MaxNear \in Nat /\ IsFiniteSet(Far)

VARIABLES
    load,           \* "many" or "one"
    near,           \* the join keys of the rows in hand
    far,            \* the far side: the join key of each row there is
    remaining,      \* how many rows in hand still want a key's group
    wanted,         \* the keys to fetch, each once, in first-seen order
    answer,         \* the far rows fetched, in the database's order, with their keys
    grouped,        \* the groups not yet taken, by key
    dealt,          \* what the rows in hand were given so far
    phase,
    writes

loadVars == <<load, near, far, remaining, wanted, answer, grouped, dealt, phase, writes>>

Put(f, k, v) == [x \in DOMAIN f \cup {k} |-> IF x = k THEN v ELSE f[x]]
Get(f, k, default) == IF k \in DOMAIN f THEN f[k] ELSE default
Drop(f, k) == [x \in DOMAIN f \ {k} |-> f[x]]

LoadInit ==
    /\ load \in {"many", "one"}
    /\ near \in UNION {[1..n -> Key \cup {Null}] : n \in 0..MaxNear}
    /\ far \in UNION {[rows -> Key \cup {Null}] : rows \in SUBSET Far}
    /\ remaining = <<>> /\ wanted = <<>> /\ answer = <<>>
    /\ grouped = <<>> /\ dealt = <<>>
    /\ phase = "counting"
    /\ writes = 0

Count(counts, k) == IF k = Null THEN counts ELSE Put(counts, k, Get(counts, k, 0) + 1)
Want(keys, k) == IF k = Null \/ Contains(keys, k) THEN keys ELSE Append(keys, k)

\* What a row in hand gets when nothing matches it.
Nothing == IF load = "many" THEN <<>> ELSE Null

\* The dedup loop; no statement runs when no row in hand has a key.
CountKeys ==
    /\ phase = "counting"
    /\ remaining' = IF load = "many" THEN FoldLeft(Count, <<>>, near) ELSE <<>>
    /\ wanted' = FoldLeft(Want, <<>>, near)
    /\ IF wanted' = <<>>
       THEN phase' = "done" /\ dealt' = [i \in DOMAIN near |-> Nothing]
       ELSE phase' = "fetching" /\ UNCHANGED dealt
    /\ UNCHANGED <<load, near, far, answer, grouped, writes>>

\* find().filter(column.is_in(wanted)).all(), in any order.
FetchFar ==
    /\ phase = "fetching"
    /\ LET found == {r \in DOMAIN far : Contains(wanted, far[r])} IN
       answer' \in {[i \in DOMAIN order |-> [row |-> order[i], key |-> far[order[i]]]] :
                       order \in SetToSeqs(found)}
    /\ phase' = "grouping"
    /\ UNCHANGED <<load, near, far, remaining, wanted, grouped, dealt, writes>>

AddChild(groups, item) == Put(groups, item.key, Append(Get(groups, item.key, <<>>), item.row))
InsertTarget(groups, item) == Put(groups, item.key, item.row)

GroupFar ==
    /\ phase = "grouping"
    /\ grouped' = IF load = "many" THEN FoldLeft(AddChild, <<>>, answer)
                  ELSE FoldLeft(InsertTarget, <<>>, answer)
    /\ phase' = "dealing"
    /\ UNCHANGED <<load, near, far, remaining, wanted, answer, dealt, writes>>

\* The key of the row dealt next.
NextKey == near[Len(dealt) + 1]

\* The last taker of a group moves it out, earlier ones clone it.
TakeMoving(k) ==
    /\ dealt' = Append(dealt, Get(grouped, k, <<>>))
    /\ remaining' = Put(remaining, k, remaining[k] - 1)
    /\ grouped' = Drop(grouped, k)
TakeGroup(k) ==
    /\ dealt' = Append(dealt, Get(grouped, k, <<>>))
    /\ remaining' = Put(remaining, k, remaining[k] - 1)
    /\ grouped' = IF remaining[k] = 1 THEN Drop(grouped, k) ELSE grouped

TakeTargetMoving(k) ==
    /\ dealt' = Append(dealt, Get(grouped, k, Null))
    /\ grouped' = Drop(grouped, k)
    /\ UNCHANGED remaining
TakeTarget(k) ==
    /\ dealt' = Append(dealt, Get(grouped, k, Null))
    /\ UNCHANGED <<remaining, grouped>>

Deal ==
    /\ phase = "dealing"
    /\ Len(dealt) < Len(near)
    /\ \/ /\ NextKey = Null
          /\ dealt' = Append(dealt, Nothing)
          /\ UNCHANGED <<remaining, grouped>>
       \/ NextKey # Null /\ load = "many" /\ TakeGroup(NextKey)
       \/ NextKey # Null /\ load = "one" /\ TakeTarget(NextKey)
    /\ UNCHANGED <<load, near, far, wanted, answer, phase, writes>>

Finish ==
    /\ phase = "dealing"
    /\ Len(dealt) = Len(near)
    /\ phase' = "done"
    /\ UNCHANGED <<load, near, far, remaining, wanted, answer, grouped, dealt, writes>>

\* The join key of some row cannot be read (key_of), or the statement fails: the
\* whole load does, and nobody is dealt anything.
Fail ==
    /\ \/ phase = "counting" /\ near # <<>>
       \/ phase = "fetching"
       \/ phase = "grouping" /\ answer # <<>>
    /\ phase' = "failed"
    /\ UNCHANGED <<load, near, far, remaining, wanted, answer, grouped, dealt, writes>>

\* Another client inserts, deletes or moves a far row.
WriteFar ==
    /\ phase \in {"counting", "fetching"} /\ writes < MaxWrites
    /\ \/ \E r \in Far, k \in Key \cup {Null} : far' = Put(far, r, k)
       \/ \E r \in DOMAIN far : far' = Drop(far, r)
    /\ writes' = writes + 1
    /\ UNCHANGED <<load, near, remaining, wanted, answer, grouped, dealt, phase>>

LoadNext == CountKeys \/ FetchFar \/ GroupFar \/ Deal \/ Finish \/ Fail \/ WriteFar

LoadSpec == LoadInit /\ [][LoadNext]_loadVars

-----------------------------------------------------------------------------
(* Properties.                                                               *)

\* The rows that match a key, in the order the database gave.
AddMatch(k, rows, item) == IF item.key = k THEN Append(rows, item.row) ELSE rows
Matches(k, found) == FoldLeft(LAMBDA rows, item : AddMatch(k, rows, item), <<>>, found)
Matching(k) == Matches(k, answer)

\* Every parent, also one that comes twice or shares its key with others, gets
\* every child that referenced it when the statement ran, in the order the
\* statement gave; a row of no key gets none; the order is that of the parents.
EveryParentGetsItsChildren ==
    load = "many" /\ phase = "done" =>
        /\ Len(dealt) = Len(near)
        /\ \A i \in DOMAIN near : dealt[i] = IF near[i] = Null THEN <<>> ELSE Matching(near[i])

\* Every source row gets a row its key references, or none when there is none.
EverySourceGetsItsTarget ==
    load = "one" /\ phase = "done" =>
        /\ Len(dealt) = Len(near)
        /\ \A i \in DOMAIN near :
              IF near[i] = Null \/ Matching(near[i]) = <<>> THEN dealt[i] = Null
              ELSE dealt[i] \in ToSet(Matching(near[i]))

=============================================================================
