---------------------------- MODULE SchemaEvolution ----------------------------
(***************************************************************************)
(* Code-first evolution (crates/jetorm-schema/src/lib.rs): the entities      *)
(* describe the target, `diff' plans how to get there from the schema the    *)
(* migrations replay to, renames are confirmed in any order, and the plan,   *)
(* recorded in a migration, is applied change by change.                     *)
(***************************************************************************)
EXTENDS SchemaDiff

CONSTANTS
    Families,       \* sets of schemas the entities may describe, one after another
    Recreating      \* TRUE when an enum type may lose or reorder variants

\* Entities describe schemas that a database could hold.
ASSUME FamiliesAssumption == \A family \in Families : \A s \in family : Valid(s)

VARIABLES
    schema,         \* the schema replayed so far
    target,
    plan,           \* the changes still to be applied
    unconfirmed,    \* renames not yet confirmed
    applying,       \* the plan is written: no more renames
    rejection       \* what apply answered last

evolutionVars == <<schema, target, plan, unconfirmed, applying, rejection>>

\* An enum type of both schemas only grows.
EnumsGrow(from, to) ==
    \A e \in Enums(from) \cap Enums(to) : IsPrefix(from.enums[e], to.enums[e])

EvolutionInit ==
    /\ schema = EmptySchema /\ target = EmptySchema
    /\ plan = <<>> /\ unconfirmed = {}
    /\ applying = FALSE /\ rejection = "ok"

Retarget(t) ==
    /\ plan = <<>> /\ rejection = "ok"
    /\ Recreating \/ EnumsGrow(schema, t)
    /\ target' = t
    /\ plan' = Changes(schema, t)
    /\ unconfirmed' = Candidates(schema, t)
    /\ applying' = FALSE
    /\ UNCHANGED <<schema, rejection>>

Confirm(c) ==
    /\ ~applying
    /\ Confirmable(plan, c)
    /\ plan' = Confirmed(plan, c)
    /\ unconfirmed' = unconfirmed \ {c}
    /\ UNCHANGED <<schema, target, applying, rejection>>

ApplyNext ==
    /\ plan # <<>> /\ rejection = "ok"
    /\ LET result == Apply(schema, Head(plan)) IN
       /\ schema' = result.schema
       /\ rejection' = result.answer
       /\ plan' = IF result.answer = "ok" THEN Tail(plan) ELSE plan
    /\ applying' = TRUE
    /\ UNCHANGED <<target, unconfirmed>>

EvolutionNext ==
    \/ \E family \in Families :
          /\ schema \in family \cup {EmptySchema}
          /\ \E t \in family : Retarget(t)
    \/ \E c \in unconfirmed : Confirm(c)
    \/ ApplyNext

EvolutionSpec == EvolutionInit /\ [][EvolutionNext]_evolutionVars

-----------------------------------------------------------------------------
\* "Applying diff(a, b) to a always reproduces b exactly", whatever renames were
\* confirmed in whatever order: no change is refused, and the last one arrives.
PlansReachTheirTarget ==
    /\ rejection = "ok"
    /\ plan = <<>> => schema = target

\* "A column can only take a type that exists, and a type can only drop once
\* nothing uses it": between any two changes too (0 is a built-in type).
TypesExist == TypesAreKnown(schema)

\* jet check reports drift exactly when there is some, also when only part of a
\* plan was applied.
DriftIsSeen == Changes(schema, target) = <<>> <=> schema = target

=============================================================================
