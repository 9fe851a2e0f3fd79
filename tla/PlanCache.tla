------------------------------ MODULE PlanCache ------------------------------
(***************************************************************************)
(* The plan cache (crates/jetorm-executor/src/plan.rs), shared by every      *)
(* caller of a database.  A caller's lookup validates its query, then asks    *)
(* the cache for the query's shape; after a miss it renders the query on its  *)
(* own and inserts the statement, unaware of others who missed too.  Entries  *)
(* leave at any time the cache is over its capacity.  The statement a lookup  *)
(* ends with runs with the values of the caller's own query.                  *)
(***************************************************************************)
EXTENDS QueryIr, FiniteSets

CONSTANTS
    Callers, Scripts, Databases,
    Queries,
    Validity(_),         \* of each query: ok, or the value that is wrong with it
    Rendering(_),        \* of each query: its statement, or why it has none
    Outcomes(_, _, _),   \* of a query run by a statement on a database: [db, got]
    ShapeKey(_),         \* of each query: what its statement is kept under
    Capacity             \* entries beyond this many may be evicted

ASSUME ScriptsAssumption == Scripts \subseteq [Callers -> Seq(Queries)]

VARIABLES
    script, asked, answer, db,
    stage,   \* how far a caller's lookup has come
    held,    \* the statement it has, once it has one
    cache    \* the entries: a shape and a statement
vars == <<script, asked, answer, db, stage, held, cache>>

Refusal(error) == [refused |-> error, got |-> None]
Delivery(got) == [refused |-> ok, got |-> Some(got)]
Entry(shape, statement) == [shape |-> shape, statement |-> statement]
Query(c) == asked[c][1]

Stages == {"idle", "submitted", "missed", "rendered", "held"}

Init ==
    /\ script \in Scripts
    /\ asked = [c \in Callers |-> None]
    /\ answer = [c \in Callers |-> None]
    /\ db \in Databases
    /\ stage = [c \in Callers |-> "idle"]
    /\ held = [c \in Callers |-> None]
    /\ cache = {}

Goto(c, next) == stage' = [stage EXCEPT ![c] = next]
Reply(c, reply) ==
    /\ answer' = [answer EXCEPT ![c] = Some(reply)]
    /\ held' = [held EXCEPT ![c] = None]
    /\ Goto(c, "idle")
    /\ UNCHANGED <<script, asked>>

Submit(c) ==
    /\ stage[c] = "idle" /\ script[c] # <<>>
    /\ script' = [script EXCEPT ![c] = Tail(@)]
    /\ asked' = [asked EXCEPT ![c] = Some(Head(script[c]))]
    /\ answer' = [answer EXCEPT ![c] = None]
    /\ Goto(c, "submitted")
    /\ UNCHANGED <<db, held, cache>>

\* Values are validated on every lookup, before the cache is asked.
Reject(c) ==
    /\ stage[c] = "submitted"
    /\ Validity(Query(c)) # ok
    /\ Reply(c, Refusal(Validity(Query(c))))
    /\ UNCHANGED <<db, cache>>
\* Mutant: a cached statement is served before the values are looked at.
HitUnvalidated(c) ==
    /\ stage[c] = "submitted"
    /\ \E entry \in cache :
          /\ entry.shape = ShapeKey(Query(c))
          /\ held' = [held EXCEPT ![c] = Some(entry.statement)]
    /\ Goto(c, "held")
    /\ UNCHANGED <<script, asked, answer, db, cache>>
Hit(c) ==
    /\ stage[c] = "submitted"
    /\ Validity(Query(c)) = ok
    /\ \E entry \in cache :
          /\ entry.shape = ShapeKey(Query(c))
          /\ held' = [held EXCEPT ![c] = Some(entry.statement)]
    /\ Goto(c, "held")
    /\ UNCHANGED <<script, asked, answer, db, cache>>
Miss(c) ==
    /\ stage[c] = "submitted"
    /\ Validity(Query(c)) = ok
    /\ \A entry \in cache : entry.shape # ShapeKey(Query(c))
    /\ Goto(c, "missed")
    /\ UNCHANGED <<script, asked, answer, db, held, cache>>

\* An error is the caller's and is not kept.
Render(c) ==
    /\ stage[c] = "missed"
    /\ Rendering(Query(c)).error = ok
    /\ held' = [held EXCEPT ![c] = Some(Rendering(Query(c)).statement)]
    /\ Goto(c, "rendered")
    /\ UNCHANGED <<script, asked, answer, db, cache>>
FailToRender(c) ==
    /\ stage[c] = "missed"
    /\ Rendering(Query(c)).error # ok
    /\ Reply(c, Refusal(Rendering(Query(c)).error))
    /\ UNCHANGED <<db, cache>>
\* Of two who missed, the last to insert wins.
Insert(c) ==
    /\ stage[c] = "rendered"
    /\ cache' = {entry \in cache : entry.shape # ShapeKey(Query(c))}
                \union {Entry(ShapeKey(Query(c)), held[c][1])}
    /\ Goto(c, "held")
    /\ UNCHANGED <<script, asked, answer, db, held>>

Run(c) ==
    /\ stage[c] = "held"
    /\ \E outcome \in Outcomes(Query(c), held[c][1], db) :
          /\ db' = outcome.db
          /\ Reply(c, Delivery(outcome.got))
    /\ UNCHANGED cache

Evict ==
    /\ Cardinality(cache) > Capacity
    /\ \E entry \in cache : cache' = cache \ {entry}
    /\ UNCHANGED <<script, asked, answer, db, stage, held>>

Call(c) == Submit(c) \/ Reject(c) \/ Hit(c) \/ Miss(c) \/ Render(c) \/ FailToRender(c)
           \/ Insert(c) \/ Run(c)
Next == Evict \/ \E c \in Callers : Call(c)
Spec == Init /\ [][Next]_vars

-----------------------------------------------------------------------------
(* Properties.                                                               *)

\* What a shape leaves out of a query never reaches its statement.
ShapesDecide(queries) ==
    \A p, q \in queries :
        Validity(p) = ok /\ Validity(q) = ok /\ ShapeKey(p) = ShapeKey(q)
        => Rendering(p) = Rendering(q)

\* A cached statement is the one every valid query of its shape would be rendered to, and a
\* lookup ends with the statement of its own query: the race of two misses, a hit on another
\* query's entry and an eviction in between make no difference (plan.rs, statement).
ServesOwnStatement ==
    /\ \A entry \in cache : \A q \in Queries :
          Validity(q) = ok /\ ShapeKey(q) = entry.shape
          => Rendering(q).error = ok /\ Rendering(q).statement = entry.statement
    /\ \A c \in Callers :
          stage[c] \in {"rendered", "held"}
          => /\ Validity(Query(c)) = ok /\ Rendering(Query(c)).error = ok
             /\ held[c] = Some(Rendering(Query(c)).statement)

\* What a query gets without a cache: it is validated, rendered and run as if alone.
DirectReplies(query, database) ==
    IF Validity(query) # ok THEN {[db |-> database, reply |-> Refusal(Validity(query))]}
    ELSE IF Rendering(query).error # ok
         THEN {[db |-> database, reply |-> Refusal(Rendering(query).error)]}
    ELSE {[db |-> outcome.db, reply |-> Delivery(outcome.got)] :
             outcome \in Outcomes(query, Rendering(query).statement, database)}

\* To its callers, the cache is not there (the promise of the executor's pipeline,
\* crates/jetorm-executor/src/lib.rs).
Direct == INSTANCE DirectExecution WITH Replies <- DirectReplies
RunsDirectly == Direct!Spec
==============================================================================
