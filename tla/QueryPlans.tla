------------------------------ MODULE QueryPlans ------------------------------
(***************************************************************************)
(* The query pipeline behind the plan cache: the queries are programs of     *)
(* builder calls, their shapes, validity and statements those of the query   *)
(* modules, and their outcomes what the server makes of the statement the    *)
(* cache serves and the values of the query it serves it for.                *)
(***************************************************************************)
EXTENDS PlanCache, QueryMeaning

CONSTANTS
    Programs,   \* a sequence of programs
    Prepared    \* what becomes of each of them before it is run

Prepare(program) ==
    LET query == Build(program)
    IN  [program |-> program, query |-> query, shape |-> ShapeOf(query),
         validity |-> Validate(query), statement |-> RenderQuery(query)]
\* A shape and a statement are named by one of the programs that have them.
Named(made) ==
    LET same(a, b) == a.error = b.error /\ a = b
        alike(q) == CHOOSE p \in DOMAIN made : made[p].shape = made[q].shape
        agreeing(q) == CHOOSE p \in DOMAIN made : same(made[p].statement, made[q].statement)
    IN  Computed([q \in DOMAIN made |->
                     [program |-> made[q].program, query |-> made[q].query,
                      validity |-> made[q].validity, statement |-> made[q].statement,
                      shape_name |-> alike(q), statement_name |-> agreeing(q)]])
\* f(x), with x computed once.
Given(x, f(_)) == CHOOSE y \in {f(z) : z \in {x}} : TRUE
PreparedPrograms ==
    Given(Programs, LAMBDA programs :
        Given(Computed([q \in DOMAIN programs |-> Prepare(programs[q])]), Named))

AllQueries == DOMAIN Prepared
ValidityOf(q) == Prepared[q].validity
ShapeKeyOf(q) == Prepared[q].shape_name
RenderingOf(q) == [error |-> Prepared[q].statement.error, statement |-> Prepared[q].statement_name]
\* The server may choose the order that is not asked for.
OutcomesOf(q, statement, database) ==
    LET run(backwards) ==
            RunStatement(Prepared[q].query, Prepared[statement].statement, database, backwards)
        outcome(got) == [db |-> got.db, got |-> [got EXCEPT !.db = <<>>]]
    IN  {outcome(run(backwards)) : backwards \in BOOLEAN}

-----------------------------------------------------------------------------
(* Properties.                                                               *)

Answered(c) == asked[c] # None /\ answer[c] # None

\* A query that is run answers, and changes, what its calls mean: whatever its values were
\* numbered, whichever statement the cache kept, in whatever order the server likes its rows,
\* and through every cast, rename, derived table and NULL on the way (the crate docs of
\* jetorm-query and jetorm-executor).
AnswersWhatIsMeant ==
    [][\A c \in Callers :
          (stage[c] = "held" /\ stage'[c] = "idle")
          => Means(Prepared[Query(c)].program, db, [answer'[c][1].got[1] EXCEPT !.db = db'])]_vars

\* The builders refuse exactly the mistakes they document: nothing they accept lowers to IR the
\* verifier or the renderer refuses, and no mistake reaches the database, not even one whose
\* shape is cached (LoweringError in lowering.rs, statement in plan.rs).
RefusesOnlyMistakes ==
    \A c \in Callers :
        Answered(c) => (answer[c][1].refused # ok <=> Mistaken(Prepared[Query(c)].program))
==============================================================================
