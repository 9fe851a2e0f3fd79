--------------------------- MODULE PlanCacheProofs ---------------------------
(***************************************************************************)
(* Where shapes decide statements, the plan cache is not there: whatever the *)
(* queries, their shapes, their statements and the server are, every caller  *)
(* is served the statement of its own query, and the executor implements one *)
(* that renders every query anew.                                            *)
(***************************************************************************)
EXTENDS PlanCache, TLAPS

\* A variable with a value for each caller.
OfCallers(f) == f = [c \in Callers |-> f[c]]

\* What a caller has asked, by how far its lookup has come.
Asking(c) ==
    /\ script[c] \in Seq(Queries)
    /\ stage[c] \in Stages
    /\ stage[c] = "idle" => asked[c] = None \/ answer[c] # None
    /\ stage[c] # "idle" => /\ \E q \in Queries : asked[c] = Some(q)
                            /\ answer[c] = None
    /\ stage[c] \in {"missed", "rendered", "held"} => Validity(Query(c)) = ok
Held(c) ==
    stage[c] \in {"rendered", "held"} =>
        /\ Rendering(Query(c)).error = ok
        /\ held[c] = Some(Rendering(Query(c)).statement)
\* Every entry is what the valid queries of its shape are rendered to.
Serves(entry) ==
    \A q \in Queries :
        Validity(q) = ok /\ ShapeKey(q) = entry.shape
        => Rendering(q).error = ok /\ Rendering(q).statement = entry.statement

Functional ==
    OfCallers(script) /\ OfCallers(asked) /\ OfCallers(answer) /\ OfCallers(stage) /\ OfCallers(held)
CacheInv ==
    /\ Functional
    /\ \A c \in Callers : Asking(c) /\ Held(c)
    /\ \A entry \in cache : Serves(entry)

LEMMA Options ==
    /\ \A x : Some(x) # None
    /\ \A x : Some(x)[1] = x
    /\ \A x, y : Some(x) = Some(y) => x = y
  BY DEF Some, None

LEMMA CacheInit == Init => CacheInv
<1> SUFFICES ASSUME Init PROVE CacheInv
  OBVIOUS
<1>1. script \in [Callers -> Seq(Queries)]
  BY ScriptsAssumption DEF Init
<1>2. Functional
  BY <1>1 DEF Init, Functional, OfCallers
<1>3. \A c \in Callers : Asking(c) /\ Held(c)
  BY <1>1 DEF Init, Asking, Held, Stages
<1> QED BY <1>2, <1>3 DEF Init, CacheInv

\* What a step that concerns one caller leaves alone.
LEMMA OthersKeep ==
  ASSUME CacheInv, NEW c \in Callers,
         Functional',
         \A d \in Callers \ {c} : /\ script'[d] = script[d] /\ asked'[d] = asked[d]
                                  /\ answer'[d] = answer[d] /\ stage'[d] = stage[d]
                                  /\ held'[d] = held[d],
         Asking(c)', Held(c)',
         \A entry \in cache' : Serves(entry)
  PROVE  CacheInv'
<1>1. ASSUME NEW d \in Callers, d # c PROVE Asking(d)' /\ Held(d)'
  BY <1>1 DEF CacheInv, Asking, Held, Query
<1> QED BY <1>1 DEF CacheInv, Serves

LEMMA SubmitKeeps ==
  ASSUME CacheInv, NEW c \in Callers, Submit(c)
  PROVE  CacheInv'
<1>1. script[c] \in Seq(Queries) /\ script[c] # <<>>
  BY DEF CacheInv, Asking, Submit
<1>2. Head(script[c]) \in Queries /\ Tail(script[c]) \in Seq(Queries)
  BY <1>1
<1>3. Functional'
  BY DEF CacheInv, Functional, OfCallers, Submit, Goto
<1>4. /\ script'[c] = Tail(script[c]) /\ asked'[c] = Some(Head(script[c]))
      /\ answer'[c] = None /\ stage'[c] = "submitted"
  BY DEF CacheInv, Functional, OfCallers, Submit, Goto
<1>5. Asking(c)' /\ Held(c)'
  BY <1>2, <1>4 DEF Asking, Held, Stages
<1>6. \A d \in Callers \ {c} : /\ script'[d] = script[d] /\ asked'[d] = asked[d]
                               /\ answer'[d] = answer[d] /\ stage'[d] = stage[d]
                               /\ held'[d] = held[d]
  BY DEF CacheInv, Functional, OfCallers, Submit, Goto
<1> QED BY <1>3, <1>5, <1>6, OthersKeep DEF CacheInv, Submit

\* A caller that is answered, with whatever, is idle again.
LEMMA ReplyKeeps ==
  ASSUME CacheInv, NEW c \in Callers, NEW reply, Reply(c, reply), cache' = cache
  PROVE  CacheInv'
<1>1. Functional'
  BY DEF CacheInv, Functional, OfCallers, Reply, Goto
<1>2. /\ script'[c] = script[c] /\ answer'[c] = Some(reply) /\ stage'[c] = "idle"
  BY DEF CacheInv, Functional, OfCallers, Reply, Goto
<1>3. Asking(c)' /\ Held(c)'
  BY <1>2, Options DEF CacheInv, Asking, Held, Stages
<1>4. \A d \in Callers \ {c} : /\ script'[d] = script[d] /\ asked'[d] = asked[d]
                               /\ answer'[d] = answer[d] /\ stage'[d] = stage[d]
                               /\ held'[d] = held[d]
  BY DEF CacheInv, Functional, OfCallers, Reply, Goto
<1> QED BY <1>1, <1>3, <1>4, OthersKeep DEF CacheInv

\* A caller whose lookup goes on, with a statement that is its query's once it needs one.
LEMMA LookupKeeps ==
  ASSUME CacheInv, NEW c \in Callers, NEW next \in Stages \ {"idle", "submitted"},
         stage[c] # "idle", Validity(Query(c)) = ok, Goto(c, next),
         UNCHANGED <<script, asked, answer>>,
         OfCallers(held)', \A d \in Callers \ {c} : held'[d] = held[d],
         next # "missed" => /\ Rendering(Query(c)).error = ok
                            /\ held'[c] = Some(Rendering(Query(c)).statement),
         \A entry \in cache' : Serves(entry)
  PROVE  CacheInv'
<1>1. Functional'
  BY DEF CacheInv, Functional, OfCallers, Goto
<1>2. stage'[c] = next /\ \A d \in Callers \ {c} : stage'[d] = stage[d]
  BY DEF CacheInv, Functional, OfCallers, Goto
<1>3. Asking(c)' /\ Held(c)'
  BY <1>2 DEF CacheInv, Asking, Held, Query, Stages
<1> QED BY <1>1, <1>2, <1>3, OthersKeep

LEMMA CacheStep ==
  ASSUME ShapesDecide(Queries), CacheInv, [Next]_vars
  PROVE  CacheInv'
<1>1. CASE UNCHANGED vars
  BY <1>1 DEF vars, CacheInv, Functional, OfCallers, Asking, Held, Query, Serves
<1>2. CASE Evict
  BY <1>2 DEF Evict, CacheInv, Functional, OfCallers, Asking, Held, Query, Serves
<1>3. ASSUME NEW c \in Callers, Call(c) PROVE CacheInv'
  <2> DEFINE q == Query(c)
  <2>0. OfCallers(held) /\ \A entry \in cache : Serves(entry)
    BY DEF CacheInv, Functional
  <2>1. CASE Submit(c)
    BY <2>1, SubmitKeeps
  <2>2. CASE Reject(c)
    BY <2>2, ReplyKeeps DEF Reject
  <2>3. CASE Hit(c)
    <3>1. stage[c] # "idle" /\ Validity(q) = ok
      BY <2>3 DEF Hit
    <3>2. q \in Queries
      BY <3>1, Options DEF CacheInv, Asking, Query
    <3>3. PICK entry \in cache : /\ entry.shape = ShapeKey(q)
                                 /\ held' = [held EXCEPT ![c] = Some(entry.statement)]
      BY <2>3 DEF Hit
    <3>4. Rendering(q).error = ok /\ Rendering(q).statement = entry.statement
      BY <3>1, <3>2, <3>3, <2>0 DEF Serves
    <3>5. /\ OfCallers(held)' /\ held'[c] = Some(entry.statement)
          /\ \A d \in Callers \ {c} : held'[d] = held[d]
      BY <2>0, <3>3 DEF OfCallers
    <3> QED BY <2>3, <2>0, <3>1, <3>4, <3>5, LookupKeeps DEF Hit, Stages
  <2>4. CASE Miss(c)
    BY <2>4, <2>0, LookupKeeps DEF Miss, Stages, OfCallers
  <2>5. CASE Render(c)
    <3>1. stage[c] # "idle" /\ Validity(q) = ok
      BY <2>5 DEF Render, CacheInv, Asking
    <3>2. /\ OfCallers(held)' /\ held'[c] = Some(Rendering(q).statement)
          /\ \A d \in Callers \ {c} : held'[d] = held[d]
      BY <2>0, <2>5 DEF OfCallers, Render
    <3> QED BY <2>5, <2>0, <3>1, <3>2, LookupKeeps DEF Render, Stages
  <2>6. CASE FailToRender(c)
    BY <2>6, ReplyKeeps DEF FailToRender
  <2>7. CASE Insert(c)
    <3>1. stage[c] = "rendered" /\ Validity(q) = ok /\ q \in Queries
      BY <2>7, Options DEF Insert, CacheInv, Asking, Query
    <3>2. Rendering(q).error = ok /\ held[c] = Some(Rendering(q).statement)
      BY <3>1 DEF CacheInv, Held
    <3>3. Serves(Entry(ShapeKey(q), held[c][1]))
      BY <3>1, <3>2, Options DEF Serves, Entry, ShapesDecide
    <3>4. \A entry \in cache' : Serves(entry)
      BY <2>7, <2>0, <3>3 DEF Insert
    <3> QED BY <2>7, <2>0, <3>1, <3>2, <3>4, LookupKeeps DEF Insert, Stages, OfCallers
  <2>8. CASE Run(c)
    BY <2>8, ReplyKeeps DEF Run
  <2> QED BY <1>3, <2>1, <2>2, <2>3, <2>4, <2>5, <2>6, <2>7, <2>8 DEF Call
<1> QED BY <1>1, <1>2, <1>3 DEF Next

\* Where no query's statement depends on what its shape leaves out, whatever callers race for
\* the cache and whenever it evicts, a lookup ends with the statement of its own query.
THEOREM OwnStatementServed ==
  ASSUME ShapesDecide(Queries)
  PROVE  Spec => []ServesOwnStatement
<1>1. CacheInv => ServesOwnStatement
  BY DEF CacheInv, ServesOwnStatement, Serves, Asking, Held
<1> QED BY <1>1, CacheInit, CacheStep, PTL DEF Spec

-----------------------------------------------------------------------------
LEMMA AnswersDirectly ==
  ASSUME NEW c \in Callers, NEW outcome \in DirectReplies(Query(c), db),
         Reply(c, outcome.reply), db' = outcome.db, asked[c] # None, answer[c] = None
  PROVE  Direct!Answer(c)
  BY DEF Direct!Answer, Reply, Query, Direct!None, Direct!Some, None, Some

LEMMA DirectStep ==
  ASSUME CacheInv, [Next]_vars
  PROVE  [Direct!Next]_(Direct!vars)
<1>1. CASE UNCHANGED vars \/ Evict
  BY <1>1 DEF vars, Evict, Direct!vars
<1>2. ASSUME NEW c \in Callers, Call(c) PROVE [Direct!Next]_(Direct!vars)
  <2> DEFINE q == Query(c)
  <2>1. stage[c] # "idle" => asked[c] # None /\ answer[c] = None
    BY Options DEF CacheInv, Asking
  <2>2. CASE Submit(c)
    <3>1. asked[c] = None \/ answer[c] # None
      BY <2>2 DEF Submit, CacheInv, Asking
    <3>2. Direct!Submit(c)
      BY <2>2, <3>1 DEF Submit, Direct!Submit, Direct!None, Direct!Some, None, Some
    <3> QED BY <3>2 DEF Direct!Next
  <2>3. CASE Reject(c)
    <3> DEFINE outcome == [db |-> db, reply |-> Refusal(Validity(q))]
    <3>1. outcome \in DirectReplies(q, db)
      BY <2>3 DEF Reject, DirectReplies
    <3>2. Direct!Answer(c)
      BY <2>3, <2>1, <3>1, AnswersDirectly DEF Reject
    <3> QED BY <3>2 DEF Direct!Next
  <2>4. CASE Hit(c) \/ Miss(c) \/ Render(c) \/ Insert(c)
    BY <2>4 DEF Hit, Miss, Render, Insert, Direct!vars
  <2>5. CASE FailToRender(c)
    <3> DEFINE outcome == [db |-> db, reply |-> Refusal(Rendering(q).error)]
    <3>1. Validity(q) = ok
      BY <2>5 DEF FailToRender, CacheInv, Asking
    <3>2. outcome \in DirectReplies(q, db)
      BY <2>5, <3>1 DEF FailToRender, DirectReplies
    <3>3. Direct!Answer(c)
      BY <2>5, <2>1, <3>2, AnswersDirectly DEF FailToRender
    <3> QED BY <3>3 DEF Direct!Next
  <2>6. CASE Run(c)
    <3>1. /\ Validity(q) = ok /\ Rendering(q).error = ok
          /\ held[c][1] = Rendering(q).statement
      BY <2>6, Options DEF Run, CacheInv, Asking, Held
    <3>2. PICK run \in Outcomes(q, held[c][1], db) :
             db' = run.db /\ Reply(c, Delivery(run.got))
      BY <2>6 DEF Run
    <3> DEFINE outcome == [db |-> run.db, reply |-> Delivery(run.got)]
    <3>3. outcome \in DirectReplies(q, db)
      BY <3>1, <3>2 DEF DirectReplies
    <3>4. Direct!Answer(c)
      BY <2>6, <2>1, <3>2, <3>3, AnswersDirectly DEF Run
    <3> QED BY <3>4 DEF Direct!Next
  <2> QED BY <1>2, <2>2, <2>3, <2>4, <2>5, <2>6 DEF Call
<1> QED BY <1>1, <1>2 DEF Next

\* And so the cache is not there: what callers see is what an executor does that validates,
\* renders and runs every query in one step of its own.
THEOREM CacheImplementsDirect ==
  ASSUME ShapesDecide(Queries)
  PROVE  Spec => RunsDirectly
<1>1. Init => Direct!Init
  BY DEF Init, Direct!Init, Direct!None, None
<1> QED BY <1>1, CacheInit, CacheStep, DirectStep, PTL DEF Spec, RunsDirectly, Direct!Spec
==============================================================================
