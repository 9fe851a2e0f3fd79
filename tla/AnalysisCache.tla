---------------------------- MODULE AnalysisCache ----------------------------
(***************************************************************************)
(* The per-run cache of crates/afterburner/src/pass/analysis.rs.  An        *)
(* analysis may ask for others while it computes; get recurses through     *)
(* them, so each of its calls in progress is a frame of the stack active.  *)
(*                                                                         *)
(* What an analysis says is a function of the module.  Here the module has *)
(* one fact per analysis, which edits change; an analysis reads its own    *)
(* fact and the results of its dependencies, and its result is the set of   *)
(* facts it rests on, so a stale part of a result shows.                   *)
(***************************************************************************)
EXTENDS Integers, Sequences, FiniteSets

CONSTANTS
    Analyses,   \* analysis types
    Deps,       \* the analyses each one asks for, in order
    Fallible,   \* analyses whose own computation may fail
    Tolerant,   \* analyses that may go on without a dependency that failed
    NoEntry     \* no cached result; no answer

ASSUME DepsAssumption == Deps \in [Analyses -> Seq(Analyses)]
ASSUME FallibleAssumption == Fallible \subseteq Analyses /\ Tolerant \subseteq Analyses

VARIABLES
    revision,   \* Module::revision
    facts,      \* what the module says to each analysis
    entries,    \* cached results, each with the revision it is valid for
    active,     \* computations in progress, outermost first
    invalidations,  \* cached results discarded so far (hits and misses only
                    \* report what happened and are left out)
    answer      \* what the pass got for its last request, until it edits

cacheVars == <<entries, active, invalidations, answer>>

-----------------------------------------------------------------------------
\* Every analysis a's result is made from.
Closure(a) ==
    {b \in Analyses :
        \A S \in SUBSET Analyses :
           (a \in S /\ \A x \in S : \A i \in 1..Len(Deps[x]) : Deps[x][i] \in S) => b \in S}

\* What computing a now, from nothing, would return.
Fresh(a) == {<<b, facts[b]>> : b \in Closure(a)}

\* A result of a holds no fact the module no longer states, and every fact it
\* rests on unless an analysis on the way may go on without one.
IsFresh(a, value) ==
    /\ value \subseteq Fresh(a)
    /\ Closure(a) \cap Tolerant = {} => value = Fresh(a)

Current(a) == entries[a] # NoEntry /\ entries[a].revision = revision

OnStack(a) == \E i \in 1..Len(active) : active[i].of = a

Frame(a) == [of |-> a, todo |-> Deps[a], value |-> {<<a, facts[a]>>}, failed |-> FALSE]

Cached == {a \in Analyses : entries[a] # NoEntry}

-----------------------------------------------------------------------------
\* A get of a returns a result, or an error, to whoever asked: the innermost
\* computation still on the stack, or the pass.
Deliver(stack, a, ok, value) ==
    IF stack = <<>>
    THEN /\ active' = <<>>
         /\ answer' = [of |-> a, ok |-> ok, value |-> value]
    ELSE /\ active' = [stack EXCEPT ![Len(stack)] =
                         [of     |-> @.of,
                          todo   |-> Tail(@.todo),
                          value  |-> @.value \cup value,
                          failed |-> ~ok]]
         /\ UNCHANGED answer

\* Mutant: whatever is cached is served.
HitAnyRevision(a) ==
    /\ a \in Cached
    /\ Deliver(active, a, TRUE, entries[a].value)
    /\ UNCHANGED <<revision, facts, entries, invalidations>>

\* get, served from the cache.
Hit(a) ==
    /\ Current(a)
    /\ Deliver(active, a, TRUE, entries[a].value)
    /\ UNCHANGED <<revision, facts, entries, invalidations>>

\* get of an analysis that is already being computed: a dependency cycle.
Cycle(a) ==
    /\ ~Current(a)
    /\ OnStack(a)
    /\ Deliver(active, a, FALSE, {})
    /\ UNCHANGED <<revision, facts, entries, invalidations>>

\* get starts to compute.
Miss(a) ==
    /\ ~Current(a)
    /\ ~OnStack(a)
    /\ active' = Append(active, Frame(a))
    /\ UNCHANGED <<revision, facts, entries, invalidations, answer>>

Get(a) == Hit(a) \/ Cycle(a) \/ Miss(a)

-----------------------------------------------------------------------------
(* What the innermost computation does.                                    *)

Top == active[Len(active)]
Below == SubSeq(active, 1, Len(active) - 1)

\* A computation whose last dependency failed fails too, unless it may go on without.
Fails(f) == f.failed /\ f.of \notin Tolerant

\* It asks for its next dependency.
AskDependency ==
    /\ active # <<>>
    /\ ~Fails(Top)
    /\ Top.todo # <<>>
    /\ Get(Head(Top.todo))

\* It has all it asked for: get pops it, caches the result and returns it.
Complete ==
    /\ active # <<>>
    /\ ~Fails(Top)
    /\ Top.todo = <<>>
    /\ entries' = [entries EXCEPT ![Top.of] = [revision |-> revision, value |-> Top.value]]
    /\ Deliver(Below, Top.of, TRUE, Top.value)
    /\ UNCHANGED <<revision, facts, invalidations>>

\* Mutant: the failed computation is left on the stack.
AbandonWithoutPop ==
    /\ active # <<>>
    /\ Top.failed \/ Top.of \in Fallible
    /\ active' = [active EXCEPT ![Len(active)] = [Top EXCEPT !.failed = TRUE]]
    /\ UNCHANGED <<revision, facts, entries, invalidations, answer>>

\* It fails, by itself or because a dependency did: get pops it and caches
\* nothing; an older result of the same analysis stays.
Abandon ==
    /\ active # <<>>
    /\ Top.failed \/ Top.of \in Fallible
    /\ Deliver(Below, Top.of, FALSE, {})
    /\ UNCHANGED <<revision, facts, entries, invalidations>>

CacheStep == AskDependency \/ Complete \/ Abandon

-----------------------------------------------------------------------------
(* What a pass or the manager does to the cache.                           *)

\* invalidate: one analysis, or all of them (invalidate_all).
Invalidate(S) ==
    /\ entries' = [a \in Analyses |-> IF a \in S THEN NoEntry ELSE entries[a]]
    /\ invalidations' = invalidations + Cardinality(S \cap Cached)

\* invalidate_after_change: keep what is current, carry over what the pass
\* declared preserved, drop and count the rest.
InvalidateAfterChange(preserved) ==
    LET dropped == {a \in Cached : ~Current(a) /\ a \notin preserved} IN
    /\ entries' = [a \in Analyses |->
                     IF a \notin Cached \/ Current(a) THEN entries[a]
                     ELSE IF a \in dropped THEN NoEntry
                     ELSE [revision |-> revision, value |-> entries[a].value]]
    /\ invalidations' = invalidations + Cardinality(dropped)

-----------------------------------------------------------------------------
(* Properties of the cache.                                                *)

\* "Analysis requests after an edit never return stale results": what a pass was
\* answered since its last edit is made of what the module says now, through
\* every dependency that was served from the cache, and is complete when no
\* analysis it rests on goes on without a failed one.
AnswerIsFresh == answer # NoEntry /\ answer.ok => IsFresh(answer.of, answer.value)

=============================================================================
