----------------------------- MODULE PassManager -----------------------------
(***************************************************************************)
(* PassManager::run and run_to_fixed_point of                               *)
(* crates/afterburner/src/pass/manager.rs: an ordered pipeline of passes    *)
(* over one module, with verification, an analysis cache and observers.    *)
(* A pass is client code: between its start and its return it asks for     *)
(* analyses, edits and invalidates in any order.  It declares honestly: an *)
(* analysis it preserves rests on no fact any of its edits changed.        *)
(***************************************************************************)
EXTENDS AnalysisCache

CONSTANTS
    Modes,          \* how the manager is run: a verification policy and, for
                    \* run_to_fixed_point, an iteration limit
    Verdicts,       \* what the verifier may say of a module after an edit
    Passes,         \* number of passes in the pipeline
    MaxEdits,       \* bound: edits in one pipeline run
    MaxRequests     \* bound: requests and invalidations of one pass

ASSUME PipelineAssumption ==
    /\ Passes \in Nat /\ MaxEdits \in Nat /\ MaxRequests \in Nat
    /\ Verdicts \subseteq BOOLEAN
    /\ Modes \subseteq {"None", "InputAndOutput", "AfterEachPass"} \X (Nat \cup {-1})

VARIABLES
    policy,     \* VerificationPolicy
    limit,      \* the iteration limit, or -1 for a single run
    valid,      \* what verify_module would say of the module
    pc,         \* where run_internal is
    iteration,  \* complete iterations
    index,      \* passes completed in this iteration
    before,     \* revision before the running pass
    touched,    \* facts the running pass's edits changed
    requests,   \* requests of the running pass
    report,     \* the PipelineReport
    hooks       \* observer calls: passes begun and ended, pipelines ended

pipeVars == <<policy, limit, pc, iteration, index, before, report, hooks>>
vars == <<revision, facts, cacheVars, pipeVars, valid, touched, requests>>

Once == -1
Rounds == IF limit = Once THEN 1 ELSE limit

Init ==
    /\ revision = 0
    /\ facts = [a \in Analyses |-> 0]
    /\ entries = [a \in Analyses |-> NoEntry]
    /\ active = <<>>
    /\ invalidations = 0
    /\ answer = NoEntry
    /\ \E mode \in Modes : policy = mode[1] /\ limit = mode[2]
    /\ valid \in Verdicts
    /\ pc = "input"
    /\ iteration = 0
    /\ index = 0
    /\ before = 0
    /\ touched = {}
    /\ requests = 0
    /\ report = [first |-> 0, last |-> 0, iterations |-> 0, changed |-> FALSE,
                 runs |-> <<>>, termination |-> "none"]
    /\ hooks = [begun |-> 0, ended |-> 0, finished |-> 0, failed |-> 0]

-----------------------------------------------------------------------------
\* report.finish, and the observers' last call.
Finish(rep, termination) ==
    /\ report' = [rep EXCEPT !.last = revision, !.termination = termination]
    /\ pc' = "returned"

\* run_internal up to the first pass: the limit, then the input.
Open ==
    /\ pc = "input"
    /\ IF limit = 0 \/ (policy # "None" /\ ~valid)
       THEN /\ Finish(report, "Failed")
            /\ hooks' = [hooks EXCEPT !.failed = @ + 1]
       ELSE /\ pc' = "between"
            /\ UNCHANGED <<report, hooks>>
    /\ UNCHANGED <<revision, facts, cacheVars, policy, limit, valid, iteration,
                   index, before, touched, requests>>

\* The next pass of the iteration is called.
BeginPass ==
    /\ pc = "between"
    /\ index < Passes
    /\ pc' = "pass"
    /\ before' = revision
    /\ touched' = {}
    /\ requests' = 0
    /\ answer' = NoEntry
    /\ hooks' = [hooks EXCEPT !.begun = @ + 1]
    /\ UNCHANGED <<revision, facts, entries, active, invalidations, policy, limit, valid,
                   iteration, index, report>>

-----------------------------------------------------------------------------
(* The running pass.                                                       *)

InPass == pc = "pass" /\ active = <<>>

\* PassContext::analysis.
Ask(a) ==
    /\ InPass
    /\ requests < MaxRequests
    /\ requests' = requests + 1
    /\ Get(a)
    /\ UNCHANGED <<pipeVars, valid, touched>>

\* PassContext::invalidate and invalidate_all.
Drop(S) ==
    /\ InPass
    /\ requests < MaxRequests
    /\ requests' = requests + 1
    /\ Invalidate(S)
    /\ UNCHANGED <<revision, facts, active, answer, pipeVars, valid, touched>>

\* An edit through the editor: the revision advances, whether or not anything
\* an analysis reads has changed, and the module may become (in)valid.
Edit(changed, ok) ==
    /\ InPass
    /\ revision < MaxEdits
    /\ revision' = revision + 1
    /\ facts' = [a \in Analyses |-> IF a \in changed THEN revision' ELSE facts[a]]
    /\ touched' = touched \cup changed
    /\ valid' = ok
    /\ answer' = NoEntry
    /\ UNCHANGED <<entries, active, invalidations, pipeVars, requests>>

\* The analyses a pass may honestly declare preserved.
Honest == {a \in Analyses : Closure(a) \cap touched = {}}

\* The pass returns an error: its edits stay, the run ends.
PassFails ==
    /\ InPass
    /\ Finish(report, "Failed")
    /\ hooks' = [hooks EXCEPT !.failed = @ + 1]
    /\ UNCHANGED <<revision, facts, cacheVars, policy, limit, valid, iteration,
                   index, before, touched, requests>>

\* The pass returns: stale analyses go, the run is reported, and with the strict
\* policy a changed module is verified before the observers hear of it.
EndPass(preserved) ==
    LET changed == revision # before
        reported == [report EXCEPT !.changed = @ \/ changed, !.last = revision,
                                   !.runs = Append(@, <<before, revision>>)]
    IN
    /\ InPass
    /\ IF changed THEN InvalidateAfterChange(preserved) ELSE UNCHANGED <<entries, invalidations>>
    /\ IF changed /\ policy = "AfterEachPass" /\ ~valid
       THEN /\ Finish(reported, "Failed")
            /\ hooks' = [hooks EXCEPT !.failed = @ + 1]
            /\ UNCHANGED index
       ELSE /\ report' = reported
            /\ pc' = "between"
            /\ index' = index + 1
            /\ hooks' = [hooks EXCEPT !.ended = @ + 1]
    /\ UNCHANGED <<revision, facts, active, answer, policy, limit, valid,
                   iteration, before, touched, requests>>

-----------------------------------------------------------------------------
\* The runs of the iteration that just ended.
Iteration == SubSeq(report.runs, iteration * Passes + 1, (iteration + 1) * Passes)
Changed(runs) == \E i \in 1..Len(runs) : runs[i][1] # runs[i][2]

\* Mutant: the fixed point is judged by the last pass alone.
EndIterationLastPass ==
    /\ pc = "between"
    /\ index = Passes
    /\ LET settled == \/ limit = Once
                      \/ report.runs = <<>>
                      \/ ~Changed(<<report.runs[Len(report.runs)]>>)
           over == settled \/ iteration + 1 = Rounds
       IN /\ report' = [report EXCEPT !.iterations = @ + 1,
                          !.termination = IF limit = Once THEN "Completed"
                                          ELSE IF settled THEN "FixedPoint"
                                          ELSE IF over THEN "IterationLimit" ELSE @]
          /\ pc' = IF over THEN "output" ELSE "between"
    /\ iteration' = iteration + 1
    /\ index' = 0
    /\ UNCHANGED <<revision, facts, cacheVars, policy, limit, valid, before,
                   touched, requests, hooks>>

\* Every pass of the iteration ran: stop, or go round again.
EndIteration ==
    LET settled == limit # Once /\ ~Changed(Iteration)
        over == limit = Once \/ settled \/ iteration + 1 = Rounds
    IN
    /\ pc = "between"
    /\ index = Passes
    /\ report' = [report EXCEPT !.iterations = @ + 1,
                    !.termination = IF limit = Once THEN "Completed"
                                    ELSE IF settled THEN "FixedPoint"
                                    ELSE IF over THEN "IterationLimit" ELSE @]
    /\ pc' = IF over THEN "output" ELSE "between"
    /\ iteration' = iteration + 1
    /\ index' = 0
    /\ UNCHANGED <<revision, facts, cacheVars, policy, limit, valid, before,
                   touched, requests, hooks>>

\* Mutant: the output is verified when the last pass changed it.
CloseLastPassOnly ==
    /\ pc = "output"
    /\ IF /\ report.runs # <<>> /\ Changed(<<report.runs[Len(report.runs)]>>)
          /\ policy = "InputAndOutput" /\ ~valid
       THEN /\ Finish(report, "Failed")
            /\ hooks' = [hooks EXCEPT !.failed = @ + 1]
       ELSE /\ Finish(report, report.termination)
            /\ hooks' = [hooks EXCEPT !.finished = @ + 1]
    /\ UNCHANGED <<revision, facts, cacheVars, policy, limit, valid, iteration,
                   index, before, touched, requests>>

\* The output is verified when any pass changed it; then the run is over.
Close ==
    /\ pc = "output"
    /\ IF report.changed /\ policy = "InputAndOutput" /\ ~valid
       THEN /\ Finish(report, "Failed")
            /\ hooks' = [hooks EXCEPT !.failed = @ + 1]
       ELSE /\ Finish(report, report.termination)
            /\ hooks' = [hooks EXCEPT !.finished = @ + 1]
    /\ UNCHANGED <<revision, facts, cacheVars, policy, limit, valid, iteration,
                   index, before, touched, requests>>

-----------------------------------------------------------------------------
Step ==
    \/ Open
    \/ BeginPass
    \/ \E a \in Analyses : Ask(a) \/ Drop({a})
    \/ Drop(Analyses)
    \/ pc = "pass" /\ CacheStep /\ UNCHANGED <<pipeVars, valid, touched, requests>>
    \/ \E changed \in SUBSET Analyses, ok \in Verdicts : Edit(changed, ok)
    \/ PassFails
    \/ \E preserved \in SUBSET Honest : EndPass(preserved)
    \/ EndIteration
    \/ Close

Spec == Init /\ [][Step]_vars

\* The pipeline runs on one thread without waiting for anything: a started call
\* keeps taking steps until it returns.
FairSpec == Spec /\ WF_vars(Step)

-----------------------------------------------------------------------------
(* Properties of the pipeline.                                             *)

\* A run that returned Ok under a verifying policy leaves a valid module, also
\* when the verifier was never called on what the last pass left.
OkMeansVerified ==
    pc = "returned" /\ report.termination # "Failed" /\ policy # "None" => valid

\* The end a report names is the one the run had.
ReportIsHonest ==
    pc = "returned" /\ report.termination # "Failed" =>
       LET last == SubSeq(report.runs, (report.iterations - 1) * Passes + 1, Len(report.runs))
           start == IF last = <<>> THEN revision ELSE last[1][1] IN
       /\ report.termination = "FixedPoint" => start = revision
       /\ report.termination = "IterationLimit" =>
             start # revision /\ report.iterations = limit
       /\ report.changed <=> report.first # report.last
       /\ \A i \in 1..(Len(report.runs) - 1) : report.runs[i][2] = report.runs[i + 1][1]

\* FixedPoint is reported only when the last complete iteration changed nothing,
\* IterationLimit only when it did and was the last one allowed, and the report's
\* passes chain from the first revision to the last.  Observers hear of that one end and
\* no other, after_pass follows every before_pass of a run that succeeded, and at most one
\* pass is left open.
TerminationIsHonest ==
    /\ ReportIsHonest
    /\ pc = "returned" =>
          /\ hooks.finished + hooks.failed = 1
          /\ hooks.finished = 1 <=> report.termination # "Failed"
          /\ hooks.begun - hooks.ended \in IF hooks.finished = 1 THEN {0} ELSE {0, 1}

\* Every pipeline run returns: neither cyclic nor failing analyses nor a module
\* that keeps changing make it go on for ever.
RunReturns == <>(pc = "returned")

=============================================================================
