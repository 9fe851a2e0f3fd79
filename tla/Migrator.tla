------------------------------ MODULE Migrator ------------------------------
(***************************************************************************)
(* The migration runtime of crates/jetorm-migration: several processes     *)
(* ("runners": a CLI invocation, an application migrating at start-up)     *)
(* call the Migrator against one PostgreSQL database.  Every await of the  *)
(* code is a step of its own, so other runners, crashes and lost answers   *)
(* come between any two statements.  What a transaction has done so far is *)
(* private to its runner until Commit; the history table's primary key and *)
(* the locks of its rows are the database's only arbitration.              *)
(*                                                                         *)
(* A version is a number, ordered as MigrationSet sorts it.  A foreign key *)
(* a migration's up steps add is named in FkOf; the rest of its steps is   *)
(* the one fact that they are in force or not, counted in net.             *)
(***************************************************************************)
EXTENDS Integers, FiniteSets

CONSTANTS
    Runners,        \* processes that call the migrator
    Versions,       \* every version any runner's files contain
    Fks,            \* foreign keys the migrations add
    SetOf,          \* the versions each runner loaded (its MigrationSet)
    KindsOf,        \* the methods each runner calls
    FkOf,           \* foreign keys a version's up steps add
    Reversible,     \* versions that declare down steps
    Unrenderable,   \* versions with an up, or down, step no dialect renders
    StageUnsafe,    \* versions renaming or dropping after a staged constraint
    Destructive,    \* versions with a destructive up step
    Counts,         \* values of the count argument
    MaxCalls,       \* bound: calls per runner
    Stamps          \* what the clocks of the runners may read, in any order

Kinds == {"up", "upVersions", "upStaged", "down", "validate"}

ASSUME VersionsAssumption == Versions \subseteq Nat /\ IsFiniteSet(Versions)
ASSUME SetOfAssumption == SetOf \in [Runners -> SUBSET Versions]
ASSUME KindsAssumption == KindsOf \in [Runners -> SUBSET Kinds]
ASSUME FkAssumption == FkOf \in [Versions -> SUBSET Fks]
ASSUME RenderAssumption == Unrenderable \in [{"up", "down"} -> SUBSET Versions]
ASSUME CountAssumption == Counts \subseteq Nat /\ MaxCalls \in Nat
ASSUME StampAssumption == Stamps \subseteq Nat

VARIABLES
    installed,  \* the history table exists
    history,    \* committed rows of the history table: recorded versions
    appliedAt,  \* their applied_at column (0 where there is no row)
    net,        \* times a version's up steps are in force in the schema
    fk,         \* each foreign key: absent, enforced for new rows, or valid
    dirty,      \* foreign keys that existing rows violate
    run         \* each runner's call in progress

dbVars == <<installed, history, appliedAt, net, fk, dirty>>
vars == <<dbVars, run>>

-----------------------------------------------------------------------------
Results == {"none", "ok", "database", "unknown", "stale", "refused", "render",
            "irreversible", "validation", "crashed"}

PCs == {"idle", "install", "create", "review", "read", "catalog", "next",
        "steps", "record", "commit", "deferred"}

Call == [pc: PCs, kind: Kinds, count: Nat, plan: SUBSET Versions,
         todo: SUBSET Versions, seen: [Versions -> Nat], cur: Versions \cup {-1},
         stamp: Nat, hit: BOOLEAN, deferred: SUBSET Fks, failures: SUBSET Fks,
         owed: SUBSET Fks, done: SUBSET Versions, result: Results, calls: Nat]

Idle == [pc |-> "idle", kind |-> "up", count |-> 0, plan |-> {}, todo |-> {},
         seen |-> [v \in Versions |-> 0], cur |-> -1, stamp |-> 0, hit |-> FALSE,
         deferred |-> {}, failures |-> {}, owed |-> {}, done |-> {},
         result |-> "none", calls |-> 0]

TypeOK ==
    /\ installed \in BOOLEAN
    /\ history \in SUBSET Versions
    /\ appliedAt \in [Versions -> Nat]
    /\ net \in [Versions -> Int]
    /\ fk \in [Fks -> {"absent", "notvalid", "valid"}]
    /\ dirty \in SUBSET Fks
    /\ run \in [Runners -> Call]

Init ==
    /\ installed = FALSE
    /\ history = {}
    /\ appliedAt = [v \in Versions |-> 0]
    /\ net = [v \in Versions |-> 0]
    /\ fk = [f \in Fks |-> "absent"]
    /\ dirty \in SUBSET Fks
    /\ run = [r \in Runners |-> Idle]

-----------------------------------------------------------------------------
(* What the code computes from one read of the history.                    *)

Pending(r) == SetOf[r] \ history

\* Mutant: the last n of the pending versions instead of the first.
TrailingNotLeading(S, n) == {v \in S : Cardinality({u \in S : u > v}) < n}

\* pending.into_iter().take(n): the n lowest versions of a set.
Leading(S, n) == {v \in S : Cardinality({u \in S : u < v}) < n}

\* ORDER BY applied_at, version: u comes after v.
After(u, v, at) == at[v] < at[u] \/ (at[v] = at[u] /\ v < u)

\* applied.into_iter().rev().take(n)
Newest(S, at, n) == {v \in S : Cardinality({u \in S : After(u, v, at)}) < n}

\* Mutant: a count above one applies the highest version first.
IsNextHighest(r, v) == v \in run[r].todo /\ \A u \in run[r].todo : u <= v

\* The version the loop of up, up_versions or down reaches next.
IsNext(r, v) ==
    /\ v \in run[r].todo
    /\ \A u \in run[r].todo \ {v} :
          IF run[r].kind = "down" THEN After(v, u, run[r].seen) ELSE v < u

Vetted(r) == run[r].kind \in {"upVersions", "upStaged"}
Reverting(r) == run[r].kind = "down"
Direction(r) == IF Reverting(r) THEN "down" ELSE "up"

\* Foreign keys in the schema whose existing rows were never checked.
NotValid == {f \in Fks : fk[f] = "notvalid"}

\* What runner r's open transaction holds: the locks its up or down steps took
\* on the foreign key's tables, and an uncommitted change of a history row.
HoldsLock(r, f) == run[r].pc \in {"record", "commit"} /\ f \in FkOf[run[r].cur]
HoldsRow(r, v) ==
    /\ run[r].pc = "commit"
    /\ run[r].cur = v
    /\ Reverting(r) => run[r].hit

-----------------------------------------------------------------------------
Goto(r, pc) == run' = [run EXCEPT ![r].pc = pc]

Return(r, result) ==
    run' = [run EXCEPT ![r] = [@ EXCEPT !.pc = "idle", !.todo = {}, !.deferred = {},
                                        !.cur = -1, !.result = result]]

\* A caller starts one method.  What the last call left behind is gone.  owed is
\* no state of the code: it remembers the foreign keys this call is to validate.
Start(r, k, c) ==
    /\ run[r].pc = "idle"
    /\ run[r].calls < MaxCalls
    /\ run' = [run EXCEPT ![r] =
                 [Idle EXCEPT !.pc = IF k = "validate" THEN "catalog" ELSE "install",
                              !.kind = k, !.count = c, !.calls = run[r].calls + 1,
                              !.owed = IF k = "validate" THEN NotValid ELSE {}]]
    /\ UNCHANGED dbVars

\* The first statement after install: a reviewed call plans first.
AfterInstall(r) == IF Vetted(r) THEN "review" ELSE "read"

\* install, first statement: does the history table exist?
HistoryExists(r) ==
    /\ run[r].pc = "install"
    /\ Goto(r, IF installed THEN AfterInstall(r) ELSE "create")
    /\ UNCHANGED dbVars

\* install, second statement: CREATE TABLE, which fails when it exists by now.
\* Later calls of install find the table and change nothing.
CreateHistory(r) ==
    /\ run[r].pc = "create"
    /\ \/ /\ ~installed
          /\ installed' = TRUE
          /\ Goto(r, AfterInstall(r))
       \/ /\ installed
          /\ Return(r, "database")
          /\ UNCHANGED installed
    /\ UNCHANGED <<history, appliedAt, net, fk, dirty>>

Interpretable(r) == history \subseteq SetOf[r]

\* status, and so pending and down, refuse a version the set does not contain.
UnknownVersion(r) ==
    /\ run[r].pc \in {"review", "read"}
    /\ ~Interpretable(r)
    /\ Return(r, "unknown")
    /\ UNCHANGED dbVars

\* `jet migrate up`: read the pending set, show it, refuse destructive steps
\* that were not allowed, and keep exactly the versions that were vetted.
Review(r, allowDestructive) ==
    LET planned == Leading(Pending(r), run[r].count) IN
    /\ run[r].pc = "review"
    /\ Interpretable(r)
    /\ CASE planned = {} -> Return(r, "ok")
         [] planned # {} /\ planned \cap Destructive # {} /\ ~allowDestructive ->
              Return(r, "refused")
         [] OTHER ->
              run' = [run EXCEPT ![r] = [@ EXCEPT !.pc = "read", !.plan = planned]]
    /\ UNCHANGED dbVars

\* up: what is pending now, cut to the count.
ReadUp(r) ==
    /\ run[r].pc = "read"
    /\ run[r].kind = "up"
    /\ Interpretable(r)
    /\ run' = [run EXCEPT ![r] = [@ EXCEPT !.pc = "next",
                                   !.todo = Leading(Pending(r), run[r].count)]]
    /\ UNCHANGED dbVars

\* up_versions(_staged): the vetted versions must still lead the pending set.
ReadVetted(r) ==
    LET planned == run[r].plan IN
    /\ run[r].pc = "read"
    /\ Vetted(r)
    /\ Interpretable(r)
    /\ IF run[r].kind = "upStaged" /\ Pending(r) \cap StageUnsafe # {}
       THEN Return(r, "refused")
       ELSE IF planned # Leading(Pending(r), Cardinality(planned))
       THEN Return(r, "stale")
       ELSE run' = [run EXCEPT ![r] = [@ EXCEPT !.pc = "next", !.todo = planned]]
    /\ UNCHANGED dbVars

\* Mutant: the last count versions of the set, recorded or not.
ReadDownFromSet(r) ==
    /\ run[r].pc = "read"
    /\ Reverting(r)
    /\ Interpretable(r)
    /\ run' = [run EXCEPT ![r] = [@ EXCEPT !.pc = "next", !.seen = appliedAt,
                                   !.todo = Newest(SetOf[r], appliedAt, run[r].count)]]
    /\ UNCHANGED dbVars

\* down: the last count rows of the history, in the order the rows had now.
ReadDown(r) ==
    /\ run[r].pc = "read"
    /\ Reverting(r)
    /\ Interpretable(r)
    /\ run' = [run EXCEPT ![r] = [@ EXCEPT !.pc = "next", !.seen = appliedAt,
                                   !.todo = Newest(history, appliedAt, run[r].count)]]
    /\ UNCHANGED dbVars

-----------------------------------------------------------------------------
(* apply_staged and revert, one transaction for each version of the loop.  *)

\* The loop of a call is over: everything it set out to do is done.
LoopDone(r) ==
    /\ run[r].pc = "next"
    /\ run[r].todo = {}
    /\ Return(r, "ok")
    /\ UNCHANGED dbVars

\* Render the next version's steps and begin its transaction.
Begin(r) ==
    /\ run[r].pc = "next"
    /\ \E v \in Versions :
          /\ IsNext(r, v)
          /\ CASE Reverting(r) /\ v \notin Reversible -> Return(r, "irreversible")
               [] (Reverting(r) => v \in Reversible) /\ v \in Unrenderable[Direction(r)] ->
                    Return(r, "render")
               [] OTHER -> run' = [run EXCEPT ![r] = [@ EXCEPT !.pc = "steps", !.cur = v]]
    /\ UNCHANGED dbVars

\* The database accepts every step.  Adding a foreign key waits for the locks
\* of another runner's, and without staging it checks the rows there are.
Steps(r) ==
    LET v == run[r].cur IN
    /\ run[r].pc = "steps"
    /\ \A f \in FkOf[v] :
          /\ \A o \in Runners \ {r} : ~HoldsLock(o, f)
          /\ Reverting(r) => fk[f] # "absent"
          /\ ~Reverting(r) => fk[f] = "absent"
          /\ run[r].kind \in {"up", "upVersions"} => f \notin dirty
    /\ Goto(r, "record")
    /\ UNCHANGED dbVars

\* Mutant: INSERT .. ON CONFLICT DO NOTHING: a row that is there is no error.
InsertHistoryIdempotent(r) ==
    /\ run[r].pc = "record"
    /\ ~Reverting(r)
    /\ \A o \in Runners \ {r} : ~HoldsRow(o, run[r].cur)
    /\ \E s \in Stamps : run' = [run EXCEPT ![r] = [@ EXCEPT !.pc = "commit", !.stamp = s]]
    /\ UNCHANGED dbVars

\* INSERT of the history row: waits for another transaction's uncommitted
\* change of the same row, then fails on the primary key or takes the row.
InsertHistory(r) ==
    LET v == run[r].cur IN
    /\ run[r].pc = "record"
    /\ ~Reverting(r)
    /\ \A o \in Runners \ {r} : ~HoldsRow(o, v)
    /\ \/ /\ v \in history
          /\ Return(r, "database")
       \/ /\ v \notin history
          /\ \E s \in Stamps : run' = [run EXCEPT ![r] = [@ EXCEPT !.pc = "commit", !.stamp = s]]
    /\ UNCHANGED dbVars

\* DELETE of the history row: how many rows it affected is never looked at.
DeleteHistory(r) ==
    LET v == run[r].cur IN
    /\ run[r].pc = "record"
    /\ Reverting(r)
    /\ \A o \in Runners \ {r} : ~(HoldsRow(o, v) /\ Reverting(o))
    /\ run' = [run EXCEPT ![r] = [@ EXCEPT !.pc = "commit", !.hit = v \in history]]
    /\ UNCHANGED dbVars

\* The transaction of runner r becomes durable, as a whole.
CommitApply(r) ==
    LET v == run[r].cur IN
    /\ history' = history \cup {v}
    /\ appliedAt' = [appliedAt EXCEPT ![v] = run[r].stamp]
    /\ net' = [net EXCEPT ![v] = @ + 1]
    /\ fk' = [f \in Fks |-> IF f \notin FkOf[v] THEN fk[f]
                            ELSE IF run[r].kind = "upStaged" THEN "notvalid" ELSE "valid"]

\* Mutant: the down steps run but the history row stays.
CommitRevertKeepsRow(r) ==
    LET v == run[r].cur IN
    /\ net' = [net EXCEPT ![v] = @ - 1]
    /\ fk' = [f \in Fks |-> IF f \in FkOf[v] THEN "absent" ELSE fk[f]]
    /\ UNCHANGED <<history, appliedAt>>

CommitRevert(r) ==
    LET v == run[r].cur IN
    /\ history' = IF run[r].hit THEN history \ {v} ELSE history
    /\ appliedAt' = IF run[r].hit THEN [appliedAt EXCEPT ![v] = 0] ELSE appliedAt
    /\ net' = [net EXCEPT ![v] = @ - 1]
    /\ fk' = [f \in Fks |-> IF f \in FkOf[v] THEN "absent" ELSE fk[f]]

Durable(r) ==
    /\ run[r].pc = "commit"
    /\ IF Reverting(r) THEN CommitRevert(r) ELSE CommitApply(r)
    /\ UNCHANGED <<installed, dirty>>

\* The version leaves the work list and joins the versions to report.
Finished(r) == [run[r] EXCEPT !.pc = "next", !.todo = @ \ {run[r].cur},
                              !.done = @ \cup {run[r].cur}, !.cur = -1]

\* The commit is acknowledged.  A staged migration validates next.
Commit(r) ==
    /\ Durable(r)
    /\ run' = [run EXCEPT ![r] =
                 IF run[r].kind = "upStaged"
                 THEN [@ EXCEPT !.pc = "deferred", !.deferred = FkOf[run[r].cur],
                                !.owed = run[r].owed \cup FkOf[run[r].cur]]
                 ELSE Finished(r)]

\* The commit took effect but its answer was lost: the caller sees an error.
CommitUnheard(r) ==
    /\ Durable(r)
    /\ Return(r, "database")

-----------------------------------------------------------------------------
(* Constraint validation, each in a statement of its own.                  *)

\* validate_pending_constraints: which constraints are still not validated?
ReadCatalog(r) ==
    /\ run[r].pc = "catalog"
    /\ run' = [run EXCEPT ![r] = [@ EXCEPT !.pc = "deferred", !.deferred = NotValid]]
    /\ UNCHANGED dbVars

\* The rows would pass the check, if the constraint is still there.
Validatable(f) == fk[f] # "absent" /\ f \notin dirty

Unlocked(f) == \A o \in Runners : ~HoldsLock(o, f)

\* VALIDATE CONSTRAINT succeeds.  If its answer is lost the call counts a failure.
Validate(r, f) ==
    /\ run[r].pc = "deferred"
    /\ f \in run[r].deferred
    /\ Unlocked(f)
    /\ Validatable(f)
    /\ fk' = [fk EXCEPT ![f] = "valid"]
    /\ \/ run' = [run EXCEPT ![r].deferred = @ \ {f}]
       \/ run' = [run EXCEPT ![r].deferred = @ \ {f}, ![r].failures = @ \cup {f}]
    /\ UNCHANGED <<installed, history, appliedAt, net, dirty>>

\* Mutant: a failed validation is tried again until it succeeds.
ValidateUntilItHolds(r, f) ==
    /\ run[r].pc = "deferred"
    /\ f \in run[r].deferred
    /\ UNCHANGED vars

\* VALIDATE CONSTRAINT fails, on a row, a missing constraint or a broken
\* connection: the failure is collected by name and the rest still runs.
FailValidation(r, f) ==
    /\ run[r].pc = "deferred"
    /\ f \in run[r].deferred
    /\ run' = [run EXCEPT ![r].deferred = @ \ {f}, ![r].failures = @ \cup {f}]
    /\ UNCHANGED dbVars

\* Mutant: the collected failures are dropped.
ValidationDoneUnreported(r) ==
    /\ run[r].pc = "deferred"
    /\ run[r].deferred = {}
    /\ IF run[r].kind = "validate" THEN Return(r, "ok")
       ELSE run' = [run EXCEPT ![r] = Finished(r)]
    /\ UNCHANGED dbVars

\* Mutant: the first failure ends the call.
ValidationDoneAtFirstFailure(r) ==
    /\ run[r].pc = "deferred"
    /\ run[r].deferred = {} \/ run[r].failures # {}
    /\ CASE run[r].failures # {} -> Return(r, "validation")
         [] run[r].failures = {} /\ run[r].kind = "validate" -> Return(r, "ok")
         [] OTHER -> run' = [run EXCEPT ![r] = Finished(r)]
    /\ UNCHANGED dbVars

\* Every validation was tried: report the failures, or go on.
ValidationDone(r) ==
    /\ run[r].pc = "deferred"
    /\ run[r].deferred = {}
    /\ CASE run[r].failures # {} -> Return(r, "validation")
         [] run[r].failures = {} /\ run[r].kind = "validate" -> Return(r, "ok")
         [] OTHER -> run' = [run EXCEPT ![r] = Finished(r)]
    /\ UNCHANGED dbVars

-----------------------------------------------------------------------------
(* Failures and the database's other users.                                *)

\* A statement is rejected or the connection breaks.  An open transaction
\* rolls back: nothing of it was visible and nothing of it remains.
DatabaseError(r) ==
    /\ run[r].pc \notin {"idle", "deferred"}
    /\ Return(r, "database")
    /\ UNCHANGED dbVars

\* The process dies.  The server rolls its open transaction back.
Crash(r) ==
    /\ run[r].pc # "idle"
    /\ Return(r, "crashed")
    /\ UNCHANGED dbVars

\* Applications write rows a foreign key would refuse, while it is absent.
WriteRows(f) ==
    /\ fk[f] = "absent"
    /\ Unlocked(f)
    /\ dirty' = dirty \cup {f}
    /\ UNCHANGED <<installed, history, appliedAt, net, fk, run>>

\* An operator repairs the rows.
RepairRows(f) ==
    /\ f \in dirty
    /\ Unlocked(f)
    /\ dirty' = dirty \ {f}
    /\ UNCHANGED <<installed, history, appliedAt, net, fk, run>>

-----------------------------------------------------------------------------
\* What a started call does by itself.
RunnerStep(r) ==
    \/ HistoryExists(r)
    \/ CreateHistory(r)
    \/ UnknownVersion(r)
    \/ \E allow \in BOOLEAN : Review(r, allow)
    \/ ReadUp(r)
    \/ ReadVetted(r)
    \/ ReadDown(r)
    \/ LoopDone(r)
    \/ Begin(r)
    \/ Steps(r)
    \/ InsertHistory(r)
    \/ DeleteHistory(r)
    \/ Commit(r)
    \/ CommitUnheard(r)
    \/ ReadCatalog(r)
    \/ \E f \in Fks : Validate(r, f)
    \/ \E f \in Fks : FailValidation(r, f)
    \/ ValidationDone(r)
    \/ DatabaseError(r)

Next ==
    \/ \E r \in Runners :
          \/ \E k \in KindsOf[r], c \in Counts : Start(r, k, c)
          \/ RunnerStep(r)
          \/ Crash(r)
    \/ \E f \in Fks : WriteRows(f) \/ RepairRows(f)

Spec == Init /\ [][Next]_vars

\* Statements that can only fail, once the locks they wait for are free: a step
\* or a validation that meets a schema or rows it cannot apply to, a row or table
\* that is there.
MustFail(r) ==
    LET v == run[r].cur IN
    \/ run[r].pc = "create" /\ installed
    \/ /\ run[r].pc = "steps"
       /\ \A f \in FkOf[v], o \in Runners \ {r} : ~HoldsLock(o, f)
       /\ \E f \in FkOf[v] :
             \/ Reverting(r) <=> fk[f] = "absent"
             \/ run[r].kind \in {"up", "upVersions"} /\ f \in dirty
    \/ /\ run[r].pc = "record"
       /\ ~Reverting(r)
       /\ v \in history
       /\ \A o \in Runners \ {r} : ~HoldsRow(o, v)
    \/ /\ run[r].pc = "deferred"
       /\ \E f \in run[r].deferred : Unlocked(f) /\ ~Validatable(f)

\* What the database owes a waiting call: an answer once nothing blocks the
\* statement.  A connection need not break to end a wait.
Answer(r) ==
    /\ RunnerStep(r)
    /\ DatabaseError(r) \/ (\E f \in Fks : FailValidation(r, f)) => MustFail(r)

\* The server answers what is not blocked and the runtime polls the call again.
\* No call is ever obliged to start.
FairSpec == Spec /\ \A r \in Runners : WF_vars(Answer(r))

-----------------------------------------------------------------------------
(* Properties.                                                             *)

\* "A failed migration leaves neither a half-changed schema nor a history row
\* claiming success": whatever runners race, crash or lose answers, a version
\* is recorded exactly when its up steps are in force, and in force once.
HistoryMatchesSchema ==
    \A v \in Versions : net[v] = IF v \in history THEN 1 ELSE 0

\* When nobody reverts and all runners load the same files, versions are
\* applied in order with none skipped, however many runners race or die.
NoGaps == \A v \in history : \A u \in Versions : u < v => u \in history

\* A version is committed only while it is the lowest the runner has pending, at
\* the moment the migration takes effect and not only when the history was read.
AppliesLeading ==
    [][\A r \in Runners :
          Durable(r) /\ ~Reverting(r) => \A u \in Pending(r) : run[r].cur <= u]_vars

\* What up, up_versions or up_versions_staged reported as applied is recorded,
\* and a staged call that returned Ok left every constraint it added validated.
ReportedIsApplied ==
    \A r \in Runners :
       run[r].kind \in {"up", "upVersions", "upStaged"} =>
          /\ run[r].done \subseteq history
          /\ \A v \in run[r].done : \A f \in FkOf[v] : fk[f] = "valid"

\* "Every deferred validation runs even when an earlier one fails": when a staged
\* apply or a validate returns, each foreign key it was to validate is valid or
\* named among the failures, so repairing what was named and validating until Ok
\* leaves nothing unchecked.  Nobody may revert meanwhile.
UnvalidatedIsNamed ==
    \A r \in Runners :
       run[r].pc = "idle" /\ run[r].result \in {"ok", "validation"} =>
          \A f \in run[r].owed : fk[f] = "valid" \/ f \in run[r].failures

\* "Reverts applied migrations": a revert that takes effect forgets a recorded
\* version; it never runs the down steps of one that is not applied.
RevertsOnlyApplied ==
    [][\A r \in Runners : Durable(r) /\ Reverting(r) => run[r].cur \in history]_vars

\* No call waits forever on another runner's locks, rows or failed validation.
EveryCallReturns == \A r \in Runners : run[r].pc # "idle" ~> run[r].pc = "idle"

=============================================================================
