------------------------------- MODULE Dashboard -------------------------------
(***************************************************************************)
(* `jet ui' (crates/jetorm-cli/src/ui.rs): one operator reviews migrations    *)
(* and drift and confirms what is applied, renamed and generated, while other *)
(* people change the migration files and the database.                       *)
(*                                                                         *)
(* A version is its ordinal.  What is shown is always the snapshot: the panes *)
(* are copied from it after every effect.  The selected row and the case of   *)
(* no target schema are left out.                                            *)
(***************************************************************************)
EXTENDS SchemaDiff

CONSTANTS
    FirstFile,      \* the up steps of version 1
    Target,         \* the schema the entities describe
    Schemas,        \* schemas others generate migrations towards
    Moves,          \* what others do
    MaxVersion,     \* bound: ordinals of migration files
    Interleaved     \* TRUE when others also act between two steps of an effect

ASSUME MovesAssumption ==
    Moves \subseteq {"merge", "generate", "edit", "withdraw", "apply", "revert"}
ASSUME BoundAssumption == MaxVersion \in Nat /\ Interleaved \in BOOLEAN

VARIABLES
    files,          \* the up steps of every migration on disk
    history,        \* the versions recorded as applied
    rows,           \* the snapshot: every migration, its steps, applied or not,
    drift,          \* the changes from the files to the target,
    destructive,    \* whether one of them is destructive,
    candidates,     \* and the renames not confirmed
    mode,           \* what is being asked of the operator
    doing           \* what is left to do of an effect

snapshot == <<rows, drift, destructive, candidates>>
disk == <<files, history>>
vars == <<disk, snapshot, mode, doing>>

-----------------------------------------------------------------------------
(* Migration files (MigrationSet).                                         *)

\* apply_all: what a sequence of changes makes of a schema, up to a refusal.
ApplyAll(changes, s) ==
    FoldLeft(LAMBDA r, x : IF r.answer = "ok" THEN Apply(r.schema, x) ELSE r, Accept(s), changes)

\* replay, of the versions of S.
Replay(fs, S) ==
    FoldLeft(LAMBDA r, v : IF r.answer = "ok" THEN ApplyAll(fs[v], r.schema) ELSE r,
             Accept(EmptySchema), Ordered(S))

Versions == DOMAIN files
Pending == Versions \ history
Leading(S, n) == {v \in S : Cardinality({u \in S : u < v}) < n}
Highest(S) == IF S = {} THEN 0 ELSE CHOOSE v \in S : \A u \in S : u <= v
IsDestructivePlan(changes) == \E i \in DOMAIN changes : IsDestructive(changes[i])

\* next_version: one past the highest ordinal, not the count of files.
NextVersion(fs) == Highest(DOMAIN fs) + 1

-----------------------------------------------------------------------------
Browse == [asks |-> "browse"]
Notice(text) == [asks |-> "notice", text |-> text]
Closed == [asks |-> "closed"]

\* Nothing is left to do; or Generate compared the plans and writes the file; or
\* everything is read again and then a notice shown.
Idle == [left |-> "nothing"]
Write == [left |-> "write"]
Reload(text) == [left |-> "reload", text |-> text]

\* load, when the history names only known versions and the files replay.
Loadable == history \subseteq Versions /\ Replay(files, Versions).answer = "ok"

\* A row shows the text of its steps (Display of SchemaChange), and whether one of
\* them is destructive.  rows keeps the steps themselves: a row is compared as shown.
NotShown(change) ==
    CASE change = "CreateTable" -> {"def"}
      [] change = "AddColumn" -> {"column"}
      [] change = "SetPrimaryKey" -> {"from"}
      [] OTHER -> {}

TextOf(x) == [part \in DOMAIN x \ NotShown(x.change) |-> x[part]]

AsShown(table) ==
    [v \in DOMAIN table |->
       [applied     |-> table[v].applied,
        destructive |-> IsDestructivePlan(table[v].steps),
        steps       |-> [i \in DOMAIN table[v].steps |-> TextOf(table[v].steps[i])]]]

RowsNow == [v \in Versions |-> [applied |-> v \in history, steps |-> files[v]]]
DriftNow == Changes(Replay(files, Versions).schema, Target)
CandidatesNow == Candidates(Replay(files, Versions).schema, Target)

\* Mutant: a reload keeps the plan that was being reviewed.
LoadKeepingPlan ==
    /\ Loadable
    /\ rows' = RowsNow
    /\ drift' = IF drift = <<>> THEN DriftNow ELSE drift
    /\ destructive' = IsDestructivePlan(DriftNow)
    /\ candidates' = CandidatesNow

Load ==
    /\ Loadable
    /\ rows' = RowsNow
    /\ drift' = DriftNow
    /\ destructive' = IsDestructivePlan(DriftNow)
    /\ candidates' = CandidatesNow

\* Any load can fail, and is then tried once more.
LoadOrError(text) ==
    \/ Load /\ mode' \in {Notice(text), Notice("error")}
    \/ UNCHANGED snapshot /\ mode' = Notice("error")

Init ==
    /\ files = (1 :> FirstFile) /\ history \in SUBSET {1}
    /\ rows = <<>> /\ drift = <<>> /\ destructive = FALSE /\ candidates = {}
    /\ mode = Closed /\ doing = Idle

\* run: the files and the history must be readable for the dashboard to open.
Open ==
    /\ mode = Closed
    /\ Load
    /\ mode' = Browse
    /\ UNCHANGED <<disk, doing>>

Browsing == mode = Browse /\ doing = Idle

Quit ==
    /\ Browsing
    /\ mode' = Closed
    /\ UNCHANGED <<disk, snapshot, doing>>

Refresh ==
    /\ Browsing
    /\ LoadOrError("reloaded")
    /\ UNCHANGED <<disk, doing>>

\* The operator asks for something and the dashboard asks back, or says no.
Ask(next) ==
    /\ Browsing
    /\ mode' = next
    /\ UNCHANGED <<disk, snapshot, doing>>

StartApply ==
    LET pending == {v \in DOMAIN rows : ~rows[v].applied} IN
    Ask(IF pending = {} THEN Notice("nothing to apply")
        ELSE [asks |-> "apply", versions |-> pending,
              destructive |-> \E v \in pending : IsDestructivePlan(rows[v].steps)])

StartGenerate ==
    Ask(IF drift = <<>> THEN Notice("no drift")
        ELSE IF candidates # {} THEN Notice("unreviewed")
        ELSE [asks |-> "generate", changes |-> drift, destructive |-> destructive])

\* The order in which candidates are asked about is left open.
StartRenameReview ==
    Ask(IF candidates = {} THEN Notice("no candidates") ELSE [asks |-> "rename", queue |-> candidates])

Dequeue(c) ==
    mode' = IF mode.queue = {c} THEN Browse ELSE [mode EXCEPT !.queue = mode.queue \ {c}]

\* No to one rename: on to the next one.
DeclineRename(c) ==
    /\ Dequeue(c)
    /\ UNCHANGED <<disk, snapshot, doing>>

\* Yes: the plan is rewritten.  A candidate that overlaps one confirmed before
\* changes nothing, and whether anything changed is not looked at.
AcceptRename(c) ==
    /\ Dequeue(c)
    /\ IF Confirmable(drift, c)
       THEN drift' = Confirmed(drift, c) /\ candidates' = candidates \ {c}
       ELSE UNCHANGED <<drift, candidates>>
    /\ UNCHANGED <<disk, rows, destructive, doing>>

ReviewRename ==
    /\ mode.asks = "rename"
    /\ \E c \in mode.queue : AcceptRename(c) \/ DeclineRename(c)

\* No to anything else, or any key after a notice.
Cancel ==
    /\ mode.asks \in {"apply", "generate", "notice"}
    /\ mode' = Browse
    /\ UNCHANGED <<disk, snapshot, doing>>

\* Mutant: up(None): whatever is pending by now.
ConfirmApplyPending ==
    /\ mode.asks = "apply"
    /\ \E n \in 0..Cardinality(Pending) :
          /\ history' = history \cup Leading(Pending, n)
          /\ doing' = Reload(IF n = Cardinality(Pending) THEN "applied" ELSE "error")
    /\ mode' = Browse
    /\ UNCHANGED <<files, snapshot>>

\* up_versions over the files as they are now: the versions shown must lead what
\* is pending; the database may refuse one of them half-way.
ConfirmApply ==
    /\ mode.asks = "apply"
    /\ LET count == Cardinality(mode.versions) IN
       \/ /\ history \subseteq Versions
          /\ mode.versions = Leading(Pending, count)
          /\ \E n \in 0..count :
                /\ history' = history \cup Leading(Pending, n)
                /\ doing' = Reload(IF n = count THEN "applied" ELSE "error")
       \/ UNCHANGED history /\ doing' = Reload("error")
    /\ mode' = Browse
    /\ UNCHANGED <<files, snapshot>>

\* Mutant: the plan is written without a look at what changed since.
ConfirmGenerateUnchecked ==
    /\ mode.asks = "generate"
    /\ mode' = Browse /\ doing' = Write
    /\ UNCHANGED <<disk, snapshot>>

\* What was reviewed: the rows by what they show, the drift by its changes.
Unmoved == AsShown(RowsNow) = AsShown(rows) /\ DriftNow = drift

\* Generate, first half: everything is read again, and a plan that is not the
\* one reviewed takes its place.
ConfirmGenerate ==
    /\ mode.asks = "generate"
    /\ \/ /\ Loadable /\ Unmoved
          /\ mode' = Browse /\ doing' = Write
          /\ UNCHANGED snapshot
       \/ /\ ~Unmoved
          /\ Load /\ mode' = Notice("the plan changed")
          /\ UNCHANGED doing
       \/ /\ mode' = Browse /\ doing' = Reload("error")
          /\ UNCHANGED snapshot
    /\ UNCHANGED disk

\* Second half: the version comes from the files as they are by now.
WriteFile ==
    /\ doing = Write
    /\ \/ /\ NextVersion(files) <= MaxVersion
          /\ files' = Put(files, NextVersion(files), drift)
          /\ doing' = Reload("wrote")
       \/ UNCHANGED files /\ doing' = Reload("error")
    /\ UNCHANGED <<history, snapshot, mode>>

Reread ==
    /\ doing.left = "reload"
    /\ LoadOrError(doing.text)
    /\ doing' = Idle
    /\ UNCHANGED disk

Operator ==
    \/ Open \/ Quit \/ Refresh
    \/ StartApply \/ StartGenerate \/ StartRenameReview
    \/ ReviewRename \/ Cancel \/ ConfirmApply
    \/ ConfirmGenerate \/ WriteFile \/ Reread

-----------------------------------------------------------------------------
(* Everyone else, through git and the other commands of jet.               *)

\* A migration towards s that somebody planned from the versions before v.
PlanTowards(v, s) ==
    LET before == Replay(files, {u \in Versions : u < v}) IN
    IF before.answer = "ok" THEN Changes(before.schema, s) ELSE <<>>

\* jet migrate generate.
OthersGenerate(s) ==
    /\ "generate" \in Moves
    /\ NextVersion(files) <= MaxVersion
    /\ Loadable /\ PlanTowards(NextVersion(files), s) # <<>>
    /\ files' = Put(files, NextVersion(files), PlanTowards(NextVersion(files), s))
    /\ UNCHANGED history

\* A migration arrives in any place, planned before the later ones were there.
OthersMerge(v, s) ==
    /\ "merge" \in Moves
    /\ v \notin Versions /\ PlanTowards(v, s) # <<>>
    /\ files' = Put(files, v, PlanTowards(v, s))
    /\ UNCHANGED history

\* A migration that is not applied yet is written anew, or goes.
OthersEdit(v, s) ==
    /\ v \in Pending
    /\ \/ /\ "edit" \in Moves
          /\ PlanTowards(v, s) \notin {<<>>, files[v]}
          /\ files' = Put(files, v, PlanTowards(v, s))
       \/ /\ "withdraw" \in Moves
          /\ files' = Without(files, v)
    /\ UNCHANGED history

\* jet migrate up and down.
OthersMigrate ==
    /\ \/ /\ "apply" \in Moves
          /\ history \subseteq Versions /\ Pending # {}
          /\ history' = history \cup Leading(Pending, 1)
       \/ /\ "revert" \in Moves
          /\ history # {}
          /\ history' = history \ {Highest(history)}
    /\ UNCHANGED files

Others ==
    /\ Interleaved \/ doing = Idle
    /\ \/ \E s \in Schemas : OthersGenerate(s)
       \/ \E v \in 1..MaxVersion, s \in Schemas : OthersMerge(v, s) \/ OthersEdit(v, s)
       \/ OthersMigrate
    /\ UNCHANGED <<snapshot, mode, doing>>

Next == Operator \/ Others

Spec == Init /\ [][Next]_vars

-----------------------------------------------------------------------------
\* What the panes show: the steps of the rows, and then the plan with whatever
\* renames were confirmed, make the target.  Of files that replay, that is, and
\* whatever became of them since.
ShownPlanReachesTarget ==
    mode = Closed \/
    ApplyAll(drift, Replay([v \in DOMAIN rows |-> rows[v].steps], DOMAIN rows).schema) = Accept(Target)

\* "Applying exactly the given versions": of what the operator said yes to, a
\* prefix becomes applied, and no migration is left pending before any of it.
AppliesOnlyShownVersions ==
    [][mode.asks = "apply" /\ doing # doing' =>
          \A v \in history' \ history :
             /\ v \in mode.versions
             /\ \A u \in Versions : u < v => u \in history']_vars

\* "Writing the reviewed plan against a moved baseline would misapply": with the
\* file that is written, the migrations make the target.
WrittenPlanReachesTarget ==
    [][doing = Write /\ files' # files /\ doing' # doing =>
          Replay(files', DOMAIN files') = Accept(Target)]_vars

\* "The plan changed since it was reviewed" is said when the migrations or what
\* was applied of them changed: what else is the plan computed from?
RefusesOnlyMovedBaselines ==
    [][mode.asks = "generate" /\ mode' = Notice("the plan changed") => RowsNow # rows]_vars

=============================================================================
