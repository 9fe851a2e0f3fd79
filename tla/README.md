# JetORM: a verification development

TLA+ models of JetORM (`crates/` of the repository), model-checked with TLC and,
for the parts where every value of the parameters matters, proved with TLAPS.
`PROJECT.json` maps every definition to the lines it translates.

## 1. The system

JetORM is a code-first PostgreSQL ORM. Entities are Rust structs. From them come
a *schema model* that is diffed against the schema the recorded migrations replay
to, migrations that a *runtime* applies, and typed *queries* that are lowered to an
SSA-like intermediate representation (*afterburner*), optimised and verified by
passes, rendered to SQL by a *dialect*, cached and executed.

| Component | State | Operations | Interacts with |
|---|---|---|---|
| Migration runtime (`jetorm-migration/src/migrator.rs`, `history.rs`) | none between calls; in PostgreSQL the history table and the schema; in a call the list read, the place in it, constraints to validate | `install`, `status`, `pending`, `up`, `up_versions`, `up_versions_staged`, `down`, `validate_pending_constraints` | the database, one transaction per version; other runners through it; the CLI that shows a plan and then applies what was shown |
| Schema model, differ, apply (`jetorm-schema/src`) | a `SchemaSet`: tables, columns, keys, foreign keys, enum types | `diff`, `confirm_rename`, `apply`, `apply_all`, `is_destructive` | migration files hold its changes; the dialect renders them; the dashboard reviews them |
| Dashboard (`jetorm-cli/src/ui.rs`) | a snapshot of files, history and drift; a mode; an effect in progress | one per key, one per effect, reload | files on disk and the database, which others change; `Migrator::up_versions`; the differ |
| Pass manager (`afterburner/src/pass`) | the pipeline's position, the report, the analysis cache with its stack | `run`, `run_to_fixed_point`, `PassContext::analysis`, `invalidate`; hooks | the module's revision; the verifier; passes and analyses call back into it |
| IR module, editor, verifier (`afterburner/src/ir`) | four arenas whose entities name each other by handle; attachments; the revision | `append_operation`, `insert_operation_before`, `add_region`, `append_block`, `replace_operand`, `replace_all_uses`, `erase_operation`, attachments; `verify_module` | lowering builds modules, passes edit them |
| Arenas (`afterburner/src/ir/entity`) | slots with generations, a free stack | `insert`, `remove`, `get`, `get_mut`, `iter` | under everything of the IR |
| Pagination (`jetorm-query/src/cursor.rs`, `jetorm-executor/src/paginate.rs`) | a cursor or a paginator: a select, a key or a page size | `cursor_by`, `after`, `before`, `first`, `last`, `all`; `fetch_page`, `num_items`, `num_pages` | `Select`; a table others write to between its statements |
| Relation loading (`jetorm-executor/src/relations.rs`) | during a call: keys with their counts, groups by key | `load_many`, `load_one` | rows read earlier; one statement |
| Query builders and shapes (`jetorm-query/src`: `expr.rs`, `select.rs`, `join.rs`, `aggregate.rs`, `projection.rs`, `mutation.rs`) | a builder: predicates with bind positions, a bind table, an order, row counts, assignments | one per builder call; `validate`, `shape`, `binds` | lowering reads everything but the values; the plan cache keys on the shape; the executor sends the values |
| Query lowering (`jetorm-query/src/lowering.rs`, `lowering/write.rs`) | none | `into_afterburner_ir` of each builder | IR through the editor |
| SQL dialect: queries (`jetorm-dialect/src/postgres`) | during a call: the `SELECT` accumulated so far and its stage, the placeholders met | `render_statement`, which verifies the module first | statements and their bind order to the plan cache |
| Plan cache and executor (`jetorm-executor/src/plan.rs`, `database.rs`, `value.rs`, `select.rs`, `join.rs`, `mutation.rs`) | statements by shape, with eviction | `statement`; `all`, `one`, `get`, `execute` | many callers share the cache; rows are decoded by position |
| Seeds, fingerprint | none between calls | apply a file; hash a module | see *What is left* |
| Derive macros, facade, benchmarks, xtask, codegen | none | text in, text out | not modelled |

What is hard here: runners that race through one database with a transaction per
version and any of them dying or losing an answer at any await; state that is read,
shown to somebody and acted on later (the vetted plan, the dashboard, rows in
hand, cursor keys); handles that outlive what they name; caches keyed by a
revision while client code edits, or by a shape that must decide the statement;
plans whose changes depend on each other's order; rewrites of use lists while they
are walked; a query that is described four times over (builder, IR, SQL, rows) with
positions, nullability and bind numbers that have to agree at each border.

What makes each part correct, in a sentence:

* *runtime*: the history says exactly what is in force, in order and without gaps,
  whatever races and dies, and each call returns;
* *schema*: a plan arrives at its target, rename confirmations included; no chain of
  accepted changes leaves a reference to something that is gone;
* *dashboard*: what is shown is what is written and applied;
* *passes*: no stale analysis is served; what the report says is so; runs return;
* *IR*: both directions of every relation agree; an edit happens entirely or not at
  all; legal rewrites of a verified module leave a verified one;
* *arenas*: a handle names one entity for ever;
* *queries*: a program of builder calls is refused exactly when it is a documented
  mistake, and otherwise answers and changes what its calls mean, whoever else is
  using the cache; what the verifier accepts renders to a statement that means the
  same;
* *pagination, relations*: nothing that was there all along is missed or comes
  twice; everybody gets exactly their rows.

## 2. The modules

`MC*` modules only give constants their values (`ArenaHandles` needs none: its
configuration gives numbers to `ArenaMachine` directly). A definition whose comment starts
with "Mutant" is a plausible bug of the definition that follows it: substituted, it
breaks a property.

| Module | What it is |
|---|---|
| `Migrator` | the runtime, one action per awaited statement, any number of runners |
| `MigratorProofs` | types, schema agreement, ordering, gaps, what calls report and whom they name |
| `Schema` | `SchemaSet` and `apply.rs`: each change, its guards and effect |
| `SchemaDiff` | `diff.rs`: plans, candidates, confirmation |
| `SchemaEvolution` | the developer's loop: retarget, confirm, apply change by change |
| `SchemaReplay` | hand-edited files: any change after any other |
| `SchemaProofs` | no reference dangles, renames are undone; every plan is accepted and arrives, and drift is seen |
| `Dashboard` | `jet ui`, composed with `SchemaDiff`, with files and history that others change |
| `AnalysisCache`, `PassManager` | the cache with its recursion unrolled on a stack; the pipeline on top |
| `PassManagerProofs` | fresh answers, verified results, honest reports |
| `Arena` | the slot arena as operators; used by `ArenaMachine` and by `IrModule` |
| `ArenaMachine`, `HandleStore`, `ArenaProofs` | the arena as a machine, what it promises, and that it keeps it |
| `IrModule`, `IrEditor` | modules and the verifier's structural checks; every edit |
| `IrEditorProofs` | edits keep modules typed, in agreement and free of leaks; refusals, revisions; erasing is exact; dominance is scope |
| `FoldProofs` | induction on numbers, what folds compute, lists: used by `IrEditorProofs`, `ReadsProofs` and `SchemaProofs` |
| `SelectQuery`, `Pagination` | what pagination uses of `Select`, the answers a database may give, both readers |
| `RelationLoad` | the two batched loaders |
| `ReadsProofs` | pages split the query, totals match, a walk misses nothing; everyone gets exactly their related rows |
| `QueryIr` | the operations of the IR as trees: types, scalars, relations, mutations |
| `QueryBuilders` | builder calls: binds, validation, shapes |
| `QueryLowering` | builders to IR |
| `QueryTyping` | the verifier's rules for the logical, scalar and mutation dialects |
| `PostgresStatements` | IR to statements: `SELECT` levels, placeholders, refusals |
| `PostgresServer` | external: what PostgreSQL makes of those statements |
| `QueryExecution` | binding, running and decoding one query |
| `PlanCache` | lookups of several callers, a step at a time |
| `DirectExecution`, `PlanCacheProofs` | what the executor promises of its cache; that it keeps it |
| `QueryMeaning` | what a program of builder calls means, without IR or SQL: a reference |
| `QueryPlans` | the composition of all of these |
| `IrMeaning` | what the operations of the IR mean, without SQL: a reference |
| `IrRendering` | modules any frontend may build, verified and rendered |

### Migrator

`run[r]` is runner `r`'s call: `pc` says which await it stands at, `todo` what is
left of the list read (`seen` the `applied_at` values it was sorted by), `cur` the
version in the open transaction, `deferred` the constraints of a staged call not yet
validated, `failures` those whose validation failed, collected and reported when all
were tried, `done` what it has reported. `owed` is no state of the code: it remembers
which foreign keys the call is to validate. `history`, `appliedAt`, `net` (how often a
version's up steps are in force), `fk` and `dirty` are the database's committed
state. A call goes `install` - `create` - `read` (- `review` for the CLI's reading
of the plan before) - and for each version `next` - `steps` - `record` - `commit`
(- `deferred`). What a transaction did is private until `Commit`; the history
table's primary key and row locks, and the locks a constraint takes, are the only
arbitration between runners, as in the code, which takes no lock of its own.
`CommitUnheard` commits and loses the answer, `Crash` ends a call anywhere and rolls
back, `DatabaseError` fails any statement and `FailValidation` any validation, for its
rows or for none but a broken connection; a `Validate` whose answer is lost counts as a
failure too. `Unrenderable` has the versions whose up steps, or whose down steps, no
dialect renders. Stamps of `applied_at` are read from the
client's clock, so they are arbitrary.

### Schema, SchemaDiff, SchemaEvolution, SchemaReplay

Maps by name are functions. A column's type is an identity (0 is built in, other
types are enums); names are numbers, so that "sorted by name" is an order.
`Changes(a, b)` has `diff`'s order: constraints dropped, enum types and tables made,
columns altered, tables dropped, constraints added, types dropped. `Apply` has every
guard of `SchemaSet::apply`. In `SchemaEvolution` plans are made, rewritten by
confirmed renames and applied one change at a time, from every schema of a family to
every other; in `SchemaReplay` any change may follow any other, as in files edited
by hand.

### Dashboard

`rows`, `drift`, `destructive` and `candidates` are the snapshot; `mode` what is
asked of the operator; `doing` what is left of an effect, whose reads of the disk
and writes are separate steps where the code awaits or reads twice. `ConfirmGenerate`
compares, as the code does, the plan in the text it is shown in, which leaves out the
columns of a new table and the type of a new column, and the drift in full. `Others`
merge, generate, edit and withdraw files, apply and revert.

### AnalysisCache, PassManager

The module is reduced to one fact per analysis; a result is the set of facts it was
computed from, so a stale part of it shows. `active` is the recursion of
`AnalysisCache::get`, a frame per computation. An analysis that is `Tolerant` swallows
the error of one it asked for and goes on without it: its result has only present facts,
and it has all of them when nothing tolerant is below it. A pass is arbitrary client code: it
requests, edits and invalidates in any order and declares honestly what it
preserved.

### Arena, IrModule, IrEditor

`Arena` is the slot vector with its free stack. A module is four arenas and the
attachments. Each edit is a function from a module and arguments to an answer, a
module, and the number of times it bumped the revision; `Next` lets clients pass any
handle they ever held. `Agrees`, `Verified` translate the verifier's structural
rules and `Dominates` its dominance walk; `Scope` in the properties is an independent
reading of the same by an interpreter that enters nested blocks.

### SelectQuery, Pagination, RelationLoad

A predicate is the set of rows it holds of. The database breaks ties by a rank of its
choosing, which may differ from statement to statement. A reader is a walk by cursor
or a paginator. In `RelationLoad` the rows in hand are their join keys; a load `Fail`s on
a key it cannot read or in its statement, and then has dealt nothing.

### QueryIr, QueryBuilders, QueryLowering, QueryTyping

An operation is a record of its kind, operands, result type and regions, and a value
is the tree that computes it; arenas and handles are the subject of `IrModule`. The
kind of a scalar is a sequence, so that an array carries its element's. A *program* is
the builder it starts with and its calls; `Build` applies them one by one as the
builder methods do, capturing values into the bind table as they come. Positions in the
table and its length are `u32`: `U32Max` is the width, and a program that outgrows it is
refused. PostgreSQL's own limit of 65535 parameters, which the code does not look at, is
not modelled. `ShapeOf` is `QueryShape`: everything but the values. `IntoIr` is lowering with its errors.
`VerifyModule` is the verifier's second half.

### PostgresStatements, PostgresServer

A builder is the `SELECT` accumulated so far with its `Stage`; each operation of the
IR either adds a clause or wraps what there is as a derived table first. A statement
is a record of clauses with expression trees, the placeholders in order of first
appearance, and what it returns. Names are compared, never spelled; aliases are the
number of the source. `PostgresServer` types a statement as the server would, refuses
what it refuses (ambiguous names, operands of different kinds, columns outside the
groups, a `DISTINCT` ordered by what it does not select), and executes it. A `SELECT`
without an order of its own comes out backwards when the server so chooses, derived
tables included.

### QueryExecution, PlanCache, DirectExecution, QueryPlans

`RunStatement` binds, executes, and, when rows came, compares the kinds of the columns
with what decoding expects and decodes each part of a row. In `PlanCache` a caller goes `submitted` -
(`missed` - `rendered` -) `held` - `idle`; between any two steps others go on and
entries leave. It knows queries only by their validity, rendering, shape and outcomes,
so that the proofs hold for any. `QueryPlans` gives these four from the modules above,
computed once per program and named by program, and compares every outcome with
`QueryMeaning`. `DirectExecution` answers a query in one step.

### IrMeaning, IrRendering

The IR has more operations than the builders use (outer, semi and anti joins, set
operations, windows, literal rows, `CASE`). `IrRendering` grows relations operation by
operation, also by operations the verifier must refuse, renders each and compares
the server's answer with `IrMeaning`: ties of rows in an order. Bounds: `MaxSteps`
operations on a base, and `MaxWork`, in which an operation with a `SELECT` of its own
counts twice.

## 3. The runs

Every run finishes within about three minutes on two workers. Deadlock checking is
off where everybody may simply be done.

| Run | Instance | What it shows |
|---|---|---|
| `MigratorUp` | 2 runners, one of an older deployment; 3 versions, one adding two foreign keys (alike, by symmetry) that rows may violate; 2 calls each of `up`, `up_versions`, `up_versions_staged`, `validate`; counts 1 and 3 | `HistoryMatchesSchema`, `NoGaps`, `AppliesLeading`, `ReportedIsApplied`, `UnvalidatedIsNamed` |
| `MigratorDown` | one runner applies in stages, one applies and reverts; 4 versions; clocks disagree; an up step and a down step that do not render | `HistoryMatchesSchema` and `RevertsOnlyApplied` with one reverter; `EveryCallReturns` |
| `PassRuns` | 2 passes, 2 edits, 3 analyses with a shared fallible dependency and a cycle, one of which goes on without what failed; one round verified after each pass, or a fixed point of at most two verified at its ends | no stale answer, an honest report with balanced hooks, termination |
| `ArenaHandles` | 3 slots, 3 generations, 2 payloads | `HandlesNameOneEntity`: the arena implements `HandleStore`; `SlotsAccountedFor` |
| `IrEdits` | four budgets: use lists (3 operations of 2 operands), ownership (a block nested in one of 3 operations), attachments (an operation and one inside it), rewrites of a verified module with a branch and a capturing region | agreement of both directions, all-or-nothing edits, nothing left behind, revision, scope, rewrites |
| `Schemas` | one engine, three ways to it, one of which acts. *Evolution*: all pairs of: one table of up to three columns with any key; two of three tables with references, also to themselves; a referable column that is key or unique; two columns of two enum types. *Replay*: 2 tables of 2 columns, a constraint each, an enum type. *Dashboard*: up to 3 files, a target that needs a rename review, others do everything between two keys | `PlansReachTheirTarget`, `DriftIsSeen`, `TypesExist`; `ReferencesNeverDangle`, `TableRenamesAreReversible`; `ShownPlanReachesTarget`, `WrittenPlanReachesTarget`, `AppliesOnlyShownVersions` |
| `Reads` | a walk or numbered pages of 4 rows of 2 columns (ties in either), u64 up to 9 and i64 up to 4, pages of 1 or 2, two writes in a walk; or a load for up to 3 rows in hand with duplicates and nulls, 3 far rows, one write, any load of which may fail | walks miss nothing; pages split the query, for page numbers past the widths too; totals match; everyone gets exactly their rows |
| `QueryPlans` | some 400 programs, some with rows of the wrong width or more binds than `U32Max` (4), over four tables (an automatic key, nullable columns, a column of a named type, no key), three databases with ties, NULLs, empty tables and a dangling reference; each alone, before every other of its shape, and every three of seven shared between two callers over a cache of one entry | `AnswersWhatIsMeant`, `RefusesOnlyMistakes`; `ServesOwnStatement`, `RunsDirectly` |
| `IrRendering` | four bases, every operation on every other up to three deep, two databases, either order of the server | `RendersWhatItMeans`, `RefusesOnlyLostOrders` |
| `SchemaRecreate` | the enum family of `Schemas`, where a type may lose a variant | violation, see 5 |
| `DashboardRename` | one operator, one rename, nobody else | violation, see 5 |
| `KeylessSort` | one scan, and the sort without keys the IR documents | violation, see 5 |

Why the bounds suffice for what is asked: two runners make every race of the code
(no step of a runner looks at more than one other: a lock, a row), three versions
make "the lowest", "the newest" and "a gap in the middle" different things, and two
calls let a call follow a crashed one. What holds for any number of runners and
versions is proved (section 4). Three generations are one reuse and a retirement.
Three columns let two rename candidates overlap. The programs of `QueryPlans` cover
every builder call, every pair of calls whose clauses meet in one statement, and every
documented mistake; shapes are compared among all of them, so a shape that forgets
something meets a program that differs in just that. Two callers suffice for the cache:
a lookup looks at one entry, and any number of callers is proved. Three operations of
`IrRendering` put every clause below, beside and above every other; a fourth meets the
same `Stage` again. Four budgets of `IrEdits` keep
each of its questions small: `budget` never changes in a behaviour.

### Fairness

* `Migrator!FairSpec`: weak fairness of `Answer(r)` for each runner: a statement that
  nothing blocks is answered and the runtime polls the future again. Errors, those of validations
  included, are not promised except where nothing else can happen (`MustFail`); crashes are never
  promised; no call is obliged to start. Without it a call could wait for ever
  through no fault of the code.
* `PassManager!FairSpec`: weak fairness of `Step`: `run` is a synchronous function of
  one thread that waits for nothing. A pass returns after `MaxRequests` and
  `MaxEdits` steps, that is, passes are assumed to return.

The other specifications state safety only and have no fairness.

## 4. What is proved

For every value of the constants, with the named assumptions of each module:

* `MigratorProofs`
  * `TypeCorrect`: `Spec => []TypeOK`, from `TInv`, which adds that a call that is in
    the middle of a transaction has a current version from its list.
  * `SchemaAgrees`, assuming that at most one runner reverts: `[]HistoryMatchesSchema`.
    The property is not inductive: a commit adds a version to the history and its
    steps to the schema, which is right only if the version was not recorded before.
    `SInv` adds why: a runner that has inserted its row and not committed owns the
    primary key (nobody else is past `record` with that version and it is not
    recorded), and the sole reverter's remaining list is recorded. The lemma
    `StepShape` reduces the eighteen actions of a runner to few *shapes* of how `pc`, the
    list and the history move, so the invariants are each proved over shapes.
  * `SoleReverterRevertsApplied`: `RevertsOnlyApplied`, from the same invariant.
  * `LeadingApplied`: when nobody reverts, `AppliesLeading`, from `LInv`: below
    everything a runner has yet to apply, all it knows is recorded or comes first in
    its list. A list read long ago stays good because the history only grows.
  * `NoGapsEver`: when moreover all load the same files, `[]NoGaps`.
  * `ReportedStaysApplied`, when nobody reverts: `[]ReportedIsApplied`, from `RInv`: what
    a call counts as done it has committed, and the history only grows.
  * `FailuresAreNamed`, when nobody reverts: `[]UnvalidatedIsNamed`, from the part
    `Accounted` of `RInv`: at each step of a call, every foreign key it is to validate is
    valid, named among the failures or still to be tried. A constraint that is valid
    stays so, because nobody takes it away.
* `PassManagerProofs`
  * `TypeCorrect`, and `AnswersAreFresh`: `[]AnswerIsFresh`. `CacheInv` says of an entry
    *of the present revision* that it is made of present facts, and of a frame of the
    recursion that what it was given so far was fresh when the module has not been
    edited since, which is so because only the pass edits and it waits for the answer;
    and that what it was given and what it still asks for make up all it rests on, unless
    a dependency failed or something tolerant is below it.
  * `OkIsVerified`: `[]OkMeansVerified`, from `VerifyInv`: while a run is due to verify
    after each pass, nothing unverified survives to the next.
  * `ReportsAreHonest`: `[]TerminationIsHonest`, from `ReportInv`, which relates the
    iterations counted and what the last one changed to where the run stands.
* `ArenaProofs`
  * `ArenaImplementsStore`: the arena implements `HandleStore`, whose handles are
    given out once. `AInv` says where handles come from: the free stack has each slot
    once, all vacant, with a generation never issued, and no issued handle is ahead of
    its slot. `StepRefines` maps each step to a step of the store or a stutter.
  * `EverySlotAccountedFor` and `TypeCorrect`, from the same invariant.
* `SchemaProofs`, replay
  * `NoDanglingEver`: no chain of accepted changes leaves a dangling foreign key,
    whatever names, definitions and keys there are. `Sound` is the property and the
    shape of the records; one lemma per kind of change. That created tables carry no constraints is assumed.
  * `RenamesAreUndone`: `[]TableRenamesAreReversible`: renaming a table and back is the
    identity on every schema a chain of changes reaches. It needs `Form`: each table and
    each foreign key is a record of its kind, so that two that agree in every field are
    equal; the records of schemas given by the constants are assumed to be such.
* `SchemaProofs`, evolution, for any families of schemas a database could hold
  (`FamiliesAssumption`: references, keys and types are there, referenced columns are
  unique, no type has a variant twice), when enum types only grow (`~Recreating`; section
  5 has what happens if they do not)
  * `EveryPlanArrives`: `[]PlansReachTheirTarget`. Between two changes of a plan the
    schema is *not* one a database could hold, so the invariant is about the plan:
    what it still holds accounts for what still tells the schema from the target
    (`Account`), each difference once, a rename counted for the drop and the add it
    stands for, a key change at the names the renames will have made; and it is in
    an order (`Arranged`): constraints and types around everything else, a key after
    the columns it may need, variants as the type has them. Three facts about that pair
    make it inductive. What `diff` lists is an account in its order (`ChangesList`,
    `DueAccount`). A confirmed rename takes the place of its pair without disturbing
    either, the keys that name the column rewritten (`ConfirmedKept`). And whatever
    comes first in such an order is accepted and leaves the rest an account of what is
    left (`FirstArrives`, one lemma per kind of change). An empty account means that
    the schemas are equal (`NothingLeft`).
  * `DriftIsAlwaysSeen`: `[]DriftIsSeen`, from the same: what `diff` lists is an
    account, so an empty list means equal schemas; equal schemas have nothing due
    (`NothingBetween`).
  * `TypesOutliveColumns`: `[]TypesExist`, a part of the invariant.
* `IrEditorProofs`, for modules, types and operations of any size and any handles
  callers pass. `StartAssumption`: behaviours start from a module that is typed, agrees
  and leaks nothing, as `EmptyModule` does. `NothingAssumption` and
  `GenerationAssumption` say that an empty slot is told from an entity, and that
  generations are numbers; `BudgetsAssumption` types the bounds, which play no other part.
  * `TypeCorrect` and `AgreementIsKept`: `[]EditsKeepAgreement`. Agreement is split in
    two: `Owned` (regions, blocks, operations, results and arguments name each other)
    and `UsesAgree(m, linked)` (the use lists hold exactly the uses in `linked`, each at
    its operand's link). Every edit is a fold of small steps that keep `Owned` and add
    one use to `linked` (`Linking`) or take one away and repair the backlink of the entry
    that swap_remove moved (`Unlinking`); in between, while a new operation's operands
    are not linked yet or an erased one's are not any more, the module does *not* agree,
    and `linked` says by how much. When an edit is through, `linked` is `AllUses` again.
  * `RefusalsChangeNothing`: `[]RefusedEditsChangeNothing`. A refused erase leaves the
    module alone by its shape; that the erase which was not refused never panics, and
    that a replacement of all uses never stops half-way, rests on agreement: every
    operand that is still in `linked` is `Unlinkable`.
  * `RevisionsTell`: `[]RevisionTellsOfChange`.
  * `NothingIsLost`: `[]NothingLeaks`. Reaching the root is not inductive as stated
    (`Enclosing` is a recursion over the whole module); equivalent to it, and inductive,
    is `Rooted`: of any operations one has its owner elsewhere (`GroundedMeans`, by
    counting: the set of operations around an operation grows at each level or is
    closed). Every edit but erase adds to what there is (`Enlarges`), erase takes away
    (`Reduces`), and neither moves what stays.

  * `ErasingIsExact`: `[]ErasesWhatNobodyUses`. That the plan's own checks never refuse
    needs `ListsRegionsOnce`: an operation names each of its regions once, which the
    editor keeps because it only ever names a region it has just made. With it the walk
    meets every operation below once; a use from outside is then found exactly when
    there is one, and what is erased is the tree.
  * `VerifiedIsSound`: `[]VerifiedUsesAreInScope`. A definition that dominates a use is among
    what some operation around the use finds in its own block (`DominationIsHere`);
    `Scope` follows the owners all the way out (`ScopeIsDeep`), because an operation is
    nested at most as deep as there are regions (`FewAround`).
  * `RewritesAreSafe`: `[]RewritesKeepVerified`. The other direction of scope holds as
    well (`InScopeDominates`): what is in scope at a place dominates it. What stays keeps
    its owner and its order among its neighbours in each of the three edits (`Ordered`),
    hence the operations around it (`EnclosingKept`) and the definitions that dominate it
    (`DominationKept`). The rest is about what an edit does change: a replaced operand was
    in scope at its use (`ReplacedIsVerified`); an inserted operation is right before its
    anchor, where its operands are in scope, and never last (`RightBefore`,
    `InsertedIsVerified`); an erased tree ends no block that stays and holds no block that
    stays names as a successor (`ErasedIsVerified`).

  For erase, the walks of the plan are shown to list a tree (`TreeWalked`): with
  operations listed once, as the plan checks, both orders have the same members, closed
  under "owned by"; what is removed from the four arenas is what that tree owns.
  `FoldProofs` has the means: a fold over a sequence, and a recursive function on
  `0..n`, are the last of `n` steps (`FoldsUp`, `FoldMeans`), and a set of numbers
  closed under successor has all (`NumbersBySteps`).
* `ReadsProofs`, relation loading, for any rows and keys (`RowsAssumption`)
  * `ParentsGetTheirChildren`, `SourcesGetTheirTarget`: `[]EveryParentGetsItsChildren` and
    `[]EverySourceGetsItsTarget`. `LoadInv` follows a load through its statement. The
    loaders are folds over the rows that came, and a row in hand is *taken* from its
    group when the last row with its key has it. What a fold computes is shown for
    sequences of any length: `FoldMeans` picks the least index at which the claim would
    fail (`LeastNumber`).
* `ReadsProofs`, pagination, for any rows, orders, sizes and answers the database may give
  (`BasesAssumption`, `KeysAssumption`, `BoundsAssumption`)
  * `PagesSplit`: `[]PagesSplitTheQuery`, assuming that the order of a paged select leaves
    no ties (section 5 has what happens if it does). An answer that respects a total
    order is the only one: a row stands behind as many rows as precede it, so equal
    counts are equal places (`ListingIsOnly`), and pages are cut from one listing.
  * `TotalsMatch`: `[]TotalsMatchPages`, assuming that paged selects have no limit of their own.
  * `WalkIsComplete`: `[]WalkMissesNothing`, assuming that the select of a cursor has no
    offset. `LexicographicMeans` shows that the fold that builds the boundary condition
    is the strict order of the key, for keys of any number of columns; a page is then
    the next `n` rows beyond the boundary, and `WalkInv` says that every row that was
    there all along is either behind the boundary and collected, or beyond it. The two
    hypotheses are exactly the disagreements of section 5.
* `PlanCacheProofs`, for any callers, queries, statements and server, assuming
  `ShapesDecide(Queries)`: valid queries of one shape are rendered alike.
  * `OwnStatementServed`: `[]ServesOwnStatement`. Inductive is `CacheInv`, which adds
    that a caller past `submitted` has asked a valid query and has no answer yet, so
    that the hypothesis applies to what it inserts and to what it finds.
  * `CacheImplementsDirect`: `Spec => RunsDirectly`, the refinement of
    `DirectExecution`. Lookups are stutters; a refusal or a run is an answer in one
    step, by `CacheInv` with the caller's own statement. Without the cache's race
    being harmless the last lemma, `DirectStep`, would fail at `Run`.

  That the shapes of the real builders decide their statements is what
  `ServesOwnStatement` checks in `QueryPlans`, on the programs of that run.

Only model-checked: liveness (`EveryCallReturns`, `RunReturns`), which is beyond the
prover; the properties of `QueryPlans` and `IrRendering` about meaning, which rest on
recursive operators over trees, in modules the prover has no arithmetic for; and
`ShownPlanReachesTarget` of `Dashboard`, whose files replay to schemas that need not be
ones a database could hold, so that the account of a plan (`SchemaProofs`, which starts
from schemas a database accepts) would have to be kept for weaker schemas. The library's induction theorems cannot be
instantiated (their hypothesis is an operator), but a fold or a recursive function can
be reasoned about by the least index at which a claim fails, as above.

## 5. Disagreements seen while modelling

Three are kept as runs that TLC must find violated:

* `SchemaRecreate`: `jetorm-schema/src/diff.rs:453` promises that a plan, applied,
  reproduces the target; when an enum type loses or reorders variants the plan
  begins with `DropEnum` (`diff.rs:533`), refused while a column has the type.
* `DashboardRename`: Generate compares the reviewed plan with a fresh diff
  (`ui.rs:427`), which never has the renames confirmed, so a confirmed rename can
  never be written.

* `KeylessSort`: `afterburner/src/ir/model/operation.rs:429` says "An empty key list has
  no region", and the verifier accepts such a sort, but the renderer asks for its
  region (`jetorm-dialect/src/postgres/select.rs:557`) and answers `Inconsistent`, which
  `error.rs:20` calls "a bug in the renderer or the verifier". No builder of
  `jetorm-query` makes one (`lower_row_stages` sorts only by some key).

The others are described here, with the change of the instance that shows them.
The lines quoted say the opposite.

| Code | What happens | How to see it |
|---|---|---|
| `migrator.rs:499` (`:251`) | two runners revert one version: the second's `DELETE` finds no row, its down steps run again | `MigratorDown` with `down` in both runners' kinds and version 1 reversible |
| `migrator.rs:223` (`:210`) | a vetted list is compared once; with a concurrent revert a version below it may be pending when it commits | `AppliesLeading` as a property of `MigratorDown`, with version 1 reversible; no run or theorem has both a reverter and this property |
| `migrator.rs:262` (`:260`) | "most recent" is the client's clock | two stamps: `Newest` need not be what was applied last |
| `migrator.rs:456` (`:448`) | validation goes on after the first constraint that fails | `FailValidation` leaves the rest to be tried |
| `afterburner/src/pass/analysis.rs:214` (`:66`) | a stale entry replaced by a recomputation is not counted as invalidated | `Complete` leaves `invalidations` alone |
| `apply.rs:377` | only `AddForeignKey` asks that the referenced column be unique: a plan may make it neither unique nor key in between | the referable-column family, between two changes |
| `apply.rs:202` (`:469`) | a dropped column stays in the primary key | `ApplyDropColumn` |
| `ui.rs:185` (`:231`) | a declined rename candidate counts as unreviewed for ever, and Generate refuses | `DeclineRename`, `StartGenerate` |
| `ui.rs:462` (`:194`) | after a confirmed rename the plan keeps the destructive mark of the drop it no longer has | `AcceptRename` |
| `ui.rs:405` (test at `:634`) | a pending file edited while the question stands open is applied as it is by then | `ConfirmApply` compares versions |
| `ui.rs:435` (`:419`) | files are read once to compare and again for the version | `Schemas` with `Interleaved = TRUE` |
| `main.rs:613` (`:581`) | version ordinals are compared as numbers, versions as strings: after `1_init` comes `0002_...`, which sorts before it | not modelled |
| `cursor.rs:148` (`:161`, `:175`) | a cursor keeps the offset of the select it is made of: each page skips rows | `Reads` with `CursorBases = {Offset(Find, 1)}` |
| `paginate.rs:90` (`:84`) | a paginator of a limited select counts with the limit and pages without | `Reads` with `PagedBases = {Limit(Ordered, 1)}` |
| `jetorm-dialect/.../select.rs:169` (`:399`) | the query that casts a named type to text for the wire is a derived table with the `ORDER BY` inside, whose "ordering" by the code's own words SQL does not guarantee | `QueryPlans` with a program that finds badges in an order without a limit |
| `jetorm-dialect/.../select.rs:309` (`error.rs:15`) | a sort by an expression joins a `SELECT DISTINCT`, which PostgreSQL refuses | `IrRendering` without the guard `SelectsDistinct` in `SortRows` |
| `jetorm-dialect/.../scalar.rs:355` (`:355`) | a projected 64-bit literal is spelled bare and comes out as `int4`; only row sources are exact | `IrRendering` with a projection of `Number(1, FALSE)` |
| `verifier.rs:725` | a scan's column names may be empty or repeated; the renderer quotes an empty name as `Inconsistent` | `Scan("r", <<<<"">>, <<"">>>>, ...)` as a base |
| `paginate.rs:50` (`:33`) | a paginator of a select whose order leaves ties may repeat rows | `Reads` with `PagedBases = {Find}` |

## 6. What is left out, and the plan

Left out of the modelled parts: formatting, messages, logging and spans; parsing
and serialisation of migration files; in the schema modules, types of columns beyond
their identity; in `IrModule`, payloads, attributes and interned schemas of
operations; in the query modules, the spelling of SQL, tables of another catalog (which the
renderer refuses), aliases, entity behaviours,
scalar functions, the offsets and exclusions of window frames, and values of types the
programs do not need; transactions, which share the cache of their database. A value is
a tree, so one value used by two operations is two equal trees, the renderer's refusal
to repeat a volatile call does not happen, and no region captures a value of another;
those are `IrModule`'s subject. `avg` divides integers. The selected row and drawing of the
dashboard; the width of slot indexes. PostgreSQL is modelled from what the code
relies on: transactions, row and table locks, unique keys, `NOT VALID` constraints.
Not modelled: derive macros, facade, benchmarks, xtask (no state), codegen (text).

In order:

1. **Schema to database** (`jetorm-dialect/src/postgres/ddl.rs`, `introspect.rs`): the
   DDL of each change against an external catalog with *named* constraints;
   a composition with `SchemaEvolution` where an accepted plan must run and the
   introspected schema must equal the applied one. Constraint names survive renames
   in PostgreSQL, and introspection reads the catalog over several statements.
   Abstract specification: the catalog as a `SchemaSet`.
2. **Fingerprint** (`afterburner/src/ir/support`): equal exactly for modules that are
   equal up to handles.
3. **Seeds** (`jetorm-migration/src/seed.rs`): a file reapplied changes nothing, one that
   is refused changes nothing. Its statements are the targeted upserts of `QueryPlans`
   in one transaction; what is left is mostly the conversion of TOML values.
4. **Entity behaviours** (`jetorm-query/src/behavior.rs`) and transactions over the cache.
5. Proofs: `ShownPlanReachesTarget` of `Dashboard`, with an account of a plan for schemas
   that only replay to something.

## 7. Running

`tlc -config MigratorUp.cfg MCMigrator` and likewise (`PROJECT.json` lists the module
of each configuration); `tlapm MigratorProofs.tla` and likewise. From nothing,
`ArenaProofs`, `PlanCacheProofs`, `FoldProofs`, `MigratorProofs` and `PassManagerProofs` take
up to two minutes each, `ReadsProofs` seven, `IrEditorProofs` and `SchemaProofs` seventeen.
