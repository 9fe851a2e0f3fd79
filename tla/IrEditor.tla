------------------------------- MODULE IrEditor -------------------------------
(***************************************************************************)
(* IrEditor of crates/afterburner/src/ir/mutation/editor.rs.  Each edit is a *)
(* function of the module and its arguments: what it answers, the module it  *)
(* leaves behind, and how often it bumped the revision.  Callers pass any    *)
(* handle they ever held.                                                    *)
(***************************************************************************)
EXTENDS IrModule

CONSTANT
    Budgets         \* bounds: where clients start, what they insert and how much

\* start: a module; regions, blocks, operations and values: slots of each arena;
\* operands: of one operation; types: of values; terminators: which operations are
\* inserted; branching: whether they name successors; attaching: whether clients
\* attach data to operations.
ASSUME BudgetsAssumption ==
    \A b \in Budgets :
       /\ {b.regions, b.blocks, b.operations, b.values, b.operands} \subseteq Nat
       /\ b.terminators \subseteq BOOLEAN /\ {b.branching, b.attaching} \subseteq BOOLEAN

Types == UNION {b.types : b \in Budgets}

\* What is attached belongs to an operation that lives, and each operation is
\* reached from the root by ownership.
LeaksNothing(m) ==
    /\ m.attached \subseteq Operations(m)
    /\ \A o \in Operations(m) :
          RootRegion \in {Block(m, Operation(m, p).parent).parent : p \in Enclosing(m, o)}

\* Each operation lists a region once; verify_module does not look at this.
ListsRegionsOnce(m) == \A o \in Operations(m) : IsInjective(Operation(m, o).regions)

\* Clients start from a module that edits have made.
ASSUME StartAssumption ==
    \A b \in Budgets :
       /\ b.start \in Modules(Types) /\ Agrees(b.start)
       /\ LeaksNothing(b.start) /\ ListsRegionsOnce(b.start)

ASSUME NothingAssumption ==
    Nothing \notin RegionData \cup BlockData \cup OperationData \cup ValueData(Types)

VARIABLES
    ir,             \* the module
    budget          \* the bounds of this behaviour

Ok(m, bumps) == [answer |-> "ok", ir |-> m, bumps |-> bumps]
Refuse(m, error) == [answer |-> error, ir |-> m, bumps |-> 0]

\* An operation to insert, as the caller describes it (OperationSpec).
Specs(m, Vs, Bs) ==
    [operands : UNION {[1..n -> Vs] : n \in 0..budget.operands},
     results : UNION {[1..n -> budget.types] : n \in 0..1},
     successors : IF budget.branching THEN {{}} \cup {{b} : b \in Bs} ELSE {{}},
     terminator : budget.terminators]

-----------------------------------------------------------------------------
\* Add the use (o, i) to the end of v's list and link the operand to it.
LinkUse(m, o, i, v) ==
    LET uses == Append(Value(m, v).uses, Use(o, i))
        op == Operation(m, o)
    IN  WithOperation(WithValue(m, v, [Value(m, v) EXCEPT !.uses = uses]), o,
                      [op EXCEPT !.operands = ReplaceAt(@, i, v), !.links = ReplaceAt(@, i, Len(uses))])

\* create_results: the values types tell, each next at the end of o's results.
DefineResults(m, o, types) ==
    LET define(n, i) ==
          LET v == NextHandle(n.values) IN
          WithOperation([n EXCEPT !.values = InsertInto(@, NewValue(types[i], Result(o, i)))],
                        o, [Operation(n, o) EXCEPT !.results = Append(@, v)])
    IN  FoldLeftDomain(define, m, types)

LinkOperands(m, o, operands) ==
    LET link(n, i) == LinkUse(n, o, i, operands[i]) IN FoldLeftDomain(link, m, operands)

\* append_operation: the operation, then its results, then its uses.
AppendOperation(m, b, spec) ==
    LET o == NextHandle(m.operations)
        shell == [parent |-> b, terminator |-> spec.terminator, operands |-> spec.operands,
                  links |-> [i \in DOMAIN spec.operands |-> 0], results |-> <<>>,
                  regions |-> <<>>, successors |-> spec.successors]
        inserted == [m EXCEPT !.operations = InsertInto(@, shell)]
        linked == LinkOperands(DefineResults(inserted, o, spec.results), o, spec.operands)
    IN  IF ~Resolves(m.blocks, b) THEN Refuse(m, "UnknownBlock")
        ELSE IF \E v \in Range(spec.operands) : ~Resolves(m.values, v)
        THEN Refuse(m, "UnknownValue")
        ELSE IF \E s \in spec.successors : ~Resolves(m.blocks, s)
        THEN Refuse(m, "UnknownSuccessor")
        ELSE Ok(WithBlock(linked, b, [Block(m, b) EXCEPT !.operations = Append(@, o)]), 1)

\* Mutant: the operation is inserted behind the anchor.
InsertOperationBehind(m, anchor, spec) ==
    IF ~Resolves(m.operations, anchor) THEN Refuse(m, "UnknownOperation")
    ELSE LET b == Operation(m, anchor).parent
             appended == AppendOperation(m, b, spec)
             ops == Block(m, b).operations
         IN  IF appended.answer # "ok" THEN appended
             ELSE Ok(WithBlock(appended.ir, b,
                               [Block(m, b) EXCEPT !.operations =
                                   InsertAt(ops, Position(m, anchor) + 1, NextHandle(m.operations))]), 2)

\* insert_operation_before: append, then move the block's entry to the anchor.
InsertOperationBefore(m, anchor, spec) ==
    IF ~Resolves(m.operations, anchor) THEN Refuse(m, "UnknownOperation")
    ELSE LET b == Operation(m, anchor).parent
             appended == AppendOperation(m, b, spec)
             ops == Block(m, b).operations
         IN  IF appended.answer # "ok" THEN appended
             ELSE Ok(WithBlock(appended.ir, b,
                               [Block(m, b) EXCEPT !.operations =
                                   InsertAt(ops, Position(m, anchor), NextHandle(m.operations))]), 2)

\* add_region: an empty region at the end of its owner's.
AddRegion(m, o) ==
    LET r == NextHandle(m.regions) IN
    IF ~Resolves(m.operations, o) THEN Refuse(m, "UnknownOperation")
    ELSE Ok(WithOperation([m EXCEPT !.regions = InsertInto(@, NewRegion(o))], o,
                          [Operation(m, o) EXCEPT !.regions = Append(@, r)]), 1)

\* The arguments of a new block.
DefineArguments(m, b, types) ==
    LET define(n, i) ==
          LET v == NextHandle(n.values) IN
          WithBlock([n EXCEPT !.values = InsertInto(@, NewValue(types[i], Argument(b, i)))],
                    b, [Block(n, b) EXCEPT !.arguments = Append(@, v)])
    IN  FoldLeftDomain(define, m, types)

\* append_block: the block with its arguments, at the end of its region's.
AppendBlock(m, r, types) ==
    LET b == NextHandle(m.blocks)
        inserted == [m EXCEPT !.blocks = InsertInto(@, NewBlock(r))]
    IN  IF ~Resolves(m.regions, r) THEN Refuse(m, "UnknownRegion")
        ELSE Ok(WithRegion(DefineArguments(inserted, b, types), r,
                           [Region(m, r) EXCEPT !.blocks = Append(@, b)]), 1)

-----------------------------------------------------------------------------
SwapRemove(s, k) == IF k = Len(s) THEN Front(s) ELSE ReplaceAt(Front(s), k, Last(s))

\* unlink_operand_use checks the entry it removes and the backlink it repairs.
Unlinkable(m, user, i) ==
    LET op == Operation(m, user)
        v == op.operands[i]
        k == op.links[i]
        uses == Value(m, v).uses
    IN  /\ Resolves(m.values, v)
        /\ k \in DOMAIN uses
        /\ uses[k] = Use(user, i)
        /\ k # Len(uses) =>
             LET moved == Last(uses) IN
             /\ Resolves(m.operations, moved.user)
             /\ moved.index \in DOMAIN Operation(m, moved.user).operands
             /\ Operation(m, moved.user).operands[moved.index] = v
             /\ Operation(m, moved.user).links[moved.index] = Len(uses)

\* Mutant: the backlink of the entry swap_remove moved is not repaired.
UnlinkedWithoutRepair(m, user, i) ==
    LET op == Operation(m, user)
        v == op.operands[i]
    IN  WithValue(m, v, [Value(m, v) EXCEPT !.uses = SwapRemove(@, op.links[i])])

\* The last use moves into the gap and its operand's link with it.
Unlinked(m, user, i) ==
    LET op == Operation(m, user)
        v == op.operands[i]
        k == op.links[i]
        uses == Value(m, v).uses
        moved == Last(uses)
        removed == WithValue(m, v, [Value(m, v) EXCEPT !.uses = SwapRemove(uses, k)])
    IN  IF k = Len(uses) THEN removed
        ELSE WithOperation(removed, moved.user,
                           [Operation(m, moved.user) EXCEPT !.links = ReplaceAt(@, moved.index, k)])

\* Mutant: an operand is replaced by itself.
ReplaceOperandAnyway(m, user, i, replacement) ==
    IF ~Resolves(m.values, replacement) THEN Refuse(m, "UnknownValue")
    ELSE IF ~Resolves(m.operations, user) THEN Refuse(m, "UnknownOperation")
    ELSE IF i \notin DOMAIN Operation(m, user).operands THEN Refuse(m, "OperandOutOfBounds")
    ELSE LET old == Operation(m, user).operands[i] IN
         IF Value(m, old).ty # Value(m, replacement).ty THEN Refuse(m, "TypeMismatch")
         ELSE Ok(LinkUse(Unlinked(m, user, i), user, i, replacement), 1)

\* replace_operand: nothing to do, or the old use unlinked and the new one linked.
ReplaceOperand(m, user, i, replacement) ==
    IF ~Resolves(m.values, replacement) THEN Refuse(m, "UnknownValue")
    ELSE IF ~Resolves(m.operations, user) THEN Refuse(m, "UnknownOperation")
    ELSE IF i \notin DOMAIN Operation(m, user).operands THEN Refuse(m, "OperandOutOfBounds")
    ELSE LET old == Operation(m, user).operands[i] IN
         IF old = replacement THEN Ok(m, 0)
         ELSE IF ~Resolves(m.values, old) THEN Refuse(m, "UnknownValue")
         ELSE IF Value(m, old).ty # Value(m, replacement).ty THEN Refuse(m, "TypeMismatch")
         ELSE IF ~Unlinkable(m, user, i) THEN Refuse(m, "CorruptUseList")
         ELSE Ok(LinkUse(Unlinked(m, user, i), user, i, replacement), 1)

\* replace_all_uses: one replace_operand for each use there was, up to the first
\* that is refused.
ReplaceUses(m, uses, replacement) ==
    LET replace(done, use) ==
          IF done.answer # "ok" THEN done
          ELSE LET next == ReplaceOperand(done.ir, use.user, use.index, replacement) IN
               [next EXCEPT !.bumps = @ + done.bumps]
    IN  FoldLeft(replace, Ok(m, 0), uses)

ReplaceAllUses(m, from, replacement) ==
    IF ~Resolves(m.values, from) \/ ~Resolves(m.values, replacement)
    THEN Refuse(m, "UnknownValue")
    ELSE IF Value(m, from).ty # Value(m, replacement).ty THEN Refuse(m, "TypeMismatch")
    ELSE ReplaceUses(m, Value(m, from).uses, replacement)

-----------------------------------------------------------------------------
(* erase_operation: plan the whole ownership tree below the operation, check *)
(* it, and only then take it apart.                                          *)

\* The tree's operations, children before (pre) or after (post) their owner.
PreOrder(m, root) ==
    LET n == Cardinality(Operations(m))
        walk[d \in 0..n] ==
          [o \in Operations(m) |->
             IF d = 0 THEN <<o>>
             ELSE <<o>> \o FlattenSeq([i \in DOMAIN Children(m, o) |-> walk[d - 1][Children(m, o)[i]]])]
    IN  walk[n][root]

PostOrder(m, root) ==
    LET n == Cardinality(Operations(m))
        walk[d \in 0..n] ==
          [o \in Operations(m) |->
             IF d = 0 THEN <<o>>
             ELSE FlattenSeq([i \in DOMAIN Children(m, o) |-> walk[d - 1][Children(m, o)[i]]]) \o <<o>>]
    IN  walk[n][root]

\* What the tree owns besides operations, in the order the plan lists it.
OwnedRegions(m, root) ==
    LET ops == PreOrder(m, root) IN FlattenSeq([i \in DOMAIN ops |-> Operation(m, ops[i]).regions])

OwnedBlocks(m, root) ==
    LET regions == OwnedRegions(m, root) IN
    FlattenSeq([i \in DOMAIN regions |-> Region(m, regions[i]).blocks])

OwnedValues(m, root) ==
    LET ops == PreOrder(m, root)
        arguments(o) ==
          FlattenSeq([i \in DOMAIN Operation(m, o).regions |->
             LET blocks == Region(m, Operation(m, o).regions[i]).blocks IN
             FlattenSeq([j \in DOMAIN blocks |-> Block(m, blocks[j]).arguments])])
    IN  FlattenSeq([i \in DOMAIN ops |-> Operation(m, ops[i]).results \o arguments(ops[i])])

\* validate_use_list: every entry's operand links back to it.
UseListAgrees(m, v) ==
    \A k \in DOMAIN Value(m, v).uses :
       LET u == Value(m, v).uses[k] IN
       /\ Resolves(m.operations, u.user)
       /\ u.index \in DOMAIN Operation(m, u.user).operands
       /\ Operation(m, u.user).operands[u.index] = v
       /\ Operation(m, u.user).links[u.index] = k

\* plan_operation_erase: what the tree owns names its owner back and is owned
\* once, and the use lists of what it defines and what it uses agree.
TreeAgrees(m, root) ==
    LET ops == Range(PreOrder(m, root)) IN
    /\ Cardinality({i \in DOMAIN Block(m, Operation(m, root).parent).operations :
                       Block(m, Operation(m, root).parent).operations[i] = root}) = 1
    /\ IsInjective(PreOrder(m, root)) /\ IsInjective(OwnedValues(m, root))
    /\ IsInjective(OwnedRegions(m, root)) /\ IsInjective(OwnedBlocks(m, root))
    /\ \A o \in ops :
          LET op == Operation(m, o) IN
          /\ Len(op.operands) = Len(op.links)
          /\ \A i \in DOMAIN op.operands :
                /\ op.links[i] \in DOMAIN Value(m, op.operands[i]).uses
                /\ Value(m, op.operands[i]).uses[op.links[i]] = Use(o, i)
                /\ UseListAgrees(m, op.operands[i])
          /\ \A i \in DOMAIN op.results : Value(m, op.results[i]).definition = Result(o, i)
          /\ \A r \in Range(op.regions) : Region(m, r).parent = o
    /\ \A r \in Range(OwnedRegions(m, root)), b \in Blocks(m) :
          b \in Range(Region(m, r).blocks) =>
             LET block == Block(m, b) IN
             /\ block.parent = r
             /\ \A i \in DOMAIN block.arguments : Value(m, block.arguments[i]).definition = Argument(b, i)
             /\ \A c \in Range(block.operations) : Operation(m, c).parent = b
    /\ \A v \in Range(OwnedValues(m, root)) : UseListAgrees(m, v)

\* A value the tree defines has a user outside it.
Escapes(m, root) ==
    \E v \in Range(OwnedValues(m, root)) : \E k \in DOMAIN Value(m, v).uses :
       Value(m, v).uses[k].user \notin Range(PreOrder(m, root))

\* Unlink every operand of the tree; an entry that cannot be unlinked panics.
UnlinkOperands(done, o, operands) ==
    LET unlink(d, i) ==
          IF d.panicked \/ ~Unlinkable(d.ir, o, i) THEN [d EXCEPT !.panicked = TRUE]
          ELSE [d EXCEPT !.ir = Unlinked(d.ir, o, i)]
    IN  FoldLeftDomain(unlink, done, operands)

UnlinkTree(m, root) ==
    LET unlinkAll(done, o) == UnlinkOperands(done, o, Operation(m, o).operands)
    IN  FoldLeft(unlinkAll, [ir |-> m, panicked |-> FALSE], PostOrder(m, root))

RemoveAll(a, handles) == FoldLeft(RemoveFrom, a, handles)

\* Mutant: only the operation's own results are checked for users outside.
EraseOperationShallow(m, root) ==
    IF ~Resolves(m.operations, root) THEN Refuse(m, "UnknownOperation")
    ELSE IF ~TreeAgrees(m, root) THEN Refuse(m, "Corrupt")
    ELSE IF \E v \in Range(Operation(m, root).results) : Value(m, v).uses # <<>>
    THEN Refuse(m, "ValueStillUsed")
    ELSE LET b == Operation(m, root).parent
             n == WithBlock(UnlinkTree(m, root).ir, b,
                            [Block(m, b) EXCEPT !.operations = RemoveFirst(@, root)])
         IN  Ok([n EXCEPT !.values = RemoveAll(@, OwnedValues(m, root)),
                          !.operations = RemoveAll(@, PostOrder(m, root)),
                          !.attached = @ \ Range(PostOrder(m, root)),
                          !.blocks = RemoveAll(@, Reverse(OwnedBlocks(m, root))),
                          !.regions = RemoveAll(@, Reverse(OwnedRegions(m, root)))], 1)

\* Mutant: operands are unlinked before it is known that nothing escapes.
EraseOperationUnlinkingFirst(m, root) ==
    IF ~Resolves(m.operations, root) THEN Refuse(m, "UnknownOperation")
    ELSE IF ~TreeAgrees(m, root) THEN Refuse(m, "Corrupt")
    ELSE IF Escapes(m, root) THEN Refuse(UnlinkTree(m, root).ir, "ValueStillUsed")
    ELSE LET b == Operation(m, root).parent
             n == WithBlock(UnlinkTree(m, root).ir, b,
                            [Block(m, b) EXCEPT !.operations = RemoveFirst(@, root)])
         IN  Ok([n EXCEPT !.values = RemoveAll(@, OwnedValues(m, root)),
                          !.operations = RemoveAll(@, PostOrder(m, root)),
                          !.attached = @ \ Range(PostOrder(m, root)),
                          !.blocks = RemoveAll(@, Reverse(OwnedBlocks(m, root))),
                          !.regions = RemoveAll(@, Reverse(OwnedRegions(m, root)))], 1)

\* Mutant: the attachments of nested operations stay.
EraseOperationKeepingAttached(m, root) ==
    IF ~Resolves(m.operations, root) THEN Refuse(m, "UnknownOperation")
    ELSE IF ~TreeAgrees(m, root) THEN Refuse(m, "Corrupt")
    ELSE IF Escapes(m, root) THEN Refuse(m, "ValueStillUsed")
    ELSE LET b == Operation(m, root).parent
             n == WithBlock(UnlinkTree(m, root).ir, b,
                            [Block(m, b) EXCEPT !.operations = RemoveFirst(@, root)])
         IN  Ok([n EXCEPT !.values = RemoveAll(@, OwnedValues(m, root)),
                          !.operations = RemoveAll(@, PostOrder(m, root)),
                          !.attached = @ \ {root},
                          !.blocks = RemoveAll(@, Reverse(OwnedBlocks(m, root))),
                          !.regions = RemoveAll(@, Reverse(OwnedRegions(m, root)))], 1)

EraseOperation(m, root) ==
    IF ~Resolves(m.operations, root) THEN Refuse(m, "UnknownOperation")
    ELSE IF ~TreeAgrees(m, root) THEN Refuse(m, "Corrupt")
    ELSE IF Escapes(m, root) THEN Refuse(m, "ValueStillUsed")
    ELSE IF UnlinkTree(m, root).panicked THEN Refuse(m, "panic")
    ELSE LET b == Operation(m, root).parent
             n == UnlinkTree(m, root).ir
             detached == WithBlock(n, b, [Block(n, b) EXCEPT !.operations = RemoveFirst(@, root)])
         IN  Ok([detached EXCEPT !.values = RemoveAll(@, OwnedValues(m, root)),
                                 !.operations = RemoveAll(@, PostOrder(m, root)),
                                 !.attached = @ \ Range(PostOrder(m, root)),
                                 !.blocks = RemoveAll(@, Reverse(OwnedBlocks(m, root))),
                                 !.regions = RemoveAll(@, Reverse(OwnedRegions(m, root)))], 1)

-----------------------------------------------------------------------------
\* Every handle an arena gave out so far, and those of slots waiting for reuse.
Known(a) == {h \in (1..Len(a.slots)) \X (0..MaxGeneration) : h[2] <= a.slots[h[1]].generation}

\* Bound: an insertion finds a slot.
Fits(a, n, slots) == Len(a.slots) + n <= slots + Len(a.free)

Init == budget \in Budgets /\ ir = budget.start

Append_ ==
    \E b \in Known(ir.blocks), spec \in Specs(ir, Known(ir.values), Known(ir.blocks)) :
       /\ Fits(ir.operations, 1, budget.operations) /\ Fits(ir.values, Len(spec.results), budget.values)
       /\ ir' = AppendOperation(ir, b, spec).ir

Insert ==
    \E o \in Known(ir.operations), spec \in Specs(ir, Known(ir.values), Known(ir.blocks)) :
       /\ Fits(ir.operations, 1, budget.operations) /\ Fits(ir.values, Len(spec.results), budget.values)
       /\ ir' = InsertOperationBefore(ir, o, spec).ir

NestRegion ==
    \E o \in Known(ir.operations) :
       /\ Fits(ir.regions, 1, budget.regions)
       /\ ir' = AddRegion(ir, o).ir

NestBlock ==
    \E r \in Known(ir.regions), types \in UNION {[1..n -> budget.types] : n \in 0..1} :
       /\ Fits(ir.blocks, 1, budget.blocks) /\ Fits(ir.values, Len(types), budget.values)
       /\ ir' = AppendBlock(ir, r, types).ir

Redirect ==
    \E o \in Known(ir.operations), i \in 1..budget.operands, v \in Known(ir.values) :
       ir' = ReplaceOperand(ir, o, i, v).ir

RedirectAll ==
    \E v, w \in Known(ir.values) : ir' = ReplaceAllUses(ir, v, w).ir

Erase ==
    \E o \in Known(ir.operations) : ir' = EraseOperation(ir, o).ir

\* Module::insert_attachment, and remove_attachment or clear_attachments.
Attach ==
    /\ budget.attaching
    /\ \E o \in Operations(ir) : ir' = [ir EXCEPT !.attached = @ \cup {o}]

Detach ==
    \E o \in Operations(ir) : ir' = [ir EXCEPT !.attached = @ \ {o}]

Step ==
    \/ Append_
    \/ Insert
    \/ NestRegion
    \/ NestBlock
    \/ Redirect
    \/ RedirectAll
    \/ Erase
    \/ Attach
    \/ Detach

Next == Step /\ UNCHANGED budget

Spec == Init /\ [][Next]_<<ir, budget>>

-----------------------------------------------------------------------------
(* Properties.                                                             *)

\* "IrEditor maintains local arena and def-use consistency": however edits are
\* chained, ownership, definitions and use lists agree in both directions.
EditsKeepAgreement == Agrees(ir)

\* Nothing is left behind: what the clients attached belongs to an operation that
\* lives, and every operation can be reached from the root region by ownership.
NothingLeaks == LeaksNothing(ir)

\* "This preflight makes failure atomic": an erase that is refused, and a
\* replacement of all uses that stops half-way, leave the module as it was; and
\* the preflight covers everything erase then relies on, so it never panics.
RefusedEditsChangeNothing ==
    /\ \A o \in Known(ir.operations) :
          LET e == EraseOperation(ir, o) IN e.answer # "panic" /\ (e.answer # "ok" => e.ir = ir)
    /\ \A v, w \in Known(ir.values) :
          LET e == ReplaceAllUses(ir, v, w) IN e.answer # "ok" => e.ir = ir

\* The revision tells the readers of cached analyses that a module changed, and
\* only that: an edit bumps it when and only when it leaves another module.
RevisionTellsOfChange ==
    LET tells(e) == e.bumps > 0 <=> e.ir # ir IN
    /\ \A o \in Known(ir.operations) :
          /\ tells(EraseOperation(ir, o))
          /\ \A i \in 1..budget.operands, v \in Known(ir.values) : tells(ReplaceOperand(ir, o, i, v))
    /\ \A v, w \in Known(ir.values) : tells(ReplaceAllUses(ir, v, w))

\* An operation is erased exactly when nothing outside its regions uses what is
\* defined inside them: the check that is made before the tree is taken apart
\* does not refuse what could be erased.
ErasesWhatNobodyUses ==
    \A o \in Operations(ir) :
       LET inside == {p \in Operations(ir) : o \in Enclosing(ir, p)}
           defined == {v \in Values(ir) :
                         LET d == Value(ir, v).definition IN
                         IF d.kind = "result" THEN d.owner \in inside
                         ELSE Region(ir, Block(ir, d.owner).parent).parent \in inside}
           free == \A p \in Operations(ir) \ inside :
                      Range(Operation(ir, p).operands) \cap defined = {}
           e == EraseOperation(ir, o)
       IN  /\ e.answer = IF free THEN "ok" ELSE "ValueStillUsed"
           /\ free => /\ Operations(e.ir) = Operations(ir) \ inside
                      /\ Values(e.ir) = Values(ir) \ defined

\* What is in scope at an operation, as an interpreter of nested blocks has it:
\* the arguments of its block, the results of what stands before it there, and
\* what is in scope at the owner of the region.
Scope(m) ==
    LET n == Cardinality(Regions(m))
        here(o) ==
          LET block == Block(m, Operation(m, o).parent) IN
          Range(block.arguments) \cup
          UNION {Range(Operation(m, block.operations[i]).results) : i \in 1..(Position(m, o) - 1)}
        scope[d \in 0..n] ==
          [o \in Operations(m) |->
             here(o) \cup (IF d = 0 \/ Owner(m, o) = ModuleOwned THEN {} ELSE scope[d - 1][Owner(m, o)])]
    IN  scope[n]

\* "Nested regions may capture only values visible at their owning operation": in
\* a verified module every operand has been computed when its operation runs.
VerifiedUsesAreInScope ==
    Verified(ir) =>
       \A o \in Operations(ir) : Range(Operation(ir, o).operands) \subseteq Scope(ir)[o]

\* Rewriting: inserting an operation whose operands are in scope, and replacing a
\* value everywhere by one in scope at every use, keep a verified module verified.  So does
\* dead code elimination, erasing what nobody uses, unless that is a terminator.
RewritesKeepVerified ==
    Verified(ir) =>
       /\ \A o \in Operations(ir) :
             \A spec \in Specs(ir, Scope(ir)[o], {}) :
                spec.successors = {} /\ ~spec.terminator =>
                   Verified(InsertOperationBefore(ir, o, spec).ir)
       /\ \A v, w \in Values(ir) :
             (\A o \in Operations(ir) : v \in Range(Operation(ir, o).operands) => w \in Scope(ir)[o])
             => Verified(ReplaceAllUses(ir, v, w).ir)
       /\ \A o \in Operations(ir) :
             LET e == EraseOperation(ir, o) IN
             e.answer = "ok" /\ ~Operation(ir, o).terminator => Verified(e.ir)

=============================================================================
