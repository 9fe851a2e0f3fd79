------------------------------- MODULE IrModule -------------------------------
(***************************************************************************)
(* The module of crates/afterburner/src/ir/model: regions, blocks,          *)
(* operations and values in four arenas that name each other by handle.     *)
(* Ownership is stored in both directions, and so is the flow of values:    *)
(* an operation lists its operands and for each the position of its entry   *)
(* in the operand's use list (`links'), a value lists its uses.  Payloads   *)
(* of operations are left out but for the terminator flag, as in an         *)
(* extension operation.                                                     *)
(***************************************************************************)
EXTENDS Arena, FiniteSets, SequencesExt

\* RegionParent::Module; no arena gives out this handle.
ModuleOwned == <<0, 0>>

Use(user, index) == [user |-> user, index |-> index]

Argument(block, index) == [kind |-> "argument", owner |-> block, index |-> index]
Result(op, index) == [kind |-> "result", owner |-> op, index |-> index]

NewRegion(parent) == [parent |-> parent, blocks |-> <<>>]
NewBlock(parent) == [parent |-> parent, arguments |-> <<>>, operations |-> <<>>]
NewValue(ty, definition) == [ty |-> ty, definition |-> definition, uses |-> <<>>]

\* The fields of what each arena holds, and of the module.
Handles == Nat \X Nat
RegionData == [parent : Handles, blocks : Seq(Handles)]
BlockData == [parent : Handles, arguments : Seq(Handles), operations : Seq(Handles)]
OperationData ==
    [parent : Handles, terminator : BOOLEAN, operands : Seq(Handles), links : Seq(Nat),
     results : Seq(Handles), regions : Seq(Handles), successors : SUBSET Handles]
ValueData(types) ==
    [ty : types, definition : [kind : {"argument", "result"}, owner : Handles, index : Nat],
     uses : Seq([user : Handles, index : Nat])]
Modules(types) ==
    [regions : Arenas(RegionData), blocks : Arenas(BlockData), operations : Arenas(OperationData),
     values : Arenas(ValueData(types)), attached : SUBSET Handles]

RootRegion == <<1, 0>>
RootBlock == <<1, 0>>

\* Module::new: the root region with its one block.
EmptyModule ==
    [regions |-> InsertInto(EmptyArena, [NewRegion(ModuleOwned) EXCEPT !.blocks = <<RootBlock>>]),
     blocks |-> InsertInto(EmptyArena, NewBlock(RootRegion)),
     operations |-> EmptyArena,
     values |-> EmptyArena,
     attached |-> {}]

Regions(m) == LiveHandles(m.regions)
Blocks(m) == LiveHandles(m.blocks)
Operations(m) == LiveHandles(m.operations)
Values(m) == LiveHandles(m.values)

Region(m, r) == At(m.regions, r)
Block(m, b) == At(m.blocks, b)
Operation(m, o) == At(m.operations, o)
Value(m, v) == At(m.values, v)

WithRegion(m, r, x) == [m EXCEPT !.regions = Store(@, r, x)]
WithBlock(m, b, x) == [m EXCEPT !.blocks = Store(@, b, x)]
WithOperation(m, o, x) == [m EXCEPT !.operations = Store(@, o, x)]
WithValue(m, v, x) == [m EXCEPT !.values = Store(@, v, x)]

\* The operations of an operation's regions, in block order.
Children(m, o) ==
    LET inRegion(r) == FlattenSeq([i \in DOMAIN Region(m, r).blocks |->
                                      Block(m, Region(m, r).blocks[i]).operations])
        regions == Operation(m, o).regions
    IN  FlattenSeq([i \in DOMAIN regions |-> inRegion(regions[i])])

-----------------------------------------------------------------------------
(* What verify_module checks, whatever the dialect: first the agreement of   *)
(* the two directions of every edge, which no edit may disturb, then what    *)
(* a module under construction may still lack.                               *)

\* verify_regions, verify_roots: a region and its blocks name each other, a
\* region and its owner name each other, and only the root has no owner.
RegionsAgree(m) ==
    /\ RootRegion \in Regions(m) /\ RootBlock \in Blocks(m)
    /\ Block(m, RootBlock).parent = RootRegion
    /\ \A r \in Regions(m) :
          LET region == Region(m, r) IN
          /\ IsInjective(region.blocks)
          /\ \A b \in Range(region.blocks) : b \in Blocks(m) /\ Block(m, b).parent = r
          /\ region.parent = ModuleOwned <=> r = RootRegion
          /\ r # RootRegion =>
               /\ region.parent \in Operations(m)
               /\ r \in Range(Operation(m, region.parent).regions)

\* verify_blocks and the operation positions: each operation is in one place.
BlocksAgree(m) ==
    \A b \in Blocks(m) :
       LET block == Block(m, b) IN
       /\ block.parent \in Regions(m) /\ b \in Range(Region(m, block.parent).blocks)
       /\ \A i \in DOMAIN block.arguments :
             /\ block.arguments[i] \in Values(m)
             /\ Value(m, block.arguments[i]).definition = Argument(b, i)
       /\ IsInjective(block.operations)
       /\ \A o \in Range(block.operations) :
             o \in Operations(m) /\ Operation(m, o).parent = b

\* verify_operations: operands, results and regions name their operation back.
OperationsAgree(m) ==
    \A o \in Operations(m) :
       LET op == Operation(m, o) IN
       /\ op.parent \in Blocks(m) /\ o \in Range(Block(m, op.parent).operations)
       /\ Len(op.operands) = Len(op.links)
       /\ \A i \in DOMAIN op.operands :
             /\ op.operands[i] \in Values(m)
             /\ op.links[i] \in DOMAIN Value(m, op.operands[i]).uses
             /\ Value(m, op.operands[i]).uses[op.links[i]] = Use(o, i)
       /\ \A i \in DOMAIN op.results :
             /\ op.results[i] \in Values(m)
             /\ Value(m, op.results[i]).definition = Result(o, i)
       /\ \A r \in Range(op.regions) : r \in Regions(m) /\ Region(m, r).parent = o

\* verify_values: a value's definition and each of its uses name it back.
ValuesAgree(m) ==
    \A v \in Values(m) :
       LET value == Value(m, v)
           d == value.definition
       IN  /\ CASE d.kind = "argument" ->
                     /\ d.owner \in Blocks(m)
                     /\ d.index \in DOMAIN Block(m, d.owner).arguments
                     /\ Block(m, d.owner).arguments[d.index] = v
                [] d.kind = "result" ->
                     /\ d.owner \in Operations(m)
                     /\ d.index \in DOMAIN Operation(m, d.owner).results
                     /\ Operation(m, d.owner).results[d.index] = v
           /\ IsInjective(value.uses)
           /\ \A k \in DOMAIN value.uses :
                 LET u == value.uses[k] IN
                 /\ u.user \in Operations(m)
                 /\ u.index \in DOMAIN Operation(m, u.user).operands
                 /\ Operation(m, u.user).operands[u.index] = v
                 /\ Operation(m, u.user).links[u.index] = k

Agrees(m) ==
    /\ RegionsAgree(m)
    /\ BlocksAgree(m)
    /\ OperationsAgree(m)
    /\ ValuesAgree(m)

\* The block an operation's or an argument's value becomes available in.
DefinitionBlock(m, v) ==
    LET d == Value(m, v).definition IN
    IF d.kind = "argument" THEN d.owner ELSE Operation(m, d.owner).parent

\* The operation that owns the region o stands in, or ModuleOwned.
Owner(m, o) == Region(m, Block(m, Operation(m, o).parent).parent).parent

\* o and the operations around it, outwards.
Enclosing(m, o) ==
    LET outwards[n \in 0..Cardinality(Operations(m))] ==
          IF n = 0 THEN {o}
          ELSE outwards[n - 1] \cup ({Owner(m, p) : p \in outwards[n - 1]} \ {ModuleOwned})
    IN  outwards[Cardinality(Operations(m))]

Position(m, o) ==
    LET ops == Block(m, Operation(m, o).parent).operations IN CHOOSE i \in DOMAIN ops : ops[i] = o

\* Mutant: an operation may use what it defines itself.
DominatesReflexively(m, v, o) ==
    \E u \in Enclosing(m, o) :
       /\ Operation(m, u).parent = DefinitionBlock(m, v)
       /\ Value(m, v).definition.kind = "result" =>
             Position(m, Value(m, v).definition.owner) <= Position(m, u)

\* value_dominates_use: outwards from the user, the first operation in the
\* block of the definition stands after it.
Dominates(m, v, o) ==
    \E u \in Enclosing(m, o) :
       /\ Operation(m, u).parent = DefinitionBlock(m, v)
       /\ Value(m, v).definition.kind = "result" =>
             Position(m, Value(m, v).definition.owner) < Position(m, u)

\* What verify_module asks of a finished module beyond agreement: regions have
\* blocks, blocks end in their only terminator, only terminators branch and only
\* within their region, and definitions dominate uses.
IsComplete(m) ==
    /\ \A r \in Regions(m) : Region(m, r).blocks # <<>>
    /\ \A b \in Blocks(m) :
          LET ops == Block(m, b).operations IN
          /\ ops # <<>>
          /\ \A i \in DOMAIN ops : Operation(m, ops[i]).terminator <=> i = Len(ops)
    /\ \A o \in Operations(m) :
          LET op == Operation(m, o) IN
          /\ op.successors # {} => op.terminator
          /\ \A b \in op.successors :
                b \in Blocks(m) /\ Block(m, b).parent = Block(m, op.parent).parent
          /\ \A v \in Range(op.operands) : Dominates(m, v, o)

Verified(m) == Agrees(m) /\ IsComplete(m)

=============================================================================
