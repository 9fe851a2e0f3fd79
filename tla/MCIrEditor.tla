------------------------------ MODULE MCIrEditor ------------------------------
(* Small instances of IrEditor: four budgets, each for a part of the editor.   *)
EXTENDS IrEditor

CONSTANTS int, text

Of(operands, results, terminator, successors) ==
    [operands |-> operands, results |-> results, successors |-> successors, terminator |-> terminator]

\* A verified module to start from:
\*   %1 = define; nest { ^2: use %1; branch ^3   ^3: end }; end.
Nested ==
    LET m1 == AppendOperation(EmptyModule, RootBlock, Of(<<>>, <<int>>, FALSE, {})).ir
        m2 == AppendOperation(m1, RootBlock, Of(<<>>, <<>>, FALSE, {})).ir
        m3 == AppendOperation(m2, RootBlock, Of(<<>>, <<>>, TRUE, {})).ir
        m4 == AppendBlock(AddRegion(m3, <<2, 0>>).ir, <<2, 0>>, <<>>).ir
        m5 == AppendBlock(m4, <<2, 0>>, <<>>).ir
        m6 == AppendOperation(m5, <<2, 0>>, Of(<< <<1, 0>> >>, <<int>>, FALSE, {})).ir
        m7 == AppendOperation(m6, <<2, 0>>, Of(<<>>, <<>>, TRUE, {<<3, 0>>})).ir
    IN  AppendOperation(m7, <<3, 0>>, Of(<<>>, <<>>, TRUE, {})).ir

\* Three operations of two operands in one block: use lists.
Uses ==
    [start |-> EmptyModule, regions |-> 1, blocks |-> 1, operations |-> 3, values |-> 2,
     operands |-> 2, types |-> {int, text}, terminators |-> {FALSE},
     branching |-> FALSE, attaching |-> FALSE]

\* A region with a block inside one of three operations.
Nesting ==
    [Uses EXCEPT !.regions = 2, !.blocks = 2, !.values = 1, !.operands = 1, !.types = {int}]

\* Data attached to an operation and to one inside its region.
Attaching == [Nesting EXCEPT !.operations = 2, !.attaching = TRUE]

\* Rewrites of a verified module that has a nested region which captures a value.
Rewriting ==
    [start |-> Nested, regions |-> 2, blocks |-> 3, operations |-> 7, values |-> 3,
     operands |-> 1, types |-> {int}, terminators |-> {FALSE},
     branching |-> FALSE, attaching |-> FALSE]

AllBudgets == {Uses, Nesting, Attaching, Rewriting}
=============================================================================
