------------------------------ MODULE SchemaDiff ------------------------------
(***************************************************************************)
(* diff.rs of crates/jetorm-schema: the ordered changes that turn one schema *)
(* into another, the drops and adds among them that could be renames, and    *)
(* the rewriting of those that are confirmed.  Tables, columns, constraints  *)
(* and enum types are named by naturals, whose order is that of the maps.    *)
(***************************************************************************)
EXTENDS Schema, SequencesExt

\* The members of a set of names in their order.
Ordered(S) == [i \in 1..Cardinality(S) |-> CHOOSE x \in S : Cardinality({y \in S : y < x}) = i - 1]

\* The concatenation of what F makes of each member of S, in their order.
InOrder(S, F(_)) == FlattenSeq([i \in 1..Cardinality(S) |-> F(Ordered(S)[i])])

\* <<x>> when a condition holds.
When(condition, x) == IF condition THEN <<x>> ELSE <<>>

-----------------------------------------------------------------------------
\* Mutant: identity is not compared.
AlterationsButIdentity(t, c, from, to) ==
    When(from.type # to.type, AlterColumnType(t, c, from.type, to.type))
    \o When(from.nullable # to.nullable, SetNullable(t, c, to.nullable))
    \o When(from.unique # to.unique, SetUnique(t, c, to.unique))

\* diff_table: columns added, altered, dropped, and then the key.
AlterationsOf(t, c, from, to) ==
    When(from.type # to.type, AlterColumnType(t, c, from.type, to.type))
    \o When(from.nullable # to.nullable, SetNullable(t, c, to.nullable))
    \o When(from.unique # to.unique, SetUnique(t, c, to.unique))
    \o When(from.auto # to.auto, SetAutoIncrement(t, c, to.auto))

DiffTable(t, from, to) ==
    LET old == DOMAIN from.columns
        new == DOMAIN to.columns
    IN  InOrder(new \ old, LAMBDA c : <<AddColumn(t, c, to.columns[c])>>)
        \o InOrder(old \cap new, LAMBDA c : AlterationsOf(t, c, from.columns[c], to.columns[c]))
        \o InOrder(old \ new, LAMBDA c : <<DropColumn(t, c)>>)
        \o When(from.key # to.key, SetPrimaryKey(t, from.key, to.key))

\* The constraints of `these' that the other table does not have just so.
Unmatched(these, those) == {f \in DOMAIN these : ~(f \in DOMAIN those /\ those[f] = these[f])}

ForeignOf(s, t) == IF t \in Tables(s) THEN s.tables[t].foreign ELSE <<>>

ForeignKeyDrops(current, target) ==
    InOrder(Tables(current), LAMBDA t :
       InOrder(Unmatched(ForeignOf(current, t), ForeignOf(target, t)), LAMBDA f : <<DropForeignKey(t, f)>>))

ForeignKeyAdds(current, target) ==
    InOrder(Tables(target), LAMBDA t :
       InOrder(Unmatched(ForeignOf(target, t), ForeignOf(current, t)),
               LAMBDA f : <<AddForeignKey(t, f, ForeignOf(target, t)[f])>>))

TableChanges(current, target) ==
    InOrder(Tables(current) \cup Tables(target), LAMBDA t :
       IF t \notin Tables(target) THEN <<DropTable(t)>>
       ELSE IF t \notin Tables(current) THEN <<CreateTable(t, [target.tables[t] EXCEPT !.foreign = <<>>])>>
       ELSE DiffTable(t, current.tables[t], target.tables[t]))

\* An enum type grows in place; otherwise it is dropped and created anew, which
\* the apply refuses while a column has the type.
EnumChanges(e, from, to) ==
    IF from = to THEN <<>>
    ELSE IF Len(to) > Len(from) /\ IsPrefix(from, to)
    THEN [i \in 1..(Len(to) - Len(from)) |-> AddEnumVariant(e, to[Len(from) + i])]
    ELSE <<DropEnum(e), CreateEnum(e, to)>>

EnumCreates(current, target) ==
    InOrder(Enums(target), LAMBDA e :
       IF e \notin Enums(current) THEN <<CreateEnum(e, target.enums[e])>>
       ELSE EnumChanges(e, current.enums[e], target.enums[e]))

EnumDrops(current, target) == InOrder(Enums(current) \ Enums(target), LAMBDA e : <<DropEnum(e)>>)

\* Mutant: enum types are created after the columns that take them.
ChangesCreatingEnumsLate(current, target) ==
    ForeignKeyDrops(current, target) \o TableChanges(current, target)
    \o EnumCreates(current, target) \o ForeignKeyAdds(current, target)
    \o EnumDrops(current, target)

\* diff: enum types and foreign keys bracket everything else.
Changes(current, target) ==
    EnumCreates(current, target) \o ForeignKeyDrops(current, target)
    \o TableChanges(current, target) \o ForeignKeyAdds(current, target)
    \o EnumDrops(current, target)

-----------------------------------------------------------------------------
(* Renames.                                                                *)

TableRename(from, to) == [rename |-> "table", from |-> from, to |-> to]
ColumnRename(t, from, to) == [rename |-> "column", table |-> t, from |-> from, to |-> to]

\* same_table_shape: constraints are compared in their order but not by name, and
\* a reference of a table to itself counts as one.
SameTableShape(a, left, b, right) ==
    LET fs == Ordered(DOMAIN left.foreign)
        gs == Ordered(DOMAIN right.foreign)
    IN  /\ left.key = right.key
        /\ left.columns = right.columns
        /\ Len(fs) = Len(gs)
        /\ \A i \in DOMAIN fs :
              LET f == left.foreign[fs[i]]
                  g == right.foreign[gs[i]]
              IN  /\ f.table = g.table \/ (f.table = a /\ g.table = b)
                  /\ [f EXCEPT !.table = b] = [g EXCEPT !.table = b]

Candidates(current, target) ==
    {TableRename(t[1], t[2]) : t \in
       {p \in (Tables(current) \ Tables(target)) \X (Tables(target) \ Tables(current)) :
          SameTableShape(p[1], current.tables[p[1]], p[2], target.tables[p[2]])}}
    \cup
    UNION {LET from == current.tables[t].columns
               to == target.tables[t].columns
           IN  {ColumnRename(t, c[1], c[2]) : c \in
                  {p \in (DOMAIN from \ DOMAIN to) \X (DOMAIN to \ DOMAIN from) : from[p[1]] = to[p[2]]}} :
           t \in Tables(current) \cap Tables(target)}

\* The pair of changes a candidate stands for.
IsDrop(x, candidate) ==
    IF candidate.rename = "table" THEN x = DropTable(candidate.from)
    ELSE x = DropColumn(candidate.table, candidate.from)

IsAdd(x, candidate) ==
    IF candidate.rename = "table" THEN x.change = "CreateTable" /\ x.table = candidate.to
    ELSE x.change = "AddColumn" /\ x.table = candidate.table /\ x.name = candidate.to

\* The rename takes the place of whichever came first, the other change goes.
RewritePair(plan, drop, add, rename) ==
    LET first == IF drop < add THEN drop ELSE add
        second == IF drop < add THEN add ELSE drop
    IN  RemoveAt(ReplaceAt(plan, first, rename), second)

\* Mutant: the change of the primary key still expects the old column.
RekeyedNever(plan, t, from, to) == plan

\* A rename also renames in the key, so a change of the key expects the new name,
\* and goes when there is nothing left to change.
Rekeyed(plan, t, from, to) ==
    LET concerned(x) == x.change = "SetPrimaryKey" /\ x.table = t
        rekey(x) ==
          IF concerned(x)
          THEN [x EXCEPT !.from = [i \in DOMAIN x.from |-> IF x.from[i] = from THEN to ELSE x.from[i]]]
          ELSE x
        obsolete(x) == concerned(x) /\ x.from = x.to
    IN  FlattenSeq([i \in 1..Len(plan) |-> When(~obsolete(rekey(plan[i])), rekey(plan[i]))])

\* confirm_rename: the plan as it was when a change of the pair is gone.
Confirmable(plan, candidate) ==
    /\ \E i \in DOMAIN plan : IsDrop(plan[i], candidate)
    /\ \E i \in DOMAIN plan : IsAdd(plan[i], candidate)

Confirmed(plan, candidate) ==
    LET drop == CHOOSE i \in DOMAIN plan : IsDrop(plan[i], candidate)
        add == CHOOSE i \in DOMAIN plan : IsAdd(plan[i], candidate)
    IN  IF candidate.rename = "table"
        THEN RewritePair(plan, drop, add, RenameTable(candidate.from, candidate.to))
        ELSE Rekeyed(RewritePair(plan, drop, add,
                                 RenameColumn(candidate.table, candidate.from, candidate.to)),
                     candidate.table, candidate.from, candidate.to)

\* is_destructive: can lose data, or fail on existing rows.
IsDestructive(x) ==
    \/ x.change \in {"DropTable", "DropColumn", "AlterColumnType", "SetPrimaryKey", "AddForeignKey", "DropEnum"}
    \/ x.change = "AddColumn" /\ ~x.column.nullable
    \/ x.change = "SetNullable" /\ ~x.to
    \/ x.change \in {"SetUnique", "SetAutoIncrement"} /\ x.to

=============================================================================
