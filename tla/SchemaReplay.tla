----------------------------- MODULE SchemaReplay -----------------------------
(***************************************************************************)
(* The schema that migration files replay to (SchemaSet::apply_all).  Files  *)
(* are edited by hand, so any change may follow any other; what does not fit *)
(* is refused.  A created table carries no constraints, as in every file the *)
(* tool writes.                                                              *)
(***************************************************************************)
EXTENDS Schema

CONSTANTS
    TableNames, ColumnNames, ForeignKeyNames, EnumNames,
    ColumnDefs,     \* definitions of added columns, and what columns are altered to
    TableDefs,      \* definitions of created tables
    ForeignKeys,    \* definitions of added constraints
    Keys,           \* primary keys
    Variants

ASSUME TableDefsAssumption ==
    \A d \in TableDefs : d = [columns |-> d.columns, key |-> d.key, foreign |-> <<>>]

ASSUME ForeignKeysAssumption ==
    \A d \in ForeignKeys :
       d = [column |-> d.column, table |-> d.table, target |-> d.target, action |-> d.action]

VARIABLE replayed   \* the schema that the changes so far make

Step(x) == replayed' = Apply(replayed, x).schema

ReplayInit == replayed = EmptySchema

CreateOrDropTable ==
    \E t \in TableNames :
       \/ \E d \in TableDefs : Step(CreateTable(t, d))
       \/ Step(DropTable(t))
       \/ \E u \in TableNames : Step(RenameTable(t, u))

CreateOrDropColumn ==
    \E t \in TableNames, c \in ColumnNames :
       \/ \E d \in ColumnDefs : Step(AddColumn(t, c, d))
       \/ Step(DropColumn(t, c))
       \/ \E e \in ColumnNames : Step(RenameColumn(t, c, e))

AlterColumn ==
    \E t \in TableNames, c \in ColumnNames :
       \/ \E d, e \in ColumnDefs : Step(AlterColumnType(t, c, d.type, e.type))
       \/ \E d \in ColumnDefs :
             \/ Step(SetNullable(t, c, d.nullable))
             \/ Step(SetUnique(t, c, d.unique))
             \/ Step(SetAutoIncrement(t, c, d.auto))

Constrain ==
    \E t \in TableNames :
       \/ \E k, l \in Keys : Step(SetPrimaryKey(t, k, l))
       \/ \E f \in ForeignKeyNames :
             \/ \E d \in ForeignKeys : Step(AddForeignKey(t, f, d))
             \/ Step(DropForeignKey(t, f))

ChangeEnum ==
    \E e \in EnumNames :
       \/ Step(CreateEnum(e, <<>>))
       \/ \E v \in Variants : Step(AddEnumVariant(e, v))
       \/ Step(DropEnum(e))

ReplayNext ==
    \/ CreateOrDropTable
    \/ CreateOrDropColumn
    \/ AlterColumn
    \/ Constrain
    \/ ChangeEnum

ReplaySpec == ReplayInit /\ [][ReplayNext]_replayed

-----------------------------------------------------------------------------
\* "A dropped table takes its constraints along, and a dropped column those that
\* involve it", inbound constraints refuse the drop, and a rename carries them:
\* no chain of accepted changes leaves a foreign key without one of its columns.
ReferencesNeverDangle == NoDanglingReference(replayed)

\* A table rename is undone by the opposite one, references included: the schema
\* knows which constraints followed.
TableRenamesAreReversible ==
    \A t, u \in TableNames :
       LET there == Apply(replayed, RenameTable(t, u)) IN
       there.answer = "ok" => Apply(there.schema, RenameTable(u, t)).schema = replayed

=============================================================================
