------------------------------ MODULE SchemaProofs ------------------------------
(***************************************************************************)
(* Theorems about schemas and their changes.                                 *)
(*                                                                           *)
(* Replay: no chain of accepted changes leaves a dangling foreign key.  The  *)
(* invariant is inductive as it stands, given the shape of the records.  And *)
(* in every schema reached, a table rename is undone by the opposite one.    *)
(*                                                                           *)
(* Evolution: every plan of `diff', with any renames confirmed, is accepted  *)
(* and ends in its target.  The invariant says that what a plan still holds  *)
(* accounts for what still tells the schema from the target (Account), in an *)
(* order in which each change finds what it needs (Arranged).                *)
(***************************************************************************)
EXTENDS SchemaReplay, SchemaEvolution, FoldProofs

-----------------------------------------------------------------------------
(* The schema that migration files replay to.                              *)

TableShape(d) ==
    /\ DOMAIN d = {"columns", "key", "foreign"}
    /\ \A f \in DOMAIN d.foreign : DOMAIN d.foreign[f] = {"column", "table", "target", "action"}

Shape(s) ==
    /\ DOMAIN s = {"tables", "enums"}
    /\ \A t \in DOMAIN s.tables : TableShape(s.tables[t])

Sound(s) == Shape(s) /\ NoDanglingReference(s)

\* A table that is created, or replaced by one that has at least its columns and
\* whose constraints have theirs.
LEMMA ReplacedTable ==
  ASSUME NEW s, Sound(s), NEW t, NEW d, TableShape(d),
         t \in Tables(s) => DOMAIN s.tables[t].columns \subseteq DOMAIN d.columns,
         \A f \in DOMAIN d.foreign :
            /\ d.foreign[f].column \in DOMAIN d.columns
            /\ HasColumn(WithTable(s, t, d), d.foreign[f].table, d.foreign[f].target)
  PROVE  Sound(WithTable(s, t, d))
<1> DEFINE n == WithTable(s, t, d)
<1>1. /\ DOMAIN n = {"tables", "enums"}
      /\ DOMAIN n.tables = Tables(s) \cup {t}
      /\ n.tables[t] = d
      /\ \A u \in Tables(s) \ {t} : n.tables[u] = s.tables[u]
  BY DEF Sound, Shape, WithTable, Put, Tables
<1> HIDE DEF n
<1>2. Shape(n)
  BY <1>1 DEF Sound, Shape, Tables
<1>3. \A u, c : HasColumn(s, u, c) => HasColumn(n, u, c)
  BY <1>1 DEF HasColumn, Tables
<1>4. ASSUME NEW u \in Tables(n) PROVE ReferencesOf(n, u)
  <2>1. CASE u = t
    BY <2>1, <1>1 DEF ReferencesOf, HasColumn, Tables, n
  <2>2. CASE u # t
    <3>1. u \in Tables(s) /\ n.tables[u] = s.tables[u]
      BY <1>1, <1>4, <2>2 DEF Tables
    <3>2. ReferencesOf(s, u)
      BY <3>1 DEF Sound, NoDanglingReference
    <3> QED BY <3>1, <3>2, <1>3 DEF ReferencesOf
  <2> QED BY <2>1, <2>2
<1> QED BY <1>2, <1>4 DEF Sound, NoDanglingReference, n

\* An existing table whose columns are extended and whose constraints stay.
LEMMA ExtendedTable ==
  ASSUME NEW s, Sound(s), NEW t \in Tables(s), NEW d, TableShape(d),
         DOMAIN s.tables[t].columns \subseteq DOMAIN d.columns,
         DOMAIN d.foreign \subseteq DOMAIN s.tables[t].foreign,
         \A f \in DOMAIN d.foreign : d.foreign[f] = s.tables[t].foreign[f]
  PROVE  Sound(WithTable(s, t, d))
<1> DEFINE n == WithTable(s, t, d)
<1>1. /\ DOMAIN n.tables = Tables(s)
      /\ n.tables[t] = d
      /\ \A u \in Tables(s) \ {t} : n.tables[u] = s.tables[u]
  BY DEF Sound, Shape, WithTable, Put, Tables
<1> HIDE DEF n
<1>2. \A u, c : HasColumn(s, u, c) => HasColumn(n, u, c)
  BY <1>1 DEF HasColumn, Tables
<1>3. ASSUME NEW f \in DOMAIN d.foreign
      PROVE  /\ d.foreign[f].column \in DOMAIN d.columns
             /\ HasColumn(n, d.foreign[f].table, d.foreign[f].target)
  BY <1>2, <1>3 DEF Sound, NoDanglingReference, ReferencesOf, HasColumn
<1> QED BY <1>3, ReplacedTable DEF n

LEMMA CreateTableKeeps ==
  ASSUME NEW s, Sound(s), NEW x, TableShape(x.def), DOMAIN x.def.foreign = {}
  PROVE  Sound(ApplyCreateTable(s, x).schema)
BY ReplacedTable DEF ApplyCreateTable, Accept, Reject

LEMMA DropTableKeeps ==
  ASSUME NEW s, Sound(s), NEW x
  PROVE  Sound(ApplyDropTable(s, x).schema)
<1>1. SUFFICES ASSUME ~ReferencedByOther(s, x.table), x.table \in Tables(s)
               PROVE  Sound([s EXCEPT !.tables = Without(s.tables, x.table)])
  BY DEF ApplyDropTable, Accept, Reject
<1> DEFINE n == [s EXCEPT !.tables = Without(s.tables, x.table)]
<1>2. /\ DOMAIN n = {"tables", "enums"}
      /\ DOMAIN n.tables = Tables(s) \ {x.table}
      /\ \A u \in Tables(n) : n.tables[u] = s.tables[u]
  BY DEF Sound, Shape, Without, Tables
<1> HIDE DEF n
<1>3. Shape(n)
  BY <1>2 DEF Sound, Shape, Tables
<1>4. ASSUME NEW u \in Tables(n), NEW f \in DOMAIN n.tables[u].foreign
      PROVE  /\ HasColumn(n, u, n.tables[u].foreign[f].column)
             /\ HasColumn(n, n.tables[u].foreign[f].table, n.tables[u].foreign[f].target)
  <2>1. u \in Tables(s) /\ u # x.table /\ n.tables[u] = s.tables[u]
    BY <1>2, <1>4 DEF Tables
  <2>2. /\ HasColumn(s, u, s.tables[u].foreign[f].column)
        /\ HasColumn(s, s.tables[u].foreign[f].table, s.tables[u].foreign[f].target)
    BY <2>1, <1>4 DEF Sound, NoDanglingReference, ReferencesOf
  <2>3. s.tables[u].foreign[f].table # x.table
    BY <2>1, <1>1, <1>4 DEF ReferencedByOther
  <2> QED BY <2>1, <2>2, <2>3, <1>2 DEF HasColumn, Tables
<1> QED BY <1>3, <1>4 DEF Sound, NoDanglingReference, ReferencesOf, n

LEMMA RenameTableKeeps ==
  ASSUME NEW s, Sound(s), NEW x
  PROVE  Sound(ApplyRenameTable(s, x).schema)
<1> DEFINE a == x.table
           b == x.to
           moved == Put(Without(s.tables, a), b, s.tables[a])
           tables == [t \in DOMAIN moved |->
                        [moved[t] EXCEPT !.foreign = Retargeted(moved[t].foreign, a, b)]]
           n == [s EXCEPT !.tables = tables]
           former(t) == IF t = b THEN a ELSE t
<1>1. SUFFICES ASSUME b \notin Tables(s), a \in Tables(s)
               PROVE  Sound(n)
  BY DEF ApplyRenameTable, Accept, Reject
<1>2. /\ DOMAIN n = {"tables", "enums"}
      /\ n.tables = tables
      /\ Tables(n) = (Tables(s) \ {a}) \cup {b}
  BY DEF Sound, Shape, Put, Without, Tables
<1>3. ASSUME NEW t \in Tables(n)
      PROVE  /\ former(t) \in Tables(s)
             /\ moved[t] = s.tables[former(t)]
             /\ n.tables[t] = [s.tables[former(t)] EXCEPT
                                 !.foreign = Retargeted(s.tables[former(t)].foreign, a, b)]
  BY <1>1, <1>2, <1>3 DEF Put, Without, Tables
<1> HIDE DEF moved, tables, n
<1>4. ASSUME NEW t \in Tables(n)
      PROVE  /\ TableShape(s.tables[former(t)])
             /\ DOMAIN n.tables[t] = {"columns", "key", "foreign"}
             /\ n.tables[t].columns = s.tables[former(t)].columns
             /\ n.tables[t].foreign = Retargeted(s.tables[former(t)].foreign, a, b)
  <2> DEFINE old == s.tables[former(t)]
  <2>1. TableShape(old) /\ n.tables[t] = [old EXCEPT !.foreign = Retargeted(old.foreign, a, b)]
    BY <1>3, <1>4 DEF Sound, Shape, Tables
  <2> HIDE DEF old
  <2>2. /\ DOMAIN n.tables[t] = {"columns", "key", "foreign"}
        /\ n.tables[t].columns = old.columns
        /\ n.tables[t].foreign = Retargeted(old.foreign, a, b)
    BY <2>1, SMTT(40) DEF TableShape
  <2> QED BY <2>1, <2>2 DEF old
<1>5. ASSUME NEW t \in Tables(n), NEW f \in DOMAIN n.tables[t].foreign
      PROVE  LET old == s.tables[former(t)].foreign[f]
                 new == n.tables[t].foreign[f]
             IN  /\ f \in DOMAIN s.tables[former(t)].foreign
                 /\ DOMAIN new = {"column", "table", "target", "action"}
                 /\ new.column = old.column
                 /\ new.target = old.target
                 /\ new.table = IF old.table = a THEN b ELSE old.table
  <2> DEFINE foreign == s.tables[former(t)].foreign
             old == foreign[f]
             new == n.tables[t].foreign[f]
  <2>1. f \in DOMAIN foreign /\ new = IF old.table = a THEN [old EXCEPT !.table = b] ELSE old
    <3>1. n.tables[t].foreign = Retargeted(foreign, a, b)
      BY <1>4, <1>5
    <3> HIDE DEF foreign
    <3>2. DOMAIN Retargeted(foreign, a, b) = DOMAIN foreign
      BY DEF Retargeted
    <3>3. f \in DOMAIN foreign
      BY <1>5, <3>1, <3>2
    <3>4. Retargeted(foreign, a, b)[f] = IF foreign[f].table = a THEN [foreign[f] EXCEPT !.table = b] ELSE foreign[f]
      BY <3>3, SMTT(40) DEF Retargeted
    <3> QED BY <3>1, <3>3, <3>4
  <2>2. DOMAIN old = {"column", "table", "target", "action"}
    BY <1>4, <1>5, <2>1 DEF TableShape
  <2> HIDE DEF foreign, old, new
  <2>3. /\ DOMAIN new = {"column", "table", "target", "action"}
        /\ new.column = old.column
        /\ new.target = old.target
        /\ new.table = IF old.table = a THEN b ELSE old.table
    BY <2>1, <2>2
  <2> QED BY <2>1, <2>3 DEF foreign, old, new
<1>6. Shape(n)
  BY <1>2, <1>4, <1>5 DEF Shape, TableShape, Tables
<1>7. ASSUME NEW u, NEW c, HasColumn(s, u, c)
      PROVE  HasColumn(n, IF u = a THEN b ELSE u, c)
  <2> DEFINE v == IF u = a THEN b ELSE u
  <2>1. u \in Tables(s) /\ c \in DOMAIN s.tables[u].columns
    BY <1>7 DEF HasColumn
  <2>2. v \in Tables(n) /\ former(v) = u
    BY <2>1, <1>1, <1>2
  <2>3. n.tables[v].columns = s.tables[u].columns
    BY <2>2, <1>4, SMTT(40)
  <2> QED BY <2>1, <2>2, <2>3 DEF HasColumn
<1>8. ASSUME NEW t \in Tables(n), NEW f \in DOMAIN n.tables[t].foreign
      PROVE  /\ HasColumn(n, t, n.tables[t].foreign[f].column)
             /\ HasColumn(n, n.tables[t].foreign[f].table, n.tables[t].foreign[f].target)
  <2> DEFINE old == s.tables[former(t)].foreign[f]
  <2>1. /\ HasColumn(s, former(t), old.column)
        /\ HasColumn(s, old.table, old.target)
    BY <1>3, <1>5, <1>8, ZenonT(60) DEF Sound, NoDanglingReference, ReferencesOf
  <2>2. t = IF former(t) = a THEN b ELSE former(t)
    BY <1>1, <1>2, <1>8
  <2>3. HasColumn(n, t, old.column)
    BY <2>1, <2>2, <1>7
  <2>4. HasColumn(n, IF old.table = a THEN b ELSE old.table, old.target)
    BY <2>1, <1>7
  <2> QED BY <2>3, <2>4, <1>5, <1>8
<1> QED BY <1>6, <1>8 DEF Sound, NoDanglingReference, ReferencesOf

\* A column added, or replaced by another definition of it.
LEMMA AlteredColumn ==
  ASSUME NEW s, Sound(s), NEW t \in Tables(s), NEW c, NEW column
  PROVE  Sound(WithColumn(s, t, c, column))
<1> DEFINE d == [s.tables[t] EXCEPT !.columns = Put(s.tables[t].columns, c, column)]
<1>1. /\ TableShape(d)
      /\ DOMAIN s.tables[t].columns \subseteq DOMAIN d.columns
      /\ d.foreign = s.tables[t].foreign
  BY DEF Sound, Shape, Tables, TableShape, Put
<1> HIDE DEF d
<1>2. Sound(WithTable(s, t, d))
  BY <1>1, ExtendedTable
<1> QED BY <1>2 DEF WithColumn, d

LEMMA ColumnsKeep ==
  ASSUME NEW s, Sound(s), NEW x
  PROVE  /\ Sound(ApplyAddColumn(s, x).schema)
         /\ Sound(ApplyAlterColumnType(s, x).schema)
         /\ Sound(ApplySetFlag(s, x).schema)
<1>1. Sound(ApplyAddColumn(s, x).schema)
  BY AlteredColumn DEF ApplyAddColumn, Accept, Reject
<1>2. Sound(ApplyAlterColumnType(s, x).schema)
  BY AlteredColumn, SMTT(40) DEF ApplyAlterColumnType, Accept, Reject
<1>3. Sound(ApplySetFlag(s, x).schema)
  BY AlteredColumn DEF ApplySetFlag, Accept, Reject
<1> QED BY <1>1, <1>2, <1>3

LEMMA DropColumnKeeps ==
  ASSUME NEW s, Sound(s), NEW x
  PROVE  Sound(ApplyDropColumn(s, x).schema)
<1> DEFINE t == x.table
           c == x.name
           def == s.tables[t]
           kept == {f \in DOMAIN def.foreign :
                      /\ def.foreign[f].column # c
                      /\ ~(def.foreign[f].table = t /\ def.foreign[f].target = c)}
           d == [def EXCEPT !.columns = Without(def.columns, c),
                            !.foreign = [f \in kept |-> def.foreign[f]]]
           n == WithTable(s, t, d)
<1>1. SUFFICES ASSUME ~ColumnReferencedByOther(s, t, c), t \in Tables(s), c \in DOMAIN def.columns
               PROVE  Sound(n)
  BY SMTT(40) DEF ApplyDropColumn, Accept, Reject
<1>2. /\ DOMAIN d = {"columns", "key", "foreign"}
      /\ DOMAIN d.columns = DOMAIN def.columns \ {c}
      /\ DOMAIN d.foreign = kept
      /\ \A f \in kept : d.foreign[f] = def.foreign[f]
  BY <1>1, SMTT(40) DEF Sound, Shape, Tables, TableShape, Without
<1>3. TableShape(d)
  BY <1>1, <1>2 DEF Sound, Shape, Tables, TableShape
<1> HIDE DEF d
<1>4. /\ DOMAIN n = {"tables", "enums"}
      /\ DOMAIN n.tables = Tables(s)
      /\ n.tables[t] = d
      /\ \A u \in Tables(s) \ {t} : n.tables[u] = s.tables[u]
  BY <1>1 DEF Sound, Shape, WithTable, Put, Tables
<1> HIDE DEF n
<1>5. Shape(n)
  BY <1>3, <1>4 DEF Sound, Shape, Tables
<1>6. \A u, e : HasColumn(s, u, e) /\ ~(u = t /\ e = c) => HasColumn(n, u, e)
  BY <1>2, <1>4 DEF HasColumn, Tables
<1>7. ASSUME NEW u \in Tables(n), NEW f \in DOMAIN n.tables[u].foreign
      PROVE  /\ HasColumn(n, u, n.tables[u].foreign[f].column)
             /\ HasColumn(n, n.tables[u].foreign[f].table, n.tables[u].foreign[f].target)
  <2> DEFINE old == s.tables[u].foreign[f]
  <2>1. u \in Tables(s) /\ f \in DOMAIN s.tables[u].foreign /\ n.tables[u].foreign[f] = old
    BY <1>2, <1>4, <1>7 DEF Tables
  <2>2. HasColumn(s, u, old.column) /\ HasColumn(s, old.table, old.target)
    BY <2>1 DEF Sound, NoDanglingReference, ReferencesOf
  <2>3. ~(u = t /\ old.column = c)
    BY <1>2, <1>4, <1>7
  <2>4. ~(old.table = t /\ old.target = c)
    <3>1. CASE u = t
      BY <1>2, <1>4, <1>7, <2>1, <3>1
    <3>2. CASE u # t
      <4>1. u \in Tables(s) \ {t} /\ old = s.tables[u].foreign[f] /\ f \in DOMAIN s.tables[u].foreign
        BY <2>1, <3>2, SMTT(40)
      <4> HIDE DEF old
      <4> QED BY <1>1, <4>1 DEF ColumnReferencedByOther
    <3> QED BY <3>1, <3>2
  <2> QED BY <2>1, <2>2, <2>3, <2>4, <1>6
<1> QED BY <1>5, <1>7 DEF Sound, NoDanglingReference, ReferencesOf

LEMMA RenameColumnKeeps ==
  ASSUME NEW s, Sound(s), NEW x
  PROVE  Sound(ApplyRenameColumn(s, x).schema)
<1> DEFINE t == x.table
           a == x.name
           b == x.to
           def == s.tables[t]
           columns == Put(Without(def.columns, a), b, def.columns[a])
           key == [i \in DOMAIN def.key |-> IF def.key[i] = a THEN b ELSE def.key[i]]
           d == [def EXCEPT !.columns = columns, !.key = key]
           renamed == Put(s.tables, t, d)
           tables == [u \in DOMAIN renamed |->
                        [renamed[u] EXCEPT !.foreign = Followed(renamed[u].foreign, u, x)]]
           n == [s EXCEPT !.tables = tables]
           columnsOf(u) == IF u = t THEN (DOMAIN def.columns \ {a}) \cup {b} ELSE DOMAIN s.tables[u].columns
<1>1. SUFFICES ASSUME t \in Tables(s), b \notin DOMAIN def.columns, a \in DOMAIN def.columns
               PROVE  Sound(n)
  BY DEF ApplyRenameColumn, Accept, Reject
<1>2. /\ DOMAIN d = {"columns", "key", "foreign"}
      /\ DOMAIN d.columns = columnsOf(t)
      /\ d.foreign = def.foreign
  BY <1>1 DEF Sound, Shape, Tables, TableShape, Put, Without
<1> HIDE DEF d
<1>3. /\ DOMAIN renamed = Tables(s)
      /\ \A u \in Tables(s) :
            /\ DOMAIN renamed[u] = {"columns", "key", "foreign"}
            /\ DOMAIN renamed[u].columns = columnsOf(u)
            /\ renamed[u].foreign = s.tables[u].foreign
  BY <1>1, <1>2 DEF Put, Tables, Sound, Shape, TableShape
<1> HIDE DEF renamed
<1>4. /\ DOMAIN n = {"tables", "enums"}
      /\ Tables(n) = Tables(s)
      /\ \A u \in Tables(s) :
            n.tables[u] = [renamed[u] EXCEPT !.foreign = Followed(renamed[u].foreign, u, x)]
  BY <1>3 DEF Sound, Shape, Tables
<1> HIDE DEF n
<1>5. ASSUME NEW u \in Tables(s)
      PROVE  /\ DOMAIN n.tables[u] = {"columns", "key", "foreign"}
             /\ DOMAIN n.tables[u].columns = columnsOf(u)
             /\ n.tables[u].foreign = Followed(s.tables[u].foreign, u, x)
  <2> DEFINE r == renamed[u]
             follows == Followed(r.foreign, u, x)
  <2>1. /\ DOMAIN r = {"columns", "key", "foreign"}
        /\ DOMAIN r.columns = columnsOf(u)
        /\ r.foreign = s.tables[u].foreign
        /\ n.tables[u] = [r EXCEPT !.foreign = follows]
    BY <1>3, <1>4
  <2> HIDE DEF columnsOf, r, follows
  <2>2. /\ DOMAIN n.tables[u] = {"columns", "key", "foreign"}
        /\ n.tables[u].columns = r.columns
        /\ n.tables[u].foreign = follows
    BY <2>1
  <2> QED BY <2>1, <2>2 DEF follows
<1> HIDE DEF columnsOf
<1>6. ASSUME NEW u \in Tables(s), NEW f \in DOMAIN n.tables[u].foreign
      PROVE  LET old == s.tables[u].foreign[f]
                 new == n.tables[u].foreign[f]
             IN  /\ f \in DOMAIN s.tables[u].foreign
                 /\ DOMAIN new = {"column", "table", "target", "action"}
                 /\ new.column = IF u = t /\ old.column = a THEN b ELSE old.column
                 /\ new.table = old.table
                 /\ new.target = IF old.table = t /\ old.target = a THEN b ELSE old.target
  <2> DEFINE foreign == s.tables[u].foreign
             old == foreign[f]
             new == n.tables[u].foreign[f]
             column == IF u = t /\ old.column = a THEN b ELSE old.column
             targeted == IF old.table = t /\ old.target = a THEN b ELSE old.target
  <2>1. f \in DOMAIN foreign /\ new = [old EXCEPT !.column = column, !.target = targeted]
    <3>1. n.tables[u].foreign = Followed(foreign, u, x)
      BY <1>5, <1>6
    <3> HIDE DEF foreign
    <3>2. DOMAIN Followed(foreign, u, x) = DOMAIN foreign
      BY DEF Followed
    <3>3. f \in DOMAIN foreign
      BY <1>6, <3>1, <3>2
    <3>4. Followed(foreign, u, x)[f] = [foreign[f] EXCEPT !.column = column, !.target = targeted]
      BY <3>3 DEF Followed
    <3> QED BY <3>1, <3>3, <3>4
  <2>2. DOMAIN old = {"column", "table", "target", "action"}
    BY <1>6, <2>1 DEF Sound, Shape, TableShape, Tables
  <2> HIDE DEF foreign, old, new, column, targeted
  <2>3. /\ DOMAIN new = {"column", "table", "target", "action"}
        /\ new.column = column
        /\ new.table = old.table
        /\ new.target = targeted
    BY <2>1, <2>2
  <2> QED BY <2>1, <2>3 DEF foreign, old, new, column, targeted
<1>7. Shape(n)
  BY <1>4, <1>5, <1>6 DEF Shape, TableShape, Tables
<1>8. ASSUME NEW u, NEW c, HasColumn(s, u, c)
      PROVE  HasColumn(n, u, IF u = t /\ c = a THEN b ELSE c)
  BY <1>1, <1>4, <1>5, <1>8, SMTT(40) DEF HasColumn, columnsOf
<1>9. ASSUME NEW u \in Tables(n), NEW f \in DOMAIN n.tables[u].foreign
      PROVE  /\ HasColumn(n, u, n.tables[u].foreign[f].column)
             /\ HasColumn(n, n.tables[u].foreign[f].table, n.tables[u].foreign[f].target)
  <2> DEFINE old == s.tables[u].foreign[f]
  <2>0. u \in Tables(s) /\ f \in DOMAIN s.tables[u].foreign
    BY <1>4, <1>6, <1>9
  <2>1. HasColumn(s, u, old.column) /\ HasColumn(s, old.table, old.target)
    BY <2>0 DEF Sound, NoDanglingReference, ReferencesOf
  <2>2. HasColumn(n, u, IF u = t /\ old.column = a THEN b ELSE old.column)
    BY <2>1, <1>8
  <2>3. HasColumn(n, old.table, IF old.table = t /\ old.target = a THEN b ELSE old.target)
    <3>1. \A v, c : HasColumn(s, v, c) => HasColumn(n, v, IF v = t /\ c = a THEN b ELSE c)
      BY <1>8
    <3> QED BY <2>1, <3>1
  <2> QED BY <2>0, <2>2, <2>3, <1>6, <1>9
<1> QED BY <1>7, <1>9 DEF Sound, NoDanglingReference, ReferencesOf

LEMMA ConstraintsKeep ==
  ASSUME NEW s, Sound(s), NEW x
  PROVE  /\ Sound(ApplySetPrimaryKey(s, x).schema)
         /\ Sound(ApplyDropForeignKey(s, x).schema)
         /\ DOMAIN x.foreign = {"column", "table", "target", "action"} =>
               Sound(ApplyAddForeignKey(s, x).schema)
<1> DEFINE t == x.table
           old == s.tables[t]
<1>1. Sound(ApplySetPrimaryKey(s, x).schema)
  <2>1. SUFFICES ASSUME t \in Tables(s) PROVE Sound(WithTable(s, t, [old EXCEPT !.key = x.to]))
    BY DEF ApplySetPrimaryKey, Accept, Reject
  <2> DEFINE d == [old EXCEPT !.key = x.to]
  <2>2. TableShape(d) /\ d.columns = old.columns /\ d.foreign = old.foreign
    BY <2>1 DEF Sound, Shape, Tables, TableShape
  <2> HIDE DEF d
  <2>3. Sound(WithTable(s, t, d))
    BY <2>1, <2>2, ExtendedTable
  <2> QED BY <2>3 DEF d
<1>2. Sound(ApplyDropForeignKey(s, x).schema)
  <2>1. SUFFICES ASSUME t \in Tables(s)
                 PROVE  Sound(WithTable(s, t, [old EXCEPT !.foreign = Without(old.foreign, x.name)]))
    BY DEF ApplyDropForeignKey, Accept, Reject
  <2> DEFINE d == [old EXCEPT !.foreign = Without(old.foreign, x.name)]
  <2>2. /\ TableShape(d)
        /\ d.columns = old.columns
        /\ DOMAIN d.foreign \subseteq DOMAIN old.foreign
        /\ \A f \in DOMAIN d.foreign : d.foreign[f] = old.foreign[f]
    BY <2>1 DEF Sound, Shape, Tables, TableShape, Without
  <2> HIDE DEF d
  <2>3. Sound(WithTable(s, t, d))
    BY <2>1, <2>2, ExtendedTable
  <2> QED BY <2>3 DEF d
<1>3. ASSUME DOMAIN x.foreign = {"column", "table", "target", "action"}
      PROVE  Sound(ApplyAddForeignKey(s, x).schema)
  <2>1. SUFFICES ASSUME t \in Tables(s), HasColumn(s, t, x.foreign.column),
                        HasColumn(s, x.foreign.table, x.foreign.target)
                 PROVE  Sound(WithTable(s, t, [old EXCEPT !.foreign = Put(old.foreign, x.name, x.foreign)]))
    BY DEF ApplyAddForeignKey, Accept, Reject
  <2> DEFINE d == [old EXCEPT !.foreign = Put(old.foreign, x.name, x.foreign)]
             n == WithTable(s, t, d)
  <2>2. /\ TableShape(d)
        /\ d.columns = old.columns
        /\ \A f \in DOMAIN d.foreign :
              d.foreign[f] = x.foreign \/ (f \in DOMAIN old.foreign /\ d.foreign[f] = old.foreign[f])
    BY <2>1, <1>3 DEF Sound, Shape, Tables, TableShape, Put
  <2> HIDE DEF d
  <2>3. /\ Tables(n) = Tables(s)
        /\ \A u \in Tables(s) : n.tables[u].columns = s.tables[u].columns
    BY <2>1, <2>2 DEF Sound, Shape, WithTable, Put, Tables
  <2>4. \A u, c : HasColumn(s, u, c) => HasColumn(n, u, c)
    BY <2>3 DEF HasColumn
  <2>5. ASSUME NEW f \in DOMAIN d.foreign
        PROVE  HasColumn(s, t, d.foreign[f].column) /\ HasColumn(s, d.foreign[f].table, d.foreign[f].target)
    <3>1. CASE d.foreign[f] = x.foreign
      BY <3>1, <2>1
    <3>2. CASE f \in DOMAIN old.foreign /\ d.foreign[f] = old.foreign[f]
      BY <3>2, <2>1 DEF Sound, NoDanglingReference, ReferencesOf
    <3> QED BY <3>1, <3>2, <2>2
  <2>6. \A f \in DOMAIN d.foreign :
           /\ d.foreign[f].column \in DOMAIN d.columns
           /\ HasColumn(n, d.foreign[f].table, d.foreign[f].target)
    BY <2>2, <2>4, <2>5 DEF HasColumn
  <2>7. Sound(n)
    BY <2>2, <2>6, ReplacedTable
  <2> QED BY <2>7 DEF d, n
<1> QED BY <1>1, <1>2, <1>3

LEMMA EnumsKeep ==
  ASSUME NEW s, Sound(s), NEW x
  PROVE  /\ Sound(ApplyCreateEnum(s, x).schema)
         /\ Sound(ApplyAddEnumVariant(s, x).schema)
         /\ Sound(ApplyDropEnum(s, x).schema)
<1>1. ASSUME NEW enums PROVE Sound([s EXCEPT !.enums = enums])
  BY DEF Sound, Shape, NoDanglingReference, ReferencesOf, HasColumn, Tables
<1> QED BY <1>1 DEF ApplyCreateEnum, ApplyAddEnumVariant, ApplyDropEnum, Accept, Reject

-----------------------------------------------------------------------------
LEMMA SoundNext == Sound(replayed) /\ [ReplayNext]_replayed => Sound(replayed)'
<1> SUFFICES ASSUME Sound(replayed), [ReplayNext]_replayed PROVE Sound(replayed')
  BY DEF Sound, Shape, NoDanglingReference, ReferencesOf, HasColumn, Tables, TableShape
<1>1. CASE CreateOrDropTable
  <2>1. ASSUME NEW t, NEW d \in TableDefs, Step(CreateTable(t, d)) PROVE Sound(replayed')
    BY <2>1, CreateTableKeeps, TableDefsAssumption DEF Step, Apply, CreateTable, TableShape
  <2>2. ASSUME NEW t, Step(DropTable(t)) PROVE Sound(replayed')
    BY <2>2, DropTableKeeps DEF Step, Apply, DropTable
  <2>3. ASSUME NEW t, NEW u, Step(RenameTable(t, u)) PROVE Sound(replayed')
    BY <2>3, RenameTableKeeps DEF Step, Apply, RenameTable
  <2> QED BY <1>1, <2>1, <2>2, <2>3 DEF CreateOrDropTable
<1>2. CASE CreateOrDropColumn
  <2>1. ASSUME NEW t, NEW c, NEW d, Step(AddColumn(t, c, d)) PROVE Sound(replayed')
    BY <2>1, ColumnsKeep DEF Step, Apply, AddColumn
  <2>2. ASSUME NEW t, NEW c, Step(DropColumn(t, c)) PROVE Sound(replayed')
    BY <2>2, DropColumnKeeps DEF Step, Apply, DropColumn
  <2>3. ASSUME NEW t, NEW c, NEW e, Step(RenameColumn(t, c, e)) PROVE Sound(replayed')
    BY <2>3, RenameColumnKeeps DEF Step, Apply, RenameColumn
  <2> QED BY <1>2, <2>1, <2>2, <2>3 DEF CreateOrDropColumn
<1>3. CASE AlterColumn
  <2>1. ASSUME NEW t, NEW c, NEW from, NEW to, Step(AlterColumnType(t, c, from, to)) PROVE Sound(replayed')
    BY <2>1, ColumnsKeep DEF Step, Apply, AlterColumnType
  <2>2. ASSUME NEW t, NEW c, NEW b, Step(SetNullable(t, c, b)) PROVE Sound(replayed')
    BY <2>2, ColumnsKeep DEF Step, Apply, SetNullable
  <2>3. ASSUME NEW t, NEW c, NEW b, Step(SetUnique(t, c, b)) PROVE Sound(replayed')
    BY <2>3, ColumnsKeep DEF Step, Apply, SetUnique
  <2>4. ASSUME NEW t, NEW c, NEW b, Step(SetAutoIncrement(t, c, b)) PROVE Sound(replayed')
    BY <2>4, ColumnsKeep DEF Step, Apply, SetAutoIncrement
  <2> QED BY <1>3, <2>1, <2>2, <2>3, <2>4 DEF AlterColumn
<1>4. CASE Constrain
  <2>1. ASSUME NEW t, NEW k, NEW l, Step(SetPrimaryKey(t, k, l)) PROVE Sound(replayed')
    BY <2>1, ConstraintsKeep DEF Step, Apply, SetPrimaryKey
  <2>2. ASSUME NEW t, NEW f, NEW d \in ForeignKeys, Step(AddForeignKey(t, f, d)) PROVE Sound(replayed')
    BY <2>2, ConstraintsKeep, ForeignKeysAssumption DEF Step, Apply, AddForeignKey
  <2>3. ASSUME NEW t, NEW f, Step(DropForeignKey(t, f)) PROVE Sound(replayed')
    BY <2>3, ConstraintsKeep DEF Step, Apply, DropForeignKey
  <2> QED BY <1>4, <2>1, <2>2, <2>3 DEF Constrain
<1>5. CASE ChangeEnum
  <2>1. ASSUME NEW e, NEW variants, Step(CreateEnum(e, variants)) PROVE Sound(replayed')
    BY <2>1, EnumsKeep DEF Step, Apply, CreateEnum
  <2>2. ASSUME NEW e, NEW v, Step(AddEnumVariant(e, v)) PROVE Sound(replayed')
    BY <2>2, EnumsKeep DEF Step, Apply, AddEnumVariant
  <2>3. ASSUME NEW e, Step(DropEnum(e)) PROVE Sound(replayed')
    BY <2>3, EnumsKeep DEF Step, Apply, DropEnum
  <2> QED BY <1>5, <2>1, <2>2, <2>3 DEF ChangeEnum
<1>6. CASE UNCHANGED replayed
  BY <1>6
<1> QED BY <1>1, <1>2, <1>3, <1>4, <1>5, <1>6 DEF ReplayNext

LEMMA SoundInit == ReplayInit => Sound(replayed)
BY DEF ReplayInit, EmptySchema, Sound, Shape, NoDanglingReference, Tables

\* Whatever changes follow each other, whatever the names and definitions: what
\* is accepted leaves no foreign key without its columns.
THEOREM NoDanglingEver == ReplaySpec => []ReferencesNeverDangle
<1>1. Sound(replayed) => ReferencesNeverDangle
  BY DEF Sound, ReferencesNeverDangle
<1> QED BY SoundInit, SoundNext, <1>1, PTL DEF ReplaySpec

-----------------------------------------------------------------------------
(* A renamed table renamed back.  The schemas are compared whole, so that    *)
(* they, their tables and their constraints have to be the records and maps  *)
(* they look like: the second invariant.                                     *)

ForeignForm(F) ==
    F = [f \in DOMAIN F |-> [column |-> F[f].column, table |-> F[f].table,
                             target |-> F[f].target, action |-> F[f].action]]

TableForm(d) == d = [columns |-> d.columns, key |-> d.key, foreign |-> d.foreign] /\ ForeignForm(d.foreign)

Form(s) ==
    /\ s = [tables |-> s.tables, enums |-> s.enums]
    /\ s.tables = [t \in DOMAIN s.tables |-> s.tables[t]]
    /\ \A t \in DOMAIN s.tables : TableForm(s.tables[t])

LEMMA TablesForm ==
  ASSUME NEW s, Form(s), NEW tables, tables = [t \in DOMAIN tables |-> tables[t]],
         \A t \in DOMAIN tables : TableForm(tables[t])
  PROVE  Form([s EXCEPT !.tables = tables])
<1>1. [s EXCEPT !.tables = tables] = [tables |-> tables, enums |-> s.enums]
  BY DEF Form
<1> QED BY <1>1 DEF Form

LEMMA EnumsForm ==
  ASSUME NEW s, Form(s), NEW enums
  PROVE  Form([s EXCEPT !.enums = enums])
<1>1. [s EXCEPT !.enums = enums] = [tables |-> s.tables, enums |-> enums]
  BY DEF Form
<1> QED BY <1>1 DEF Form

LEMMA WithTableForm ==
  ASSUME NEW s, Form(s), NEW t, NEW d, TableForm(d)
  PROVE  Form(WithTable(s, t, d))
<1> DEFINE tables == Put(s.tables, t, d)
<1>1. tables = [u \in DOMAIN tables |-> tables[u]] /\ \A u \in DOMAIN tables : TableForm(tables[u])
  BY DEF Put, Form
<1> HIDE DEF tables
<1>2. Form([s EXCEPT !.tables = tables])
  BY <1>1, TablesForm
<1> QED BY <1>2 DEF tables, WithTable

\* The parts of a table replaced one by one.
LEMMA EditedForm ==
  ASSUME NEW d, TableForm(d), NEW columns, NEW key, NEW F, ForeignForm(F)
  PROVE  /\ TableForm([d EXCEPT !.columns = columns])
         /\ TableForm([d EXCEPT !.key = key])
         /\ TableForm([d EXCEPT !.foreign = F])
         /\ TableForm([d EXCEPT !.columns = columns, !.foreign = F])
         /\ TableForm([d EXCEPT !.columns = columns, !.key = key])
<1>1. ASSUME NEW a, NEW G, ForeignForm(G), NEW k PROVE TableForm([columns |-> a, key |-> k, foreign |-> G])
  BY <1>1 DEF TableForm
<1>2. ASSUME NEW e, TableForm(e), NEW a PROVE TableForm([e EXCEPT !.columns = a])
  <2> DEFINE n == [e EXCEPT !.columns = a]
  <2>1. n = [columns |-> a, key |-> e.key, foreign |-> e.foreign]
    BY <1>2 DEF TableForm
  <2> QED BY <1>1, <1>2, <2>1 DEF TableForm
<1>3. ASSUME NEW e, TableForm(e), NEW k PROVE TableForm([e EXCEPT !.key = k])
  <2> DEFINE n == [e EXCEPT !.key = k]
  <2>1. n = [columns |-> e.columns, key |-> k, foreign |-> e.foreign]
    BY <1>3 DEF TableForm
  <2> QED BY <1>1, <1>3, <2>1 DEF TableForm
<1>4. ASSUME NEW e, TableForm(e) PROVE TableForm([e EXCEPT !.foreign = F])
  <2> DEFINE n == [e EXCEPT !.foreign = F]
  <2>1. n = [columns |-> e.columns, key |-> e.key, foreign |-> F]
    BY <1>4 DEF TableForm
  <2> QED BY <1>1, <1>4, <2>1 DEF TableForm
<1> DEFINE n == [d EXCEPT !.columns = columns]
<1>5. TableForm(n)
  BY <1>2
<1> HIDE DEF n
<1>6. TableForm([n EXCEPT !.key = key]) /\ TableForm([n EXCEPT !.foreign = F])
  BY <1>3, <1>4, <1>5
<1> QED BY <1>3, <1>4, <1>5, <1>6 DEF n

\* The maps of constraints the changes make.
LEMMA ConstraintForms ==
  ASSUME NEW F, ForeignForm(F)
  PROVE  /\ \A a, b : ForeignForm(Retargeted(F, a, b))
         /\ \A owner, x : ForeignForm(Followed(F, owner, x))
         /\ \A f : ForeignForm(Without(F, f))
         /\ \A kept \in SUBSET DOMAIN F : ForeignForm([f \in kept |-> F[f]])
         /\ \A f, d : d = [column |-> d.column, table |-> d.table, target |-> d.target,
                           action |-> d.action] => ForeignForm(Put(F, f, d))
<1> DEFINE rec(d) == [column |-> d.column, table |-> d.table, target |-> d.target, action |-> d.action]
<1>1. \A f \in DOMAIN F : F[f] = rec(F[f])
  BY DEF ForeignForm
<1>2. ASSUME NEW G, G = [f \in DOMAIN G |-> G[f]], \A f \in DOMAIN G : G[f] = rec(G[f])
      PROVE  ForeignForm(G)
  <2>1. [f \in DOMAIN G |-> G[f]] = [f \in DOMAIN G |-> rec(G[f])]
    BY <1>2
  <2> QED BY <1>2, <2>1 DEF ForeignForm
<1>3. ASSUME NEW a, NEW b PROVE ForeignForm(Retargeted(F, a, b))
  <2>1. ASSUME NEW f \in DOMAIN F PROVE [F[f] EXCEPT !.table = b] = rec([F[f] EXCEPT !.table = b])
    BY <1>1, <2>1
  <2> DEFINE G == Retargeted(F, a, b)
  <2>2. DOMAIN G = DOMAIN F /\ G = [f \in DOMAIN G |-> G[f]]
    BY DEF Retargeted
  <2>3. \A f \in DOMAIN G : G[f] = rec(G[f])
    BY <1>1, <2>1 DEF Retargeted
  <2> HIDE DEF G, rec
  <2>4. ForeignForm(G)
    BY <1>2, <2>2, <2>3
  <2> QED BY <2>4 DEF G
<1>4. ASSUME NEW owner, NEW x PROVE ForeignForm(Followed(F, owner, x))
  <2>1. ASSUME NEW f \in DOMAIN F, NEW c, NEW e
        PROVE  [F[f] EXCEPT !.column = c, !.target = e] = rec([F[f] EXCEPT !.column = c, !.target = e])
    <3> DEFINE d == [F[f] EXCEPT !.column = c]
               e2 == [d EXCEPT !.target = e]
    <3>1. d = [column |-> c, table |-> F[f].table, target |-> F[f].target, action |-> F[f].action]
      BY <1>1
    <3> HIDE DEF d
    <3>2. e2 = [column |-> c, table |-> F[f].table, target |-> e, action |-> F[f].action]
      BY <3>1
    <3>3. e2 = rec(e2)
      BY <3>2
    <3> QED BY <3>3 DEF d
  <2> DEFINE G == Followed(F, owner, x)
  <2>2. DOMAIN G = DOMAIN F /\ G = [f \in DOMAIN G |-> G[f]]
    BY DEF Followed
  <2>3. \A f \in DOMAIN G : G[f] = rec(G[f])
    BY <1>1, <2>1 DEF Followed
  <2> HIDE DEF G, rec
  <2>4. ForeignForm(G)
    BY <1>2, <2>2, <2>3
  <2> QED BY <2>4 DEF G
<1>5. ASSUME NEW kept \in SUBSET DOMAIN F PROVE ForeignForm([f \in kept |-> F[f]])
  BY <1>1, <1>2
<1>6. ASSUME NEW f PROVE ForeignForm(Without(F, f))
  BY <1>5 DEF Without
<1>7. ASSUME NEW f, NEW d, d = rec(d) PROVE ForeignForm(Put(F, f, d))
  BY <1>1, <1>2, <1>7 DEF Put
<1> QED BY <1>3, <1>4, <1>5, <1>6, <1>7

\* The constraints of every table replaced.
LEMMA RetargetedForm ==
  ASSUME NEW s, Form(s), NEW moved, NEW tables, DOMAIN tables = DOMAIN moved,
         tables = [t \in DOMAIN tables |-> tables[t]],
         \A t \in DOMAIN moved :
            /\ TableForm(moved[t])
            /\ \E F : ForeignForm(F) /\ tables[t] = [moved[t] EXCEPT !.foreign = F]
  PROVE  Form([s EXCEPT !.tables = tables])
<1>1. ASSUME NEW t \in DOMAIN tables PROVE TableForm(tables[t])
  <2> DEFINE d == moved[t]
  <2>1. PICK F : ForeignForm(F) /\ tables[t] = [d EXCEPT !.foreign = F]
    BY <1>1
  <2>2. TableForm(d)
    BY <1>1
  <2> HIDE DEF d
  <2>3. TableForm([d EXCEPT !.foreign = F])
    BY <2>1, <2>2, EditedForm
  <2> QED BY <2>1, <2>3
<1> QED BY <1>1, TablesForm

LEMMA TableChangesForm ==
  ASSUME NEW s, Form(s), NEW x
  PROVE  /\ TableForm(x.def) => Form(ApplyCreateTable(s, x).schema)
         /\ Form(ApplyDropTable(s, x).schema)
         /\ Form(ApplyRenameTable(s, x).schema)
<1>1. TableForm(x.def) => Form(ApplyCreateTable(s, x).schema)
  BY WithTableForm DEF ApplyCreateTable, Accept, Reject
<1>2. Form(ApplyDropTable(s, x).schema)
  <2> DEFINE tables == Without(s.tables, x.table)
  <2>1. tables = [t \in DOMAIN tables |-> tables[t]] /\ \A t \in DOMAIN tables : TableForm(tables[t])
    BY DEF Without, Form
  <2> HIDE DEF tables
  <2>2. Form([s EXCEPT !.tables = tables])
    BY <2>1, TablesForm
  <2> QED BY <2>2 DEF tables, ApplyDropTable, Accept, Reject
<1>3. Form(ApplyRenameTable(s, x).schema)
  <2> DEFINE moved == Put(Without(s.tables, x.table), x.to, s.tables[x.table])
             tables == [t \in DOMAIN moved |->
                          [moved[t] EXCEPT !.foreign = Retargeted(moved[t].foreign, x.table, x.to)]]
  <2>1. SUFFICES ASSUME x.table \in Tables(s) PROVE Form([s EXCEPT !.tables = tables])
    BY DEF ApplyRenameTable, Accept, Reject
  <2>2. \A t \in DOMAIN moved : TableForm(moved[t])
    BY <2>1 DEF Put, Without, Form, Tables
  <2>3. \A t \in DOMAIN moved : ForeignForm(Retargeted(moved[t].foreign, x.table, x.to))
    BY <2>2, ConstraintForms DEF TableForm
  <2> HIDE DEF moved
  <2>4. /\ DOMAIN tables = DOMAIN moved /\ tables = [t \in DOMAIN tables |-> tables[t]]
        /\ \A t \in DOMAIN moved :
              tables[t] = [moved[t] EXCEPT !.foreign = Retargeted(moved[t].foreign, x.table, x.to)]
    OBVIOUS
  <2> HIDE DEF tables
  <2>5. \A t \in DOMAIN moved :
           /\ TableForm(moved[t])
           /\ \E F : ForeignForm(F) /\ tables[t] = [moved[t] EXCEPT !.foreign = F]
    BY <2>2, <2>3, <2>4
  <2>6. DOMAIN tables = DOMAIN moved /\ tables = [t \in DOMAIN tables |-> tables[t]]
    BY <2>4
  <2> QED BY <2>5, <2>6, RetargetedForm
<1> QED BY <1>1, <1>2, <1>3

LEMMA ColumnChangesForm ==
  ASSUME NEW s, Form(s), NEW x
  PROVE  /\ Form(ApplyAddColumn(s, x).schema)
         /\ Form(ApplyAlterColumnType(s, x).schema)
         /\ Form(ApplySetFlag(s, x).schema)
         /\ Form(ApplyDropColumn(s, x).schema)
         /\ Form(ApplyRenameColumn(s, x).schema)
<1> DEFINE t == x.table
           def == s.tables[t]
<1>0. t \in Tables(s) => TableForm(def) /\ ForeignForm(def.foreign)
  BY DEF Form, Tables, TableForm
<1>1. ASSUME t \in Tables(s), NEW columns
      PROVE  Form(WithTable(s, t, [def EXCEPT !.columns = columns]))
  <2>1. TableForm([def EXCEPT !.columns = columns])
    <3> HIDE DEF def
    <3> QED BY <1>0, <1>1, EditedForm
  <2> QED BY <2>1, WithTableForm
<1>2. ASSUME t \in Tables(s), NEW c, NEW column PROVE Form(WithColumn(s, t, c, column))
  BY <1>1, <1>2 DEF WithColumn
<1>3. Form(ApplyAddColumn(s, x).schema)
  BY <1>2 DEF ApplyAddColumn, Accept, Reject
<1>4. Form(ApplyAlterColumnType(s, x).schema)
  BY <1>2, SMTT(40) DEF ApplyAlterColumnType, Accept, Reject
<1>5. Form(ApplySetFlag(s, x).schema)
  BY <1>2, ZenonT(60) DEF ApplySetFlag, Accept, Reject
<1>6. Form(ApplyDropColumn(s, x).schema)
  <2> DEFINE kept == {f \in DOMAIN def.foreign :
                        /\ def.foreign[f].column # x.name
                        /\ ~(def.foreign[f].table = x.table /\ def.foreign[f].target = x.name)}
             F == [f \in kept |-> def.foreign[f]]
             columns == Without(def.columns, x.name)
             d == [def EXCEPT !.columns = columns, !.foreign = F]
  <2>1. SUFFICES ASSUME t \in Tables(s) PROVE Form(WithTable(s, t, d))
    BY DEF ApplyDropColumn, Accept, Reject
  <2>2. ForeignForm(F)
    <3>1. kept \in SUBSET DOMAIN def.foreign
      OBVIOUS
    <3> HIDE DEF kept, def
    <3> QED BY <2>1, <1>0, <3>1, ConstraintForms
  <2>3. TableForm(d)
    <3> HIDE DEF F, def, columns
    <3> QED BY <2>1, <2>2, <1>0, EditedForm
  <2> QED BY <2>3, WithTableForm
<1>7. Form(ApplyRenameColumn(s, x).schema)
  <2> DEFINE columns == Put(Without(def.columns, x.name), x.to, def.columns[x.name])
             key == [i \in DOMAIN def.key |-> IF def.key[i] = x.name THEN x.to ELSE def.key[i]]
             d == [def EXCEPT !.columns = columns, !.key = key]
             renamed == Put(s.tables, t, d)
             tables == [u \in DOMAIN renamed |->
                          [renamed[u] EXCEPT !.foreign = Followed(renamed[u].foreign, u, x)]]
  <2>1. SUFFICES ASSUME t \in Tables(s) PROVE Form([s EXCEPT !.tables = tables])
    BY DEF ApplyRenameColumn, Accept, Reject
  <2>2. TableForm(d)
    <3> HIDE DEF columns, key, def
    <3> QED BY <2>1, <1>0, EditedForm DEF ForeignForm
  <2> HIDE DEF d
  <2>3. \A u \in DOMAIN renamed : TableForm(renamed[u])
    BY <2>1, <2>2 DEF Put, Form, Tables
  <2> HIDE DEF renamed
  <2>4. \A u \in DOMAIN renamed : ForeignForm(Followed(renamed[u].foreign, u, x))
    BY <2>3, ConstraintForms DEF TableForm
  <2>5. /\ DOMAIN tables = DOMAIN renamed /\ tables = [u \in DOMAIN tables |-> tables[u]]
        /\ \A u \in DOMAIN renamed :
              tables[u] = [renamed[u] EXCEPT !.foreign = Followed(renamed[u].foreign, u, x)]
    OBVIOUS
  <2> HIDE DEF tables
  <2>6. \A u \in DOMAIN renamed :
           /\ TableForm(renamed[u])
           /\ \E F : ForeignForm(F) /\ tables[u] = [renamed[u] EXCEPT !.foreign = F]
    BY <2>3, <2>4, <2>5
  <2>7. DOMAIN tables = DOMAIN renamed /\ tables = [u \in DOMAIN tables |-> tables[u]]
    BY <2>5
  <2> QED BY <2>6, <2>7, RetargetedForm
<1> QED BY <1>3, <1>4, <1>5, <1>6, <1>7

LEMMA OtherChangesForm ==
  ASSUME NEW s, Form(s), NEW x
  PROVE  /\ Form(ApplySetPrimaryKey(s, x).schema)
         /\ Form(ApplyDropForeignKey(s, x).schema)
         /\ x.foreign = [column |-> x.foreign.column, table |-> x.foreign.table,
                         target |-> x.foreign.target, action |-> x.foreign.action] =>
               Form(ApplyAddForeignKey(s, x).schema)
         /\ Form(ApplyCreateEnum(s, x).schema)
         /\ Form(ApplyAddEnumVariant(s, x).schema)
         /\ Form(ApplyDropEnum(s, x).schema)
<1> DEFINE t == x.table
           def == s.tables[t]
<1>0. t \in Tables(s) => TableForm(def) /\ ForeignForm(def.foreign)
  BY DEF Form, Tables, TableForm
<1>1. Form(ApplySetPrimaryKey(s, x).schema)
  <2>1. t \in Tables(s) => TableForm([def EXCEPT !.key = x.to])
    <3> HIDE DEF def
    <3> QED BY <1>0, EditedForm
  <2> QED BY <2>1, WithTableForm DEF ApplySetPrimaryKey, Accept, Reject
<1>2. ASSUME t \in Tables(s), NEW F, ForeignForm(F)
      PROVE  Form(WithTable(s, t, [def EXCEPT !.foreign = F]))
  <2>1. TableForm([def EXCEPT !.foreign = F])
    <3> HIDE DEF def
    <3> QED BY <1>0, <1>2, EditedForm
  <2> QED BY <2>1, WithTableForm
<1>3. Form(ApplyDropForeignKey(s, x).schema)
  <2>1. t \in Tables(s) => ForeignForm(Without(def.foreign, x.name))
    BY <1>0, ConstraintForms
  <2> QED BY <1>2, <2>1 DEF ApplyDropForeignKey, Accept, Reject
<1>4. ASSUME x.foreign = [column |-> x.foreign.column, table |-> x.foreign.table,
                          target |-> x.foreign.target, action |-> x.foreign.action]
      PROVE  Form(ApplyAddForeignKey(s, x).schema)
  <2>1. t \in Tables(s) => ForeignForm(Put(def.foreign, x.name, x.foreign))
    <3> HIDE DEF def
    <3> QED BY <1>0, <1>4, ConstraintForms
  <2> QED BY <1>2, <2>1 DEF ApplyAddForeignKey, Accept, Reject
<1>5. /\ Form(ApplyCreateEnum(s, x).schema)
      /\ Form(ApplyAddEnumVariant(s, x).schema)
      /\ Form(ApplyDropEnum(s, x).schema)
  BY EnumsForm DEF ApplyCreateEnum, ApplyAddEnumVariant, ApplyDropEnum, Accept, Reject
<1> QED BY <1>1, <1>3, <1>4, <1>5

LEMMA FormNext == Form(replayed) /\ [ReplayNext]_replayed => Form(replayed)'
<1> SUFFICES ASSUME Form(replayed), [ReplayNext]_replayed PROVE Form(replayed')
  BY DEF Form, TableForm, ForeignForm
<1>1. CASE CreateOrDropTable
  <2>1. ASSUME NEW t, NEW d \in TableDefs, Step(CreateTable(t, d)) PROVE Form(replayed')
    <3>1. TableForm(d)
      <4>1. d = [columns |-> d.columns, key |-> d.key, foreign |-> <<>>]
        BY TableDefsAssumption
      <4>2. d.foreign = <<>>
        BY <4>1
      <4> QED BY <4>1, <4>2 DEF TableForm, ForeignForm
    <3> QED BY <2>1, <3>1, TableChangesForm DEF Step, Apply, CreateTable
  <2>2. ASSUME NEW t, Step(DropTable(t)) PROVE Form(replayed')
    BY <2>2, TableChangesForm DEF Step, Apply, DropTable
  <2>3. ASSUME NEW t, NEW u, Step(RenameTable(t, u)) PROVE Form(replayed')
    BY <2>3, TableChangesForm DEF Step, Apply, RenameTable
  <2> QED BY <1>1, <2>1, <2>2, <2>3 DEF CreateOrDropTable
<1>2. CASE CreateOrDropColumn
  <2>1. ASSUME NEW t, NEW c, NEW d, Step(AddColumn(t, c, d)) PROVE Form(replayed')
    BY <2>1, ColumnChangesForm DEF Step, Apply, AddColumn
  <2>2. ASSUME NEW t, NEW c, Step(DropColumn(t, c)) PROVE Form(replayed')
    BY <2>2, ColumnChangesForm DEF Step, Apply, DropColumn
  <2>3. ASSUME NEW t, NEW c, NEW e, Step(RenameColumn(t, c, e)) PROVE Form(replayed')
    BY <2>3, ColumnChangesForm DEF Step, Apply, RenameColumn
  <2> QED BY <1>2, <2>1, <2>2, <2>3 DEF CreateOrDropColumn
<1>3. CASE AlterColumn
  <2>1. ASSUME NEW t, NEW c, NEW from, NEW to, Step(AlterColumnType(t, c, from, to)) PROVE Form(replayed')
    BY <2>1, ColumnChangesForm DEF Step, Apply, AlterColumnType
  <2>2. ASSUME NEW t, NEW c, NEW b, Step(SetNullable(t, c, b)) PROVE Form(replayed')
    BY <2>2, ColumnChangesForm DEF Step, Apply, SetNullable
  <2>3. ASSUME NEW t, NEW c, NEW b, Step(SetUnique(t, c, b)) PROVE Form(replayed')
    BY <2>3, ColumnChangesForm DEF Step, Apply, SetUnique
  <2>4. ASSUME NEW t, NEW c, NEW b, Step(SetAutoIncrement(t, c, b)) PROVE Form(replayed')
    BY <2>4, ColumnChangesForm DEF Step, Apply, SetAutoIncrement
  <2> QED BY <1>3, <2>1, <2>2, <2>3, <2>4 DEF AlterColumn
<1>4. CASE Constrain
  <2>1. ASSUME NEW t, NEW k, NEW l, Step(SetPrimaryKey(t, k, l)) PROVE Form(replayed')
    BY <2>1, OtherChangesForm DEF Step, Apply, SetPrimaryKey
  <2>2. ASSUME NEW t, NEW f, NEW d \in ForeignKeys, Step(AddForeignKey(t, f, d)) PROVE Form(replayed')
    BY <2>2, OtherChangesForm, ForeignKeysAssumption DEF Step, Apply, AddForeignKey
  <2>3. ASSUME NEW t, NEW f, Step(DropForeignKey(t, f)) PROVE Form(replayed')
    BY <2>3, OtherChangesForm DEF Step, Apply, DropForeignKey
  <2> QED BY <1>4, <2>1, <2>2, <2>3 DEF Constrain
<1>5. CASE ChangeEnum
  <2>1. ASSUME NEW e, NEW variants, Step(CreateEnum(e, variants)) PROVE Form(replayed')
    BY <2>1, OtherChangesForm DEF Step, Apply, CreateEnum
  <2>2. ASSUME NEW e, NEW v, Step(AddEnumVariant(e, v)) PROVE Form(replayed')
    BY <2>2, OtherChangesForm DEF Step, Apply, AddEnumVariant
  <2>3. ASSUME NEW e, Step(DropEnum(e)) PROVE Form(replayed')
    BY <2>3, OtherChangesForm DEF Step, Apply, DropEnum
  <2> QED BY <1>5, <2>1, <2>2, <2>3 DEF ChangeEnum
<1>6. CASE UNCHANGED replayed
  BY <1>6
<1> QED BY <1>1, <1>2, <1>3, <1>4, <1>5, <1>6 DEF ReplayNext

LEMMA ForeignReplaced ==
  ASSUME NEW columns, NEW key, NEW F, NEW G, NEW d, NEW e,
         d = [columns |-> columns, key |-> key, foreign |-> F], e = [d EXCEPT !.foreign = G]
  PROVE  e = [columns |-> columns, key |-> key, foreign |-> G]
OBVIOUS

\* Constraints that referred to the table follow it away and back, and no other
\* constraint refers to its new name.
LEMMA BackAndForth ==
  ASSUME NEW d, TableForm(d), NEW t, NEW u, \A f \in DOMAIN d.foreign : d.foreign[f].table # u,
         NEW e, e = [d EXCEPT !.foreign = Retargeted(d.foreign, t, u)]
  PROVE  [e EXCEPT !.foreign = Retargeted(e.foreign, u, t)] = d
<1> DEFINE F == d.foreign
           G == Retargeted(F, t, u)
           H == Retargeted(G, u, t)
<1>1. DOMAIN G = DOMAIN F /\ DOMAIN H = DOMAIN F /\ H = [f \in DOMAIN F |-> H[f]]
  BY DEF Retargeted
<1>2. ASSUME NEW f \in DOMAIN F PROVE H[f] = F[f]
  <2>1. F[f] = [column |-> F[f].column, table |-> F[f].table, target |-> F[f].target, action |-> F[f].action]
    BY DEF TableForm, ForeignForm
  <2>2. F[f].table # u
    OBVIOUS
  <2> DEFINE there == [F[f] EXCEPT !.table = u]
             back == [there EXCEPT !.table = t]
  <2>3. there = [column |-> F[f].column, table |-> u, target |-> F[f].target, action |-> F[f].action]
    BY <2>1
  <2> HIDE DEF there
  <2>4. back = [column |-> F[f].column, table |-> t, target |-> F[f].target, action |-> F[f].action]
    BY <2>3
  <2>5. G[f] = IF F[f].table = t THEN there ELSE F[f]
    BY DEF Retargeted, there
  <2>6. H[f] = IF G[f].table = u THEN [G[f] EXCEPT !.table = t] ELSE G[f]
    BY <1>1 DEF Retargeted
  <2> HIDE DEF F, G, H
  <2>7. CASE F[f].table = t
    <3>1. G[f] = there /\ there.table = u
      BY <2>3, <2>5, <2>7
    <3>2. H[f] = back
      BY <2>6, <3>1
    <3> QED BY <2>1, <2>4, <2>7, <3>2
  <2>8. CASE F[f].table # t
    BY <2>2, <2>5, <2>6, <2>8
  <2> QED BY <2>7, <2>8
<1>3. H = F
  <2>1. F = [f \in DOMAIN F |-> F[f]]
    BY DEF TableForm, ForeignForm
  <2> HIDE DEF F, G, H
  <2> QED BY <1>1, <1>2, <2>1
<1> HIDE DEF H, G
<1>4. e = [columns |-> d.columns, key |-> d.key, foreign |-> G] /\ d = [columns |-> d.columns, key |-> d.key, foreign |-> F]
  BY ForeignReplaced DEF TableForm, G
<1> HIDE DEF F
<1> DEFINE r == [e EXCEPT !.foreign = H]
<1>5. r = [columns |-> d.columns, key |-> d.key, foreign |-> H]
  <2> HIDE DEF r
  <2> SUFFICES ASSUME r = [e EXCEPT !.foreign = H] PROVE r = [columns |-> d.columns, key |-> d.key, foreign |-> H]
    BY DEF r
  <2> QED BY <1>4, ForeignReplaced
<1>6. r = d
  BY <1>3, <1>4, <1>5
<1>7. e.foreign = G
  BY <1>4
<1> QED BY <1>6, <1>7 DEF H

\* The opposite rename undoes a rename.
LEMMA RenameUndone ==
  ASSUME NEW s, Sound(s), Form(s), NEW t \in Tables(s), NEW u, u \notin Tables(s)
  PROVE  ApplyRenameTable(ApplyRenameTable(s, RenameTable(t, u)).schema, RenameTable(u, t)).schema = s
<1> DEFINE moved == Put(Without(s.tables, t), u, s.tables[t])
           tables == [w \in DOMAIN moved |->
                        [moved[w] EXCEPT !.foreign = Retargeted(moved[w].foreign, t, u)]]
           n == [s EXCEPT !.tables = tables]
           back == Put(Without(n.tables, u), t, n.tables[u])
           again == [w \in DOMAIN back |->
                       [back[w] EXCEPT !.foreign = Retargeted(back[w].foreign, u, t)]]
<1>1. ApplyRenameTable(s, RenameTable(t, u)).schema = n
  BY DEF ApplyRenameTable, RenameTable, Accept
<1>2. n = [tables |-> tables, enums |-> s.enums]
  BY DEF Form
<1>3. /\ DOMAIN tables = (Tables(s) \ {t}) \cup {u}
      /\ \A w \in Tables(s) :
            LET v == IF w = t THEN u ELSE w IN
            /\ v \in DOMAIN tables
            /\ tables[v] = [s.tables[w] EXCEPT !.foreign = Retargeted(s.tables[w].foreign, t, u)]
  BY DEF Put, Without, Tables
<1> HIDE DEF tables, moved
<1>4. n.tables = tables
  BY <1>2
<1> HIDE DEF n
<1>5. /\ DOMAIN back = Tables(s)
      /\ \A w \in Tables(s) : back[w] = tables[IF w = t THEN u ELSE w]
  BY <1>3, <1>4 DEF Put, Without, Tables
<1> HIDE DEF back
<1>6. ASSUME NEW w \in Tables(s) PROVE again[w] = s.tables[w]
  <2>1. TableForm(s.tables[w])
    BY DEF Form, Tables
  <2>2. \A f \in DOMAIN s.tables[w].foreign : s.tables[w].foreign[f].table # u
    BY DEF Sound, NoDanglingReference, ReferencesOf, HasColumn
  <2>3. back[w] = [s.tables[w] EXCEPT !.foreign = Retargeted(s.tables[w].foreign, t, u)]
    BY <1>3, <1>5
  <2>4. again[w] = [back[w] EXCEPT !.foreign = Retargeted(back[w].foreign, u, t)]
    BY <1>5
  <2> DEFINE d == s.tables[w]
             e == back[w]
  <2> HIDE DEF again, d, e
  <2>5. e = [d EXCEPT !.foreign = Retargeted(d.foreign, t, u)]
    BY <2>3 DEF d, e
  <2>6. [e EXCEPT !.foreign = Retargeted(e.foreign, u, t)] = d
    BY <2>1, <2>2, <2>5, BackAndForth DEF d
  <2> QED BY <2>4, <2>6 DEF d, e
<1>7. DOMAIN again = Tables(s) /\ again = [w \in DOMAIN again |-> again[w]]
  BY <1>5
<1> HIDE DEF again
<1>8. again = s.tables
  BY <1>6, <1>7 DEF Form, Tables
<1>9. ApplyRenameTable(n, RenameTable(u, t)).schema = [n EXCEPT !.tables = again]
  <2>1. u \in Tables(n) /\ t \notin Tables(n)
    BY <1>3, <1>4 DEF Tables
  <2> QED BY <2>1 DEF ApplyRenameTable, RenameTable, Accept, again, back
<1> DEFINE m == [n EXCEPT !.tables = again]
<1>10. m = [tables |-> s.tables, enums |-> s.enums]
  BY <1>2, <1>8
<1>11. m = s
  BY <1>10 DEF Form
<1> QED BY <1>1, <1>9, <1>11

\* Whatever names, definitions and history of changes: the schema that a table rename
\* leads to leads back by the opposite one, constraints of every table included.
THEOREM RenamesAreUndone == ReplaySpec => []TableRenamesAreReversible
<1>1. ReplayInit => Form(replayed)
  BY DEF ReplayInit, EmptySchema, Form
<1>2. Sound(replayed) /\ Form(replayed) => TableRenamesAreReversible
  <2> SUFFICES ASSUME Sound(replayed), Form(replayed), NEW t \in TableNames, NEW u \in TableNames,
                      Apply(replayed, RenameTable(t, u)).answer = "ok"
               PROVE  Apply(Apply(replayed, RenameTable(t, u)).schema, RenameTable(u, t)).schema = replayed
    BY DEF TableRenamesAreReversible
  <2>1. \A s, v, w : Apply(s, RenameTable(v, w)) = ApplyRenameTable(s, RenameTable(v, w))
    BY DEF Apply, RenameTable
  <2>2. t \in Tables(replayed) /\ u \notin Tables(replayed)
    <3>1. ApplyRenameTable(replayed, RenameTable(t, u)).answer = "ok"
      BY <2>1
    <3> QED BY <3>1 DEF ApplyRenameTable, RenameTable, Reject
  <2> QED BY <2>1, <2>2, RenameUndone
<1> QED BY SoundInit, SoundNext, FormNext, <1>1, <1>2, PTL DEF ReplaySpec

-----------------------------------------------------------------------------
(***************************************************************************)
(* A plan is accounted for: what it still holds is exactly what tells the    *)
(* schema from the target, each difference once, renames counted for the     *)
(* drop and the add they stand for.                                          *)
(***************************************************************************)

EnumChangeKinds == {"CreateEnum", "AddEnumVariant", "DropEnum"}
ForeignKinds == {"DropForeignKey", "AddForeignKey"}
TableKinds == {"CreateTable", "DropTable", "RenameTable"}
FlagKinds == {"SetNullable", "SetUnique", "SetAutoIncrement"}
ColumnKinds == {"AddColumn", "DropColumn", "RenameColumn", "AlterColumnType"} \cup FlagKinds

\* A change of one of the kinds that a plan holds.
IsChange(x) ==
    \/ x = CreateTable(x.table, x.def) \/ x = DropTable(x.table) \/ x = RenameTable(x.table, x.to)
    \/ x = AddColumn(x.table, x.name, x.column) \/ x = DropColumn(x.table, x.name)
    \/ x = RenameColumn(x.table, x.name, x.to)
    \/ x = AlterColumnType(x.table, x.name, x.from, x.to)
    \/ x = SetNullable(x.table, x.name, x.to)
    \/ x = SetUnique(x.table, x.name, x.to)
    \/ x = SetAutoIncrement(x.table, x.name, x.to)
    \/ x = SetPrimaryKey(x.table, x.from, x.to)
    \/ x = AddForeignKey(x.table, x.name, x.foreign) \/ x = DropForeignKey(x.table, x.name)
    \/ x = CreateEnum(x.enum, x.variants) \/ x = AddEnumVariant(x.enum, x.variant) \/ x = DropEnum(x.enum)

\* An enum type is created, extended by the variants it lacks, or dropped.
EnumAccount(X, s, t) ==
    /\ \A e, v : CreateEnum(e, v) \in X <=> e \in Enums(t) \ Enums(s) /\ v = t.enums[e]
    /\ \A e, v : AddEnumVariant(e, v) \in X <=>
          /\ e \in Enums(s) \cap Enums(t)
          /\ \E k \in DOMAIN t.enums[e] \ DOMAIN s.enums[e] : v = t.enums[e][k]
    /\ \A e : DropEnum(e) \in X <=> e \in Enums(s) \ Enums(t)
    /\ \A e \in Enums(s) \cap Enums(t) :
          /\ Len(s.enums[e]) <= Len(t.enums[e])
          /\ \A k \in 1..Len(s.enums[e]) : s.enums[e][k] = t.enums[e][k]

\* A constraint that differs is dropped and added, at the names its table and columns
\* then have.
ForeignAccount(X, s, t) ==
    /\ \A u, f : DropForeignKey(u, f) \in X <=> f \in Unmatched(ForeignOf(s, u), ForeignOf(t, u))
    /\ \A u, f, d : AddForeignKey(u, f, d) \in X <=>
          f \in Unmatched(ForeignOf(t, u), ForeignOf(s, u)) /\ d = ForeignOf(t, u)[f]

\* A table without its constraints.
Bare(d) == [d EXCEPT !.foreign = <<>>]

\* A table is dropped, created without its constraints, or renamed to one that is missing
\* and has its columns and key.
TableAccount(X, s, t) ==
    /\ \A u : DropTable(u) \in X <=> u \in Tables(s) \ Tables(t) /\ \A v : RenameTable(u, v) \notin X
    /\ \A u, d : CreateTable(u, d) \in X <=>
          /\ u \in Tables(t) \ Tables(s) /\ d = Bare(t.tables[u])
          /\ \A v : RenameTable(v, u) \notin X
    /\ \A u, v : RenameTable(u, v) \in X =>
          /\ u \in Tables(s) \ Tables(t) /\ v \in Tables(t) \ Tables(s)
          /\ s.tables[u].columns = t.tables[v].columns /\ s.tables[u].key = t.tables[v].key
    /\ \A u, v, w : RenameTable(u, v) \in X /\ RenameTable(u, w) \in X => v = w
    /\ \A u, v, w : RenameTable(u, v) \in X /\ RenameTable(w, v) \in X => u = w

\* What takes the columns a of table u to the columns b.
ColumnsDue(X, u, a, b) ==
    /\ \A c, d : AddColumn(u, c, d) \in X <=>
          c \in DOMAIN b \ DOMAIN a /\ d = b[c] /\ \A e : RenameColumn(u, e, c) \notin X
    /\ \A c : DropColumn(u, c) \in X <=> c \in DOMAIN a \ DOMAIN b /\ \A e : RenameColumn(u, c, e) \notin X
    /\ \A c, d : RenameColumn(u, c, d) \in X =>
          c \in DOMAIN a \ DOMAIN b /\ d \in DOMAIN b \ DOMAIN a /\ a[c] = b[d]
    /\ \A c, d, e : RenameColumn(u, c, d) \in X /\ RenameColumn(u, c, e) \in X => d = e
    /\ \A c, d, e : RenameColumn(u, c, d) \in X /\ RenameColumn(u, e, d) \in X => c = e
    /\ \A c, p, q : AlterColumnType(u, c, p, q) \in X <=>
          c \in DOMAIN a \cap DOMAIN b /\ p = a[c].type /\ q = b[c].type /\ p # q
    /\ \A c, q : SetNullable(u, c, q) \in X <=>
          c \in DOMAIN a \cap DOMAIN b /\ q = b[c].nullable /\ a[c].nullable # q
    /\ \A c, q : SetUnique(u, c, q) \in X <=>
          c \in DOMAIN a \cap DOMAIN b /\ q = b[c].unique /\ a[c].unique # q
    /\ \A c, q : SetAutoIncrement(u, c, q) \in X <=>
          c \in DOMAIN a \cap DOMAIN b /\ q = b[c].auto /\ a[c].auto # q

\* The name that column c of table u has after the renames, and the key k, which
\* is what a change of the key expects.
Follows(X, u, c, d) ==
    \/ RenameColumn(u, c, d) \in X
    \/ d = c /\ \A e : RenameColumn(u, c, e) \notin X

IsKeyAfter(X, u, k, p) ==
    p = [i \in DOMAIN k |-> p[i]] /\ \A i \in DOMAIN k : Follows(X, u, k[i], p[i])

KeyDue(X, u, k, l) ==
    \A p, q : SetPrimaryKey(u, p, q) \in X <=> IsKeyAfter(X, u, k, p) /\ q = l /\ p # q

\* Only tables of both schemas have columns and keys to change.
Common(s, t) == Tables(s) \cap Tables(t)
ColumnsOf(s, t, u) == IF u \in Common(s, t) THEN s.tables[u].columns ELSE <<>>
KeyOf(s, t, u) == IF u \in Common(s, t) THEN s.tables[u].key ELSE <<>>

ColumnAccount(X, s, t) == \A u : ColumnsDue(X, u, ColumnsOf(s, t, u), ColumnsOf(t, s, u))
KeyAccount(X, s, t) == \A u : KeyDue(X, u, KeyOf(s, t, u), KeyOf(t, s, u))

Account(X, s, t) ==
    /\ \A x \in X : IsChange(x)
    /\ EnumAccount(X, s, t)
    /\ ForeignAccount(X, s, t)
    /\ TableAccount(X, s, t)
    /\ ColumnAccount(X, s, t)
    /\ KeyAccount(X, s, t)

\* And its order: enum types and foreign keys bracket everything else, a key changes
\* after the columns it may need, the variants of an enum type come in their order.
Phase(x) ==
    CASE x.change \in {"CreateEnum", "AddEnumVariant"} -> 1
      [] x.change = "DropForeignKey" -> 2
      [] x.change = "AddForeignKey" -> 4
      [] x.change = "DropEnum" -> 5
      [] OTHER -> 3

\* No change comes twice, and x may come before y.
Before(x, y, t) ==
    /\ x # y
    /\ Phase(x) <= Phase(y)
    /\ x.change = "SetPrimaryKey" /\ y.change \in {"AddColumn", "RenameColumn"} => x.table # y.table
    /\ x.change = "AddEnumVariant" /\ y.change = "AddEnumVariant" /\ x.enum = y.enum =>
          \E k, l \in DOMAIN t.enums[x.enum] :
             k < l /\ x.variant = t.enums[x.enum][k] /\ y.variant = t.enums[x.enum][l]

LEMMA Fields ==
    /\ \A u, d : LET x == CreateTable(u, d) IN x.change = "CreateTable" /\ x.table = u /\ x.def = d
    /\ \A u : LET x == DropTable(u) IN x.change = "DropTable" /\ x.table = u
    /\ \A u, v : LET x == RenameTable(u, v) IN x.change = "RenameTable" /\ x.table = u /\ x.to = v
    /\ \A u, c, d : LET x == AddColumn(u, c, d) IN
          x.change = "AddColumn" /\ x.table = u /\ x.name = c /\ x.column = d
    /\ \A u, c : LET x == DropColumn(u, c) IN x.change = "DropColumn" /\ x.table = u /\ x.name = c
    /\ \A u, c, d : LET x == RenameColumn(u, c, d) IN
          x.change = "RenameColumn" /\ x.table = u /\ x.name = c /\ x.to = d
    /\ \A u, c, p, q : LET x == AlterColumnType(u, c, p, q) IN
          x.change = "AlterColumnType" /\ x.table = u /\ x.name = c /\ x.from = p /\ x.to = q
    /\ \A u, c, q : LET x == SetNullable(u, c, q) IN
          x.change = "SetNullable" /\ x.table = u /\ x.name = c /\ x.to = q
    /\ \A u, c, q : LET x == SetUnique(u, c, q) IN
          x.change = "SetUnique" /\ x.table = u /\ x.name = c /\ x.to = q
    /\ \A u, c, q : LET x == SetAutoIncrement(u, c, q) IN
          x.change = "SetAutoIncrement" /\ x.table = u /\ x.name = c /\ x.to = q
    /\ \A u, p, q : LET x == SetPrimaryKey(u, p, q) IN
          x.change = "SetPrimaryKey" /\ x.table = u /\ x.from = p /\ x.to = q
    /\ \A u, f, d : LET x == AddForeignKey(u, f, d) IN
          x.change = "AddForeignKey" /\ x.table = u /\ x.name = f /\ x.foreign = d
    /\ \A u, f : LET x == DropForeignKey(u, f) IN x.change = "DropForeignKey" /\ x.table = u /\ x.name = f
    /\ \A e, v : LET x == CreateEnum(e, v) IN x.change = "CreateEnum" /\ x.enum = e /\ x.variants = v
    /\ \A e, v : LET x == AddEnumVariant(e, v) IN x.change = "AddEnumVariant" /\ x.enum = e /\ x.variant = v
    /\ \A e : LET x == DropEnum(e) IN x.change = "DropEnum" /\ x.enum = e
  BY DEF CreateTable, DropTable, RenameTable, AddColumn, DropColumn, RenameColumn, AlterColumnType,
         SetNullable, SetUnique, SetAutoIncrement, SetPrimaryKey, AddForeignKey, DropForeignKey,
         CreateEnum, AddEnumVariant, DropEnum

-----------------------------------------------------------------------------
(* Other changes do not count.                                             *)

LEMMA EnumFrame ==
  ASSUME NEW X, NEW Y, NEW s, NEW n, NEW t, EnumAccount(X, s, t), n.enums = s.enums,
         \A y : y.change \in EnumChangeKinds => (y \in X <=> y \in Y)
  PROVE  EnumAccount(Y, n, t)
BY Fields DEF EnumAccount, EnumChangeKinds, Enums

LEMMA ForeignFrame ==
  ASSUME NEW X, NEW Y, NEW s, NEW n, NEW t, ForeignAccount(X, s, t),
         \A u : ForeignOf(n, u) = ForeignOf(s, u),
         \A y : y.change \in ForeignKinds => (y \in X <=> y \in Y)
  PROVE  ForeignAccount(Y, n, t)
BY Fields DEF ForeignAccount, ForeignKinds

LEMMA TableFrame ==
  ASSUME NEW X, NEW Y, NEW s, NEW n, NEW t, TableAccount(X, s, t), Tables(n) = Tables(s),
         \A u \in Tables(s) \ Tables(t) :
            n.tables[u].columns = s.tables[u].columns /\ n.tables[u].key = s.tables[u].key,
         \A y : y.change \in TableKinds => (y \in X <=> y \in Y)
  PROVE  TableAccount(Y, n, t)
BY Fields DEF TableAccount, TableKinds

LEMMA ColumnFrame ==
  ASSUME NEW X, NEW Y, NEW u, NEW a, NEW b, ColumnsDue(X, u, a, b),
         \A y : y.change \in ColumnKinds /\ y.table = u => (y \in X <=> y \in Y)
  PROVE  ColumnsDue(Y, u, a, b)
BY Fields DEF ColumnsDue, ColumnKinds, FlagKinds

LEMMA KeyFrame ==
  ASSUME NEW X, NEW Y, NEW u, NEW k, NEW l, KeyDue(X, u, k, l),
         \A y : y.change \in {"SetPrimaryKey", "RenameColumn"} /\ y.table = u => (y \in X <=> y \in Y)
  PROVE  KeyDue(Y, u, k, l)
<1>1. \A c, d : RenameColumn(u, c, d) \in X <=> RenameColumn(u, c, d) \in Y
  BY Fields
<1>2. \A p : IsKeyAfter(X, u, k, p) <=> IsKeyAfter(Y, u, k, p)
  BY <1>1 DEF IsKeyAfter, Follows
<1>3. \A p, q : SetPrimaryKey(u, p, q) \in X <=> SetPrimaryKey(u, p, q) \in Y
  BY Fields
<1> QED BY <1>2, <1>3 DEF KeyDue

-----------------------------------------------------------------------------
(* One change of the columns of a table.                                   *)

LEMMA ColumnAdded ==
  ASSUME NEW X, NEW u, NEW a, NEW b, NEW c, NEW d, ColumnsDue(X, u, a, b), AddColumn(u, c, d) \in X
  PROVE  c \notin DOMAIN a /\ c \in DOMAIN b /\ d = b[c]
         /\ ColumnsDue(X \ {AddColumn(u, c, d)}, u, Put(a, c, d), b)
<1> DEFINE Y == X \ {AddColumn(u, c, d)}
           n == Put(a, c, d)
<1>1. c \in DOMAIN b \ DOMAIN a /\ d = b[c] /\ \A e : RenameColumn(u, e, c) \notin X
  BY DEF ColumnsDue
<1>2. DOMAIN n = DOMAIN a \cup {c} /\ n[c] = d /\ \A e \in DOMAIN a : n[e] = a[e]
  BY <1>1 DEF Put
<1>3. \A y : y \in Y <=> y \in X /\ y # AddColumn(u, c, d)
  OBVIOUS
<1> HIDE DEF Y, n
<1> QED BY <1>1, <1>2, <1>3, Fields DEF ColumnsDue, Y, n

LEMMA ColumnDropped ==
  ASSUME NEW X, NEW u, NEW a, NEW b, NEW c, ColumnsDue(X, u, a, b), DropColumn(u, c) \in X
  PROVE  c \in DOMAIN a /\ c \notin DOMAIN b /\ ColumnsDue(X \ {DropColumn(u, c)}, u, Without(a, c), b)
<1> DEFINE Y == X \ {DropColumn(u, c)}
           n == Without(a, c)
<1>1. c \in DOMAIN a \ DOMAIN b /\ \A e : RenameColumn(u, c, e) \notin X
  BY DEF ColumnsDue
<1>2. DOMAIN n = DOMAIN a \ {c} /\ \A e \in DOMAIN n : n[e] = a[e]
  BY <1>1 DEF Without
<1>3. \A y : y \in Y <=> y \in X /\ y # DropColumn(u, c)
  OBVIOUS
<1> HIDE DEF Y, n
<1> QED BY <1>1, <1>2, <1>3, Fields DEF ColumnsDue, Y, n

LEMMA ColumnRenamed ==
  ASSUME NEW X, NEW u, NEW a, NEW b, NEW c, NEW d, NEW v, NEW n, ColumnsDue(X, u, a, b),
         RenameColumn(u, c, d) \in X, v = a[c], n = Put(Without(a, c), d, v)
  PROVE  ColumnsDue(X \ {RenameColumn(u, c, d)}, u, n, b)
<1> DEFINE Y == X \ {RenameColumn(u, c, d)}
<1>1. c \in DOMAIN a \ DOMAIN b /\ d \in DOMAIN b \ DOMAIN a /\ a[c] = b[d]
  BY DEF ColumnsDue
<1>2. /\ DOMAIN n = (DOMAIN a \ {c}) \cup {d} /\ n[d] = b[d]
      /\ \A e \in DOMAIN a \ {c} : n[e] = a[e]
  BY <1>1 DEF Without, Put
<1>3. \A y : y \in Y <=> y \in X /\ y # RenameColumn(u, c, d)
  OBVIOUS
<1> HIDE DEF Y
<1> QED BY <1>1, <1>2, <1>3, Fields DEF ColumnsDue, Y

LEMMA ColumnSet ==
  ASSUME NEW X, NEW u, NEW a, NEW b, NEW c, NEW x, NEW col, ColumnsDue(X, u, a, b), x \in X,
         c \in DOMAIN a \cap DOMAIN b,
         a[c] = [type |-> a[c].type, nullable |-> a[c].nullable, unique |-> a[c].unique, auto |-> a[c].auto],
         \/ x = AlterColumnType(u, c, a[c].type, b[c].type) /\ col = [a[c] EXCEPT !.type = b[c].type]
         \/ x = SetNullable(u, c, b[c].nullable) /\ col = [a[c] EXCEPT !.nullable = b[c].nullable]
         \/ x = SetUnique(u, c, b[c].unique) /\ col = [a[c] EXCEPT !.unique = b[c].unique]
         \/ x = SetAutoIncrement(u, c, b[c].auto) /\ col = [a[c] EXCEPT !.auto = b[c].auto]
  PROVE  ColumnsDue(X \ {x}, u, Put(a, c, col), b)
<1> DEFINE Y == X \ {x}
           n == Put(a, c, col)
<1>1. /\ DOMAIN n = DOMAIN a /\ n[c] = col /\ \A e \in DOMAIN a : e # c => n[e] = a[e]
  BY DEF Put
<1>2. \A y : y \in Y <=> y \in X /\ y # x
  OBVIOUS
<1>3. \/ /\ x = AlterColumnType(u, c, a[c].type, b[c].type)
         /\ col.type = b[c].type /\ col.nullable = a[c].nullable /\ col.unique = a[c].unique /\ col.auto = a[c].auto
      \/ /\ x = SetNullable(u, c, b[c].nullable)
         /\ col.type = a[c].type /\ col.nullable = b[c].nullable /\ col.unique = a[c].unique /\ col.auto = a[c].auto
      \/ /\ x = SetUnique(u, c, b[c].unique)
         /\ col.type = a[c].type /\ col.nullable = a[c].nullable /\ col.unique = b[c].unique /\ col.auto = a[c].auto
      \/ /\ x = SetAutoIncrement(u, c, b[c].auto)
         /\ col.type = a[c].type /\ col.nullable = a[c].nullable /\ col.unique = a[c].unique /\ col.auto = b[c].auto
  <2> DEFINE p == a[c]
  <2>1. p = [type |-> p.type, nullable |-> p.nullable, unique |-> p.unique, auto |-> p.auto]
    OBVIOUS
  <2> HIDE DEF p
  <2>2. \A v : /\ [p EXCEPT !.type = v] = [type |-> v, nullable |-> p.nullable, unique |-> p.unique, auto |-> p.auto]
               /\ [p EXCEPT !.nullable = v] = [type |-> p.type, nullable |-> v, unique |-> p.unique, auto |-> p.auto]
               /\ [p EXCEPT !.unique = v] = [type |-> p.type, nullable |-> p.nullable, unique |-> v, auto |-> p.auto]
               /\ [p EXCEPT !.auto = v] = [type |-> p.type, nullable |-> p.nullable, unique |-> p.unique, auto |-> v]
    BY <2>1
  <2> QED BY <2>2 DEF p
<1>4. /\ x.change \in {"AlterColumnType", "SetNullable", "SetUnique", "SetAutoIncrement"}
      /\ x.table = u /\ x.name = c
      /\ IF x.change = "AlterColumnType"
         THEN x = AlterColumnType(u, c, a[c].type, b[c].type) /\ col.type = b[c].type ELSE col.type = a[c].type
      /\ IF x.change = "SetNullable"
         THEN x = SetNullable(u, c, b[c].nullable) /\ col.nullable = b[c].nullable ELSE col.nullable = a[c].nullable
      /\ IF x.change = "SetUnique"
         THEN x = SetUnique(u, c, b[c].unique) /\ col.unique = b[c].unique ELSE col.unique = a[c].unique
      /\ IF x.change = "SetAutoIncrement"
         THEN x = SetAutoIncrement(u, c, b[c].auto) /\ col.auto = b[c].auto ELSE col.auto = a[c].auto
  BY <1>3, Fields
<1> HIDE DEF Y, n
<1>5. \A e, p, q : AlterColumnType(u, e, p, q) \in Y <=>
         e \in DOMAIN n \cap DOMAIN b /\ p = n[e].type /\ q = b[e].type /\ p # q
  <2>1. CASE x.change = "AlterColumnType"
    BY <1>1, <1>2, <1>4, <2>1, Fields DEF ColumnsDue
  <2>2. CASE x.change # "AlterColumnType"
    BY <1>1, <1>2, <1>4, <2>2, Fields DEF ColumnsDue
  <2> QED BY <2>1, <2>2
<1>6. \A e, q : SetNullable(u, e, q) \in Y <=>
         e \in DOMAIN n \cap DOMAIN b /\ q = b[e].nullable /\ n[e].nullable # q
  <2>1. CASE x.change = "SetNullable"
    BY <1>1, <1>2, <1>4, <2>1, Fields DEF ColumnsDue
  <2>2. CASE x.change # "SetNullable"
    BY <1>1, <1>2, <1>4, <2>2, Fields DEF ColumnsDue
  <2> QED BY <2>1, <2>2
<1>7. \A e, q : SetUnique(u, e, q) \in Y <=>
         e \in DOMAIN n \cap DOMAIN b /\ q = b[e].unique /\ n[e].unique # q
  <2>1. CASE x.change = "SetUnique"
    BY <1>1, <1>2, <1>4, <2>1, Fields DEF ColumnsDue
  <2>2. CASE x.change # "SetUnique"
    BY <1>1, <1>2, <1>4, <2>2, Fields DEF ColumnsDue
  <2> QED BY <2>1, <2>2
<1>8. \A e, q : SetAutoIncrement(u, e, q) \in Y <=>
         e \in DOMAIN n \cap DOMAIN b /\ q = b[e].auto /\ n[e].auto # q
  <2>1. CASE x.change = "SetAutoIncrement"
    BY <1>1, <1>2, <1>4, <2>1, Fields DEF ColumnsDue
  <2>2. CASE x.change # "SetAutoIncrement"
    BY <1>1, <1>2, <1>4, <2>2, Fields DEF ColumnsDue
  <2> QED BY <2>1, <2>2
<1>9. /\ \A e, d : AddColumn(u, e, d) \in Y <=> AddColumn(u, e, d) \in X
      /\ \A e : DropColumn(u, e) \in Y <=> DropColumn(u, e) \in X
      /\ \A e, d : RenameColumn(u, e, d) \in Y <=> RenameColumn(u, e, d) \in X
  BY <1>2, <1>4, Fields
<1>10. \A d, e : RenameColumn(u, d, e) \in Y => n[d] = b[e]
  BY <1>1, <1>9 DEF ColumnsDue
<1> QED BY <1>1, <1>5, <1>6, <1>7, <1>8, <1>9, <1>10 DEF ColumnsDue, Y, n

-----------------------------------------------------------------------------
(* What a change may rely on when it is the next of a plan.                *)

\* The schema s is well formed, its target is one a database could hold, and the changes X
\* account for what tells them apart.  Valid(s) itself fails while a plan is applied: keys
\* and constraints are in between.
Good(X, s, t) == IsSchema(s) /\ Valid(t) /\ TypesAreKnown(s) /\ 0 \notin Enums(s) /\ Account(X, s, t)

\* The change h may come first of the changes X.
First(h, X, t) == h \in X /\ \A y \in X \ {h} : Before(h, y, t)

LEMMA Phases ==
  ASSUME NEW x
  PROVE  /\ Phase(x) \in 1..5
         /\ x.change \in {"CreateEnum", "AddEnumVariant"} => Phase(x) = 1
         /\ x.change = "DropForeignKey" => Phase(x) = 2
         /\ x.change \in TableKinds \cup ColumnKinds \cup {"SetPrimaryKey"} => Phase(x) = 3
         /\ x.change = "AddForeignKey" => Phase(x) = 4
         /\ x.change = "DropEnum" => Phase(x) = 5
BY DEF Phase, TableKinds, ColumnKinds, FlagKinds

LEMMA NotEarlier ==
  ASSUME NEW X, NEW t, NEW h, First(h, X, t)
  PROVE  \A x \in X : Phase(h) <= Phase(x)
<1> SUFFICES ASSUME NEW x \in X PROVE Phase(h) <= Phase(x)
  OBVIOUS
<1>1. CASE x = h
  BY <1>1, Phases
<1>2. CASE x # h
  BY <1>2 DEF First, Before
<1> QED BY <1>1, <1>2

LEMMA TableWritten ==
  ASSUME NEW s, NEW u, NEW d, NEW n, IsSchema(s), IsTable(d), u \in Nat, n = WithTable(s, u, d)
  PROVE  /\ IsSchema(n) /\ n.enums = s.enums /\ Enums(n) = Enums(s)
         /\ Tables(n) = Tables(s) \cup {u}
         /\ n.tables[u] = d /\ \A v \in Tables(s) : v # u => n.tables[v] = s.tables[v]
<1> DEFINE ts == Put(s.tables, u, d)
<1>1. n = [tables |-> ts, enums |-> s.enums]
  BY DEF IsSchema, WithTable
<1>2. /\ DOMAIN ts = DOMAIN s.tables \cup {u} /\ ts = [x \in DOMAIN ts |-> ts[x]]
      /\ ts[u] = d /\ \A v \in DOMAIN s.tables : v # u => ts[v] = s.tables[v]
  BY DEF Put
<1> HIDE DEF ts
<1>3. n.tables = ts /\ n.enums = s.enums /\ n = [tables |-> n.tables, enums |-> n.enums]
  BY <1>1
<1>4. IsFiniteSet(DOMAIN ts) /\ DOMAIN ts \subseteq Nat
  BY <1>2, FS_AddElement DEF IsSchema, IsMap
<1>5. IsMap(ts)
  BY <1>2, <1>4 DEF IsMap
<1>6. \A v \in DOMAIN ts : IsTable(ts[v])
  BY <1>2 DEF IsSchema, Tables
<1>7. IsSchema(n)
  BY <1>3, <1>5, <1>6 DEF IsSchema, Tables, Enums
<1> QED BY <1>2, <1>3, <1>7 DEF Tables, Enums

\* A change of the columns or the key of one table.
LEMMA TableStep ==
  ASSUME NEW X, NEW s, NEW t, NEW h, NEW u, NEW d, Good(X, s, t), h \in X, u \in Common(s, t),
         h.change \in ColumnKinds \cup {"SetPrimaryKey"}, h.table = u, IsTable(d),
         d.foreign = s.tables[u].foreign,
         ColumnsDue(X \ {h}, u, d.columns, t.tables[u].columns),
         KeyDue(X \ {h}, u, d.key, t.tables[u].key),
         \A c \in DOMAIN d.columns : d.columns[c].type \in {0} \cup Enums(s)
  PROVE  Good(X \ {h}, WithTable(s, u, d), t)
<1> DEFINE Y == X \ {h}
           n == WithTable(s, u, d)
<1>1. u \in Nat /\ u \in Tables(s) /\ u \in Tables(t)
  BY DEF Common, Good, IsSchema, IsMap, Tables
<1>2. /\ IsSchema(n) /\ n.enums = s.enums /\ Enums(n) = Enums(s) /\ Tables(n) = Tables(s)
      /\ n.tables[u] = d /\ \A v \in Tables(s) : v # u => n.tables[v] = s.tables[v]
  <2>1. IsSchema(s) /\ IsTable(d) /\ u \in Nat /\ Tables(s) \cup {u} = Tables(s)
    BY <1>1 DEF Good
  <2>3. n = WithTable(s, u, d)
    OBVIOUS
  <2> HIDE DEF n
  <2>2. /\ IsSchema(n) /\ n.enums = s.enums /\ Enums(n) = Enums(s) /\ Tables(n) = Tables(s) \cup {u}
        /\ n.tables[u] = d /\ \A v \in Tables(s) : v # u => n.tables[v] = s.tables[v]
    BY <2>1, <2>3, TableWritten
  <2> QED BY <2>1, <2>2
<1>3. \A y : y \in Y <=> y \in X /\ y # h
  OBVIOUS
<1> HIDE DEF Y, n
<1>4. EnumAccount(Y, n, t)
  BY <1>2, <1>3, EnumFrame DEF Good, Account, EnumChangeKinds, ColumnKinds, FlagKinds
<1>5. ForeignAccount(Y, n, t)
  <2>1. \A v : ForeignOf(n, v) = ForeignOf(s, v)
    BY <1>1, <1>2 DEF ForeignOf
  <2> QED BY <1>3, <2>1, ForeignFrame DEF Good, Account, ForeignKinds, ColumnKinds, FlagKinds
<1>6. TableAccount(Y, n, t)
  BY <1>1, <1>2, <1>3, TableFrame DEF Good, Account, TableKinds, ColumnKinds, FlagKinds
<1>7. ASSUME NEW v PROVE ColumnsDue(Y, v, ColumnsOf(n, t, v), ColumnsOf(t, n, v))
  <2>1. CASE v = u
    BY <1>1, <1>2, <2>1 DEF ColumnsOf, Common, Y
  <2>2. CASE v # u
    <3>1. ColumnsOf(n, t, v) = ColumnsOf(s, t, v) /\ ColumnsOf(t, n, v) = ColumnsOf(t, s, v)
      BY <1>2, <2>2 DEF ColumnsOf, Common
    <3>2. ColumnsDue(X, v, ColumnsOf(s, t, v), ColumnsOf(t, s, v))
      BY DEF Good, Account, ColumnAccount
    <3>3. \A y : y.change \in ColumnKinds /\ y.table = v => (y \in X <=> y \in Y)
      BY <1>3, <2>2
    <3> QED BY <3>1, <3>2, <3>3, ColumnFrame
  <2> QED BY <2>1, <2>2
<1>8. ASSUME NEW v PROVE KeyDue(Y, v, KeyOf(n, t, v), KeyOf(t, n, v))
  <2>1. CASE v = u
    BY <1>1, <1>2, <2>1 DEF KeyOf, Common, Y
  <2>2. CASE v # u
    <3>1. KeyOf(n, t, v) = KeyOf(s, t, v) /\ KeyOf(t, n, v) = KeyOf(t, s, v)
      BY <1>2, <2>2 DEF KeyOf, Common
    <3>2. KeyDue(X, v, KeyOf(s, t, v), KeyOf(t, s, v))
      BY DEF Good, Account, KeyAccount
    <3>3. \A y : y.change \in {"SetPrimaryKey", "RenameColumn"} /\ y.table = v => (y \in X <=> y \in Y)
      BY <1>3, <2>2
    <3> QED BY <3>1, <3>2, <3>3, KeyFrame
  <2> QED BY <2>1, <2>2
<1>9. TypesAreKnown(n) /\ 0 \notin Enums(n)
  BY <1>1, <1>2 DEF TypesAreKnown, Good
<1>10. \A x \in Y : IsChange(x)
  BY <1>3 DEF Good, Account
<1> QED BY <1>2, <1>4, <1>5, <1>6, <1>7, <1>8, <1>9, <1>10 DEF Good, Account, ColumnAccount, KeyAccount, Y, n

\* A change of the constraints of one table.
LEMMA ForeignStep ==
  ASSUME NEW X, NEW s, NEW t, NEW h, NEW u, NEW d, Good(X, s, t), h \in X, u \in Tables(s),
         h.change \in ForeignKinds, IsTable(d),
         d.columns = s.tables[u].columns, d.key = s.tables[u].key,
         ForeignAccount(X \ {h}, WithTable(s, u, d), t)
  PROVE  Good(X \ {h}, WithTable(s, u, d), t)
<1> DEFINE Y == X \ {h}
           n == WithTable(s, u, d)
<1>1. u \in Nat
  BY DEF Good, IsSchema, IsMap, Tables
<1>2. /\ IsSchema(n) /\ n.enums = s.enums /\ Enums(n) = Enums(s) /\ Tables(n) = Tables(s)
      /\ n.tables[u] = d /\ \A v \in Tables(s) : v # u => n.tables[v] = s.tables[v]
  <2>1. IsSchema(s) /\ IsTable(d) /\ u \in Nat /\ Tables(s) \cup {u} = Tables(s)
    BY <1>1 DEF Good
  <2>3. n = WithTable(s, u, d)
    OBVIOUS
  <2> HIDE DEF n
  <2>2. /\ IsSchema(n) /\ n.enums = s.enums /\ Enums(n) = Enums(s) /\ Tables(n) = Tables(s) \cup {u}
        /\ n.tables[u] = d /\ \A v \in Tables(s) : v # u => n.tables[v] = s.tables[v]
    BY <2>1, <2>3, TableWritten
  <2> QED BY <2>1, <2>2
<1>3. \A y : y \in Y <=> y \in X /\ y # h
  OBVIOUS
<1>5. ForeignAccount(Y, n, t)
  OBVIOUS
<1> HIDE DEF Y, n
<1>4. EnumAccount(Y, n, t)
  BY <1>2, <1>3, EnumFrame DEF Good, Account, EnumChangeKinds, ForeignKinds
<1>6. TableAccount(Y, n, t)
  BY <1>1, <1>2, <1>3, TableFrame DEF Good, Account, TableKinds, ForeignKinds
<1>7. ASSUME NEW v PROVE ColumnsDue(Y, v, ColumnsOf(n, t, v), ColumnsOf(t, n, v))
  <2>1. ColumnsOf(n, t, v) = ColumnsOf(s, t, v) /\ ColumnsOf(t, n, v) = ColumnsOf(t, s, v)
    BY <1>2 DEF ColumnsOf, Common
  <2>2. ColumnsDue(X, v, ColumnsOf(s, t, v), ColumnsOf(t, s, v))
    BY DEF Good, Account, ColumnAccount
  <2>3. \A y : y.change \in ColumnKinds /\ y.table = v => (y \in X <=> y \in Y)
    BY <1>3 DEF ColumnKinds, FlagKinds, ForeignKinds
  <2> QED BY <2>1, <2>2, <2>3, ColumnFrame
<1>8. ASSUME NEW v PROVE KeyDue(Y, v, KeyOf(n, t, v), KeyOf(t, n, v))
  <2>1. KeyOf(n, t, v) = KeyOf(s, t, v) /\ KeyOf(t, n, v) = KeyOf(t, s, v)
    BY <1>2 DEF KeyOf, Common
  <2>2. KeyDue(X, v, KeyOf(s, t, v), KeyOf(t, s, v))
    BY DEF Good, Account, KeyAccount
  <2>3. \A y : y.change \in {"SetPrimaryKey", "RenameColumn"} /\ y.table = v => (y \in X <=> y \in Y)
    BY <1>3 DEF ForeignKinds
  <2> QED BY <2>1, <2>2, <2>3, KeyFrame
<1>9. TypesAreKnown(n) /\ 0 \notin Enums(n)
  BY <1>1, <1>2 DEF TypesAreKnown, Good
<1>10. \A x \in Y : IsChange(x)
  BY <1>3 DEF Good, Account
<1> QED BY <1>2, <1>4, <1>5, <1>6, <1>7, <1>8, <1>9, <1>10 DEF Good, Account, ColumnAccount, KeyAccount, Y, n

\* A change of the enum types.
LEMMA EnumStep ==
  ASSUME NEW X, NEW s, NEW t, NEW h, NEW es, Good(X, s, t), h \in X, h.change \in EnumChangeKinds,
         IsMap(es), 0 \notin DOMAIN es, \A e \in DOMAIN es : es[e] \in Seq(ElementsOf(es[e])),
         EnumAccount(X \ {h}, [s EXCEPT !.enums = es], t),
         \A v \in Tables(s) : \A c \in DOMAIN s.tables[v].columns :
            s.tables[v].columns[c].type \in {0} \cup DOMAIN es
  PROVE  Good(X \ {h}, [s EXCEPT !.enums = es], t)
<1> DEFINE Y == X \ {h}
           n == [s EXCEPT !.enums = es]
<1>1. n = [tables |-> s.tables, enums |-> es]
  BY DEF Good, IsSchema
<1>2. n.tables = s.tables /\ n.enums = es /\ n = [tables |-> n.tables, enums |-> n.enums]
  BY <1>1
<1>3. \A y : y \in Y <=> y \in X /\ y # h
  OBVIOUS
<1>4. EnumAccount(Y, n, t)
  OBVIOUS
<1> HIDE DEF Y, n
<1>5. IsSchema(n) /\ Tables(n) = Tables(s)
  BY <1>2 DEF IsSchema, Good, Tables, Enums
<1>6. ForeignAccount(Y, n, t)
  <2>1. \A v : ForeignOf(n, v) = ForeignOf(s, v)
    BY <1>2 DEF ForeignOf, Tables
  <2> QED BY <1>3, <2>1, ForeignFrame DEF Good, Account, ForeignKinds, EnumChangeKinds
<1>7. TableAccount(Y, n, t)
  BY <1>2, <1>3, <1>5, TableFrame DEF Good, Account, TableKinds, EnumChangeKinds
<1>8. ASSUME NEW v PROVE ColumnsDue(Y, v, ColumnsOf(n, t, v), ColumnsOf(t, n, v))
  <2>1. ColumnsOf(n, t, v) = ColumnsOf(s, t, v) /\ ColumnsOf(t, n, v) = ColumnsOf(t, s, v)
    BY <1>2, <1>5 DEF ColumnsOf, Common
  <2>2. ColumnsDue(X, v, ColumnsOf(s, t, v), ColumnsOf(t, s, v))
    BY DEF Good, Account, ColumnAccount
  <2>3. \A y : y.change \in ColumnKinds /\ y.table = v => (y \in X <=> y \in Y)
    BY <1>3 DEF ColumnKinds, FlagKinds, EnumChangeKinds
  <2> QED BY <2>1, <2>2, <2>3, ColumnFrame
<1>9. ASSUME NEW v PROVE KeyDue(Y, v, KeyOf(n, t, v), KeyOf(t, n, v))
  <2>1. KeyOf(n, t, v) = KeyOf(s, t, v) /\ KeyOf(t, n, v) = KeyOf(t, s, v)
    BY <1>2, <1>5 DEF KeyOf, Common
  <2>2. KeyDue(X, v, KeyOf(s, t, v), KeyOf(t, s, v))
    BY DEF Good, Account, KeyAccount
  <2>3. \A y : y.change \in {"SetPrimaryKey", "RenameColumn"} /\ y.table = v => (y \in X <=> y \in Y)
    BY <1>3 DEF EnumChangeKinds
  <2> QED BY <2>1, <2>2, <2>3, KeyFrame
<1>10. TypesAreKnown(n) /\ 0 \notin Enums(n)
  BY <1>2 DEF TypesAreKnown, Tables, Enums
<1>11. \A x \in Y : IsChange(x)
  BY <1>3 DEF Good, Account
<1> QED BY <1>4, <1>5, <1>6, <1>7, <1>8, <1>9, <1>10, <1>11 DEF Good, Account, ColumnAccount, KeyAccount, Y, n

\* What no longer tells the schema from the target once the plan is past a phase.
LEMMA PastDrops ==
  ASSUME NEW X, NEW s, NEW t, Good(X, s, t), \A x \in X : Phase(x) >= 3
  PROVE  /\ Enums(t) \subseteq Enums(s)
         /\ \A u \in Tables(s) : \A f \in DOMAIN s.tables[u].foreign :
               /\ u \in Tables(t) /\ f \in DOMAIN t.tables[u].foreign
               /\ s.tables[u].foreign[f] = t.tables[u].foreign[f]
<1>1. ASSUME NEW x \in X PROVE x.change \notin {"CreateEnum", "DropForeignKey"}
  <2>1. Phase(x) >= 3
    OBVIOUS
  <2> QED BY <2>1, Phases
<1>2. Enums(t) \subseteq Enums(s)
  <2> SUFFICES ASSUME NEW e \in Enums(t), e \notin Enums(s) PROVE FALSE
    OBVIOUS
  <2>1. CreateEnum(e, t.enums[e]) \in X
    BY DEF Good, Account, EnumAccount
  <2> QED BY <1>1, <2>1, Fields
<1>3. \A u : Unmatched(ForeignOf(s, u), ForeignOf(t, u)) = {}
  BY <1>1, Fields DEF Good, Account, ForeignAccount
<1>4. ASSUME NEW u \in Tables(s), NEW f \in DOMAIN s.tables[u].foreign
      PROVE  /\ u \in Tables(t) /\ f \in DOMAIN t.tables[u].foreign
             /\ s.tables[u].foreign[f] = t.tables[u].foreign[f]
  <2>1. f \in DOMAIN ForeignOf(t, u) /\ ForeignOf(t, u)[f] = s.tables[u].foreign[f]
    BY <1>3, <1>4 DEF Unmatched, ForeignOf
  <2> QED BY <2>1 DEF ForeignOf
<1> QED BY <1>2, <1>4

LEMMA SettledColumns ==
  ASSUME NEW X, NEW u, NEW a, NEW b, IsMap(a), IsMap(b), ColumnsDue(X, u, a, b),
         \A c \in DOMAIN a : a[c] = [type |-> a[c].type, nullable |-> a[c].nullable,
                                     unique |-> a[c].unique, auto |-> a[c].auto],
         \A c \in DOMAIN b : b[c] = [type |-> b[c].type, nullable |-> b[c].nullable,
                                     unique |-> b[c].unique, auto |-> b[c].auto],
         \A x \in X : x.change \notin ColumnKinds
  PROVE  a = b
<1>1. \A c, d : RenameColumn(u, c, d) \notin X /\ AddColumn(u, c, d) \notin X /\ DropColumn(u, c) \notin X
                /\ SetNullable(u, c, d) \notin X /\ SetUnique(u, c, d) \notin X /\ SetAutoIncrement(u, c, d) \notin X
  BY Fields DEF ColumnKinds, FlagKinds
<1>2. \A c, p, q : AlterColumnType(u, c, p, q) \notin X
  BY Fields DEF ColumnKinds
<1>3. DOMAIN a = DOMAIN b
  BY <1>1 DEF ColumnsDue
<1>4. ASSUME NEW c \in DOMAIN a PROVE a[c] = b[c]
  <2>1. a[c].type = b[c].type
    BY <1>2, <1>3 DEF ColumnsDue
  <2>2. a[c].nullable = b[c].nullable
    BY <1>1, <1>3 DEF ColumnsDue
  <2>3. a[c].unique = b[c].unique
    BY <1>1, <1>3 DEF ColumnsDue
  <2>4. a[c].auto = b[c].auto
    BY <1>1, <1>3 DEF ColumnsDue
  <2> QED BY <1>3, <2>1, <2>2, <2>3, <2>4
<1> QED BY <1>3, <1>4 DEF IsMap

LEMMA PastTables ==
  ASSUME NEW X, NEW s, NEW t, Good(X, s, t), \A x \in X : Phase(x) >= 4
  PROVE  /\ Tables(s) = Tables(t)
         /\ \A u \in Tables(t) : s.tables[u].columns = t.tables[u].columns /\ s.tables[u].key = t.tables[u].key
<1>1. \A x \in X : x.change \notin TableKinds \cup ColumnKinds \cup {"SetPrimaryKey"}
  BY Phases
<1>2. \A u, v : DropTable(u) \notin X /\ CreateTable(u, v) \notin X /\ RenameTable(u, v) \notin X
  BY <1>1, Fields DEF TableKinds
<1>3. Tables(s) = Tables(t)
  <2>1. \A u : u \in Tables(s) => u \in Tables(t)
    BY <1>2 DEF Good, Account, TableAccount
  <2>2. ASSUME NEW u \in Tables(t), u \notin Tables(s) PROVE FALSE
    <3>1. CreateTable(u, Bare(t.tables[u])) \in X
      BY <1>2, <2>2 DEF Good, Account, TableAccount
    <3> QED BY <1>2, <3>1
  <2> QED BY <2>1, <2>2
<1>4. ASSUME NEW u \in Tables(t)
      PROVE  s.tables[u].columns = t.tables[u].columns /\ s.tables[u].key = t.tables[u].key
  <2>1. IsTable(s.tables[u]) /\ IsTable(t.tables[u])
    BY <1>3 DEF Good, IsSchema, Valid
  <2>2. ColumnsDue(X, u, s.tables[u].columns, t.tables[u].columns)
    BY <1>3, SMTT(40) DEF Good, Account, ColumnAccount, ColumnsOf, Common
  <2>3. s.tables[u].columns = t.tables[u].columns
    BY <1>1, <2>1, <2>2, SettledColumns DEF IsTable
  <2>4. KeyDue(X, u, s.tables[u].key, t.tables[u].key)
    BY <1>3 DEF Good, Account, KeyAccount, KeyOf, Common
  <2>5. \A p, q : SetPrimaryKey(u, p, q) \notin X /\ RenameColumn(u, p, q) \notin X
    BY <1>1, Fields, SMTT(40) DEF ColumnKinds
  <2>6. IsKeyAfter(X, u, s.tables[u].key, s.tables[u].key)
    BY <2>1, <2>5 DEF IsKeyAfter, Follows, IsTable
  <2>7. SetPrimaryKey(u, s.tables[u].key, t.tables[u].key) \in X <=>
           IsKeyAfter(X, u, s.tables[u].key, s.tables[u].key) /\ s.tables[u].key # t.tables[u].key
    BY <2>4 DEF KeyDue
  <2> QED BY <2>3, <2>5, <2>6, <2>7
<1> QED BY <1>3, <1>4

-----------------------------------------------------------------------------
(* The changes of enum types.                                              *)

\* Map n is m with k taken to v, or without k.
IsPut(n, m, k, v) ==
    /\ IsMap(n) /\ DOMAIN n = DOMAIN m \cup {k}
    /\ n[k] = v /\ \A x \in DOMAIN m : x # k => n[x] = m[x]

IsCut(n, m, k) == IsMap(n) /\ DOMAIN n = DOMAIN m \ {k} /\ \A x \in DOMAIN n : n[x] = m[x]

LEMMA MapPut ==
  ASSUME NEW m, NEW k, NEW v, NEW n, IsMap(m), k \in Nat, n = Put(m, k, v)
  PROVE  IsPut(n, m, k, v)
<1>1. DOMAIN n = DOMAIN m \cup {k} /\ n[k] = v /\ \A x \in DOMAIN m : x # k => n[x] = m[x]
  BY DEF Put
<1>2. n = [x \in DOMAIN n |-> n[x]]
  BY DEF Put
<1>3. IsFiniteSet(DOMAIN m \cup {k}) /\ DOMAIN m \cup {k} \subseteq Nat
  BY FS_AddElement DEF IsMap
<1> QED BY <1>1, <1>2, <1>3 DEF IsMap, IsPut

LEMMA MapWithout ==
  ASSUME NEW m, NEW k, NEW n, IsMap(m), n = Without(m, k)
  PROVE  IsCut(n, m, k)
<1>1. DOMAIN n = DOMAIN m \ {k} /\ \A x \in DOMAIN n : n[x] = m[x]
  BY DEF Without
<1>2. n = [x \in DOMAIN n |-> n[x]]
  BY DEF Without
<1>3. IsFiniteSet(DOMAIN m \ {k}) /\ DOMAIN m \ {k} \subseteq Nat
  BY FS_RemoveElement DEF IsMap
<1> QED BY <1>1, <1>2, <1>3 DEF IsMap, IsCut

\* The change h is accepted, and the rest of X accounts for what is left.
Arrives(X, s, h, t) == Apply(s, h).answer = "ok" /\ Good(X \ {h}, Apply(s, h).schema, t)

LEMMA CreateEnumArrives ==
  ASSUME NEW X, NEW s, NEW t, NEW e, NEW v, Good(X, s, t), CreateEnum(e, v) \in X
  PROVE  Arrives(X, s, CreateEnum(e, v), t)
<1> DEFINE h == CreateEnum(e, v)
           es == Put(s.enums, e, v)
           n == [s EXCEPT !.enums = es]
<1>1. e \in Enums(t) /\ e \notin Enums(s) /\ v = t.enums[e] /\ e \in Nat
  BY DEF Good, Account, EnumAccount, Valid, IsSchema, IsMap, Enums
<1>2. h.change = "CreateEnum" /\ h.enum = e /\ h.variants = v
  BY Fields
<1> HIDE DEF h
<1>3. Apply(s, h) = Accept(n)
  BY <1>1, <1>2 DEF Apply, ApplyCreateEnum
<1>4. /\ IsMap(es) /\ DOMAIN es = Enums(s) \cup {e} /\ es[e] = v
      /\ \A x \in Enums(s) : x # e => es[x] = s.enums[x]
  <2>1. es = Put(s.enums, e, v) /\ IsMap(s.enums) /\ e \in Nat
    BY <1>1 DEF Good, IsSchema
  <2> HIDE DEF es
  <2>2. IsPut(es, s.enums, e, v)
    BY <2>1, MapPut
  <2> QED BY <2>2 DEF Enums, IsPut
<1> HIDE DEF es
<1>5. n = [tables |-> s.tables, enums |-> es]
  BY DEF Good, IsSchema
<1>6. \A x \in DOMAIN es : es[x] \in Seq(ElementsOf(es[x]))
  BY <1>1, <1>4 DEF Good, IsSchema, Valid, Enums
<1>7. EnumAccount(X \ {h}, n, t)
  <2> DEFINE Y == X \ {h}
  <2>1. \A y : y \in Y <=> y \in X /\ y # h
    OBVIOUS
  <2>2. Enums(n) = Enums(s) \cup {e} /\ n.enums = es
    BY <1>4, <1>5 DEF Enums
  <2> HIDE DEF Y, n
  <2>3. DOMAIN t.enums[e] = 1..Len(t.enums[e]) /\ Len(t.enums[e]) \in Nat
    BY <1>1 DEF Good, Valid, IsSchema
  <2>4. /\ \A x, w : CreateEnum(x, w) \in Y <=> x \in Enums(t) \ Enums(n) /\ w = t.enums[x]
        /\ \A x : DropEnum(x) \in Y <=> x \in Enums(n) \ Enums(t)
    BY <1>1, <1>2, <2>1, <2>2, Fields DEF Good, Account, EnumAccount, h
  <2>5. \A x, w : AddEnumVariant(x, w) \in Y <=> AddEnumVariant(x, w) \in X
    BY <1>2, <2>1, Fields
  <2>6. \A w : AddEnumVariant(e, w) \notin X
    BY <1>1 DEF Good, Account, EnumAccount
  <2>7. ASSUME NEW x, NEW w
        PROVE  AddEnumVariant(x, w) \in Y <=>
                 /\ x \in Enums(n) \cap Enums(t)
                 /\ \E k \in DOMAIN t.enums[x] \ DOMAIN n.enums[x] : w = t.enums[x][k]
    <3>1. CASE x = e
      BY <1>1, <1>4, <2>2, <2>5, <2>6, <3>1
    <3>2. CASE x # e
      BY <1>4, <2>2, <2>5, <3>2 DEF Good, Account, EnumAccount
    <3> QED BY <3>1, <3>2
  <2>8. \A x \in Enums(n) \cap Enums(t) :
           Len(n.enums[x]) <= Len(t.enums[x]) /\ \A k \in 1..Len(n.enums[x]) : n.enums[x][k] = t.enums[x][k]
    BY <1>1, <1>4, <2>2, <2>3 DEF Good, Account, EnumAccount
  <2> QED BY <2>4, <2>7, <2>8 DEF EnumAccount, Y
<1>8. \A w \in Tables(s) : \A c \in DOMAIN s.tables[w].columns :
         s.tables[w].columns[c].type \in {0} \cup DOMAIN es
  BY <1>4 DEF Good, TypesAreKnown
<1>10. 0 \notin DOMAIN es
  BY <1>1, <1>4 DEF Good, Valid
<1>9. Good(X \ {h}, n, t)
  <2> HIDE DEF n
  <2>1. h \in X /\ h.change \in EnumChangeKinds
    BY <1>2 DEF EnumChangeKinds, h
  <2> QED BY <2>1, <1>4, <1>6, <1>7, <1>8, <1>10, EnumStep DEF n
<1> QED BY <1>3, <1>9 DEF Arrives, Accept, h

LEMMA AddEnumVariantArrives ==
  ASSUME NEW X, NEW s, NEW t, NEW e, NEW v, Good(X, s, t), First(AddEnumVariant(e, v), X, t)
  PROVE  Arrives(X, s, AddEnumVariant(e, v), t)
<1> DEFINE h == AddEnumVariant(e, v)
           m == Len(s.enums[e])
           to == t.enums[e]
           es == Put(s.enums, e, Append(s.enums[e], v))
           n == [s EXCEPT !.enums = es]
<1>0. h \in X
  BY DEF First
<1>1. e \in Enums(t) /\ e \in Enums(s) /\ e \in Nat
  BY <1>0 DEF Good, Account, EnumAccount, IsSchema, IsMap, Enums
<1>2. /\ s.enums[e] \in Seq(ElementsOf(s.enums[e])) /\ to \in Seq(ElementsOf(to))
  BY <1>1 DEF Good, IsSchema, Valid
<1>3. /\ DOMAIN s.enums[e] = 1..m /\ DOMAIN to = 1..Len(to) /\ m \in Nat /\ Len(to) \in Nat
      /\ m <= Len(to) /\ \A k \in 1..m : s.enums[e][k] = to[k]
  BY <1>1, <1>2 DEF Good, Account, EnumAccount
<1>4. \A i, j \in 1..Len(to) : to[i] = to[j] => i = j
  BY <1>1, <1>3 DEF Good, Valid
<1>5. h.change = "AddEnumVariant" /\ h.enum = e /\ h.variant = v
  BY Fields
<1>6. PICK k \in DOMAIN to \ DOMAIN s.enums[e] : v = to[k]
  BY <1>0 DEF Good, Account, EnumAccount
<1>7. m + 1 \in 1..Len(to) /\ m + 1 <= k
  BY <1>3, <1>6
<1>8. v = to[m + 1]
  <2> SUFFICES ASSUME v # to[m + 1] PROVE FALSE
    OBVIOUS
  <2> DEFINE y == AddEnumVariant(e, to[m + 1])
  <2>1. y \in X
    <3>1. m + 1 \in DOMAIN to \ DOMAIN s.enums[e]
      BY <1>3, <1>7
    <3> QED BY <1>1, <3>1 DEF Good, Account, EnumAccount
  <2>2. y.change = "AddEnumVariant" /\ y.enum = e /\ y.variant = to[m + 1]
    BY Fields
  <2>3. Before(h, y, t)
    <3>1. y # h
      BY <1>5, <2>2
    <3> QED BY <2>1, <3>1 DEF First
  <2> HIDE DEF y, h
  <2>4. PICK i, j \in DOMAIN to : i < j /\ v = to[i] /\ to[m + 1] = to[j]
    BY <1>5, <2>2, <2>3 DEF Before
  <2> HIDE DEF m, to
  <2>5. i = k /\ j = m + 1
    BY <1>3, <1>4, <1>6, <1>7, <2>4
  <2> QED BY <1>3, <1>6, <1>7, <2>4, <2>5
<1>9. v \notin ElementsOf(s.enums[e])
  <2> HIDE DEF m, to
  <2> QED BY <1>3, <1>4, <1>7, <1>8 DEF ElementsOf
<1> HIDE DEF h
<1>10. Apply(s, h) = Accept(n)
  BY <1>1, <1>5, <1>9 DEF Apply, ApplyAddEnumVariant
<1>11. /\ IsMap(es) /\ DOMAIN es = Enums(s) /\ es[e] = Append(s.enums[e], v)
       /\ \A x \in Enums(s) : x # e => es[x] = s.enums[x]
  <2> DEFINE w == Append(s.enums[e], v)
  <2> HIDE DEF w
  <2>1. IsMap(s.enums) /\ DOMAIN s.enums \cup {e} = DOMAIN s.enums
    BY <1>1 DEF Good, IsSchema, Enums
  <2>3. es = Put(s.enums, e, w)
    BY DEF w
  <2> HIDE DEF es
  <2>2. IsPut(es, s.enums, e, w)
    BY <1>1, <2>1, <2>3, MapPut
  <2> QED BY <2>1, <2>2 DEF Enums, IsPut, w
<1>12. /\ Append(s.enums[e], v) \in Seq(ElementsOf(Append(s.enums[e], v)))
       /\ DOMAIN Append(s.enums[e], v) = 1..(m + 1) /\ Len(Append(s.enums[e], v)) = m + 1
       /\ Append(s.enums[e], v)[m + 1] = v
       /\ \A i \in 1..m : Append(s.enums[e], v)[i] = s.enums[e][i]
  <2> DEFINE q == s.enums[e]
             w == Append(q, v)
             T == ElementsOf(q) \cup {v}
  <2>1. q \in Seq(T) /\ v \in T
    BY <1>2
  <2> HIDE DEF q, T
  <2>2. /\ w \in Seq(T) /\ Len(w) = Len(q) + 1 /\ DOMAIN w = 1..(Len(q) + 1)
        /\ w[Len(q) + 1] = v /\ \A j \in 1..Len(q) : w[j] = q[j]
    BY <2>1, AppendedTo
  <2>3. w \in Seq(ElementsOf(w))
    <3> HIDE DEF w
    <3>1. w \in [1..Len(w) -> ElementsOf(w)] /\ Len(w) \in Nat
      BY <2>2 DEF ElementsOf
    <3> QED BY <3>1, IsSequence
  <2> QED BY <2>2, <2>3 DEF q
<1> DEFINE w == Append(s.enums[e], v)
<1> HIDE DEF es, w
<1>13. n = [tables |-> s.tables, enums |-> es]
  BY DEF Good, IsSchema
<1>14. \A x \in DOMAIN es : es[x] \in Seq(ElementsOf(es[x]))
  BY <1>11, <1>12 DEF Good, IsSchema, w
<1>15. EnumAccount(X \ {h}, n, t)
  <2> DEFINE Y == X \ {h}
  <2>1. \A y : y \in Y <=> y \in X /\ y # h
    OBVIOUS
  <2>2. Enums(n) = Enums(s) /\ n.enums = es
    BY <1>11, <1>13 DEF Enums
  <2>9. es[e] = w /\ DOMAIN w = 1..(m + 1) /\ Len(w) = m + 1 /\ w[m + 1] = v /\ \A i \in 1..m : w[i] = to[i]
    BY <1>3, <1>11, <1>12 DEF w
  <2> HIDE DEF Y, n
  <2>4. /\ \A x, y : CreateEnum(x, y) \in Y <=> x \in Enums(t) \ Enums(n) /\ y = t.enums[x]
        /\ \A x : DropEnum(x) \in Y <=> x \in Enums(n) \ Enums(t)
    BY <1>5, <2>1, <2>2, Fields DEF Good, Account, EnumAccount
  <2>5. \A x, y : AddEnumVariant(x, y) \in Y <=> AddEnumVariant(x, y) \in X /\ ~(x = e /\ y = v)
    BY <1>5, <2>1, Fields DEF h
  <2>7. ASSUME NEW x, NEW y
        PROVE  AddEnumVariant(x, y) \in Y <=>
                 /\ x \in Enums(n) \cap Enums(t)
                 /\ \E i \in DOMAIN t.enums[x] \ DOMAIN n.enums[x] : y = t.enums[x][i]
    <3>1. CASE x = e
      <4>1. AddEnumVariant(e, y) \in X <=> \E i \in DOMAIN to \ DOMAIN s.enums[e] : y = to[i]
        BY <1>1 DEF Good, Account, EnumAccount
      <4>2. AddEnumVariant(e, y) \in X <=> \E i \in 1..Len(to) : i > m /\ y = to[i]
        <5> HIDE DEF m, to
        <5> QED BY <4>1, <1>3
      <4> HIDE DEF m, to
      <4>3. AddEnumVariant(e, y) \in Y <=> \E i \in 1..Len(to) : i > m + 1 /\ y = to[i]
        BY <4>2, <2>5, <1>3, <1>4, <1>7, <1>8
      <4>4. (\E i \in DOMAIN to \ DOMAIN es[e] : y = to[i]) <=> \E i \in 1..Len(to) : i > m + 1 /\ y = to[i]
        BY <1>3, <2>9
      <4> QED BY <1>1, <2>2, <3>1, <4>3, <4>4 DEF to
    <3>2. CASE x # e
      BY <1>11, <2>2, <2>5, <3>2 DEF Good, Account, EnumAccount
    <3> QED BY <3>1, <3>2
  <2>8. ASSUME NEW x \in Enums(n) \cap Enums(t)
        PROVE Len(n.enums[x]) <= Len(t.enums[x]) /\ \A i \in 1..Len(n.enums[x]) : n.enums[x][i] = t.enums[x][i]
    <3>1. CASE x = e
      <4>1. Len(w) <= Len(to) /\ \A i \in 1..Len(w) : w[i] = to[i]
        <5> HIDE DEF m, to
        <5> QED BY <1>3, <1>7, <1>8, <2>9
      <4> QED BY <2>2, <2>9, <3>1, <4>1
    <3>2. CASE x # e
      BY <1>11, <2>2, <3>2 DEF Good, Account, EnumAccount
    <3> QED BY <3>1, <3>2
  <2> QED BY <2>4, <2>7, <2>8 DEF EnumAccount, Y
<1>16. \A x \in Tables(s) : \A c \in DOMAIN s.tables[x].columns :
         s.tables[x].columns[c].type \in {0} \cup DOMAIN es
  BY <1>11 DEF Good, TypesAreKnown
<1>17. Good(X \ {h}, n, t)
  <2> HIDE DEF n
  <2>1. h \in X /\ h.change \in EnumChangeKinds
    BY <1>0, <1>5 DEF EnumChangeKinds
  <2>2. 0 \notin DOMAIN es
    BY <1>11 DEF Good
  <2> QED BY <2>1, <2>2, <1>11, <1>14, <1>15, <1>16, EnumStep DEF n
<1> QED BY <1>10, <1>17 DEF Arrives, Accept, h

LEMMA DropEnumArrives ==
  ASSUME NEW X, NEW s, NEW t, NEW e, Good(X, s, t), First(DropEnum(e), X, t)
  PROVE  Arrives(X, s, DropEnum(e), t)
<1> DEFINE h == DropEnum(e)
           es == Without(s.enums, e)
           n == [s EXCEPT !.enums = es]
<1>0. h \in X /\ h.change = "DropEnum" /\ h.enum = e
  BY Fields DEF First
<1>1. e \in Enums(s) /\ e \notin Enums(t)
  BY <1>0 DEF Good, Account, EnumAccount
<1>2. \A x \in X : Phase(x) >= 5
  <2>1. Phase(h) = 5
    BY <1>0, Phases
  <2>2. \A x \in X : Phase(h) <= Phase(x) /\ Phase(x) \in 1..5
    <3> HIDE DEF h
    <3> QED BY NotEarlier, Phases DEF h
  <2> HIDE DEF h
  <2> QED BY <2>1, <2>2
<1> HIDE DEF h
<1>3. /\ Tables(s) = Tables(t)
      /\ \A u \in Tables(t) : s.tables[u].columns = t.tables[u].columns
  <2>1. \A x \in X : Phase(x) >= 4
    BY <1>2, Phases
  <2> QED BY <2>1, PastTables
<1>4. \A u \in Tables(s) : \A c \in DOMAIN s.tables[u].columns :
         s.tables[u].columns[c].type \in {0} \cup Enums(t) /\ s.tables[u].columns[c].type # e
  <2>1. \A u \in Tables(t) : \A c \in DOMAIN t.tables[u].columns :
           t.tables[u].columns[c].type \in {0} \cup Enums(t)
    BY DEF Good, Valid, TypesAreKnown
  <2>2. e # 0
    BY <1>1 DEF Good
  <2> QED BY <1>1, <1>3, <2>1, <2>2
<1>5. Apply(s, h) = Accept(n)
  BY <1>0, <1>1, <1>4 DEF Apply, ApplyDropEnum
<1>6. /\ IsMap(es) /\ DOMAIN es = Enums(s) \ {e} /\ \A x \in Enums(s) \ {e} : es[x] = s.enums[x]
  <2>1. es = Without(s.enums, e) /\ IsMap(s.enums)
    BY DEF Good, IsSchema
  <2> HIDE DEF es
  <2>2. IsCut(es, s.enums, e)
    BY <2>1, MapWithout
  <2> QED BY <2>2 DEF Enums, IsCut
<1> HIDE DEF es
<1>7. n = [tables |-> s.tables, enums |-> es]
  BY DEF Good, IsSchema
<1>8. \A x \in DOMAIN es : es[x] \in Seq(ElementsOf(es[x]))
  BY <1>6 DEF Good, IsSchema, Enums
<1>9. EnumAccount(X \ {h}, n, t)
  <2> DEFINE Y == X \ {h}
  <2>1. \A y : y \in Y <=> y \in X /\ y # h
    OBVIOUS
  <2>2. Enums(n) = Enums(s) \ {e} /\ n.enums = es
    BY <1>6, <1>7 DEF Enums
  <2> HIDE DEF Y, n
  <2>3. /\ \A x, w : CreateEnum(x, w) \in Y <=> x \in Enums(t) \ Enums(n) /\ w = t.enums[x]
        /\ \A x : DropEnum(x) \in Y <=> x \in Enums(n) \ Enums(t)
    BY <1>0, <1>1, <2>1, <2>2, Fields DEF Good, Account, EnumAccount, h
  <2>4. \A x, w : AddEnumVariant(x, w) \in Y <=> AddEnumVariant(x, w) \in X
    BY <1>0, <2>1, Fields
  <2>5. \A x \in Enums(n) \cap Enums(t) : n.enums[x] = s.enums[x] /\ x \in Enums(s)
    BY <1>6, <2>2
  <2>6. \A x : x \in Enums(n) \cap Enums(t) <=> x \in Enums(s) \cap Enums(t)
    BY <1>1, <2>2
  <2> QED BY <2>3, <2>4, <2>5, <2>6 DEF Good, Account, EnumAccount, Y
<1>10. \A x \in Tables(s) : \A c \in DOMAIN s.tables[x].columns :
         s.tables[x].columns[c].type \in {0} \cup DOMAIN es
  <2>1. Enums(t) \subseteq Enums(s)
    <3>1. \A x \in X : Phase(x) >= 3
      BY <1>2, Phases
    <3> QED BY <3>1, PastDrops
  <2> QED BY <2>1, <1>1, <1>4, <1>6
<1>11. Good(X \ {h}, n, t)
  <2> HIDE DEF n
  <2>1. h \in X /\ h.change \in EnumChangeKinds
    BY <1>0 DEF EnumChangeKinds
  <2>2. 0 \notin DOMAIN es
    BY <1>6 DEF Good
  <2> QED BY <2>1, <2>2, <1>6, <1>8, <1>9, <1>10, EnumStep DEF n
<1> QED BY <1>5, <1>11 DEF Arrives, Accept, h

-----------------------------------------------------------------------------
(* The changes of constraints.                                             *)

LEMMA TableEdited ==
  ASSUME NEW d, NEW columns, NEW key, NEW F, IsTable(d)
  PROVE  /\ [d EXCEPT !.foreign = F] = [columns |-> d.columns, key |-> d.key, foreign |-> F]
         /\ [d EXCEPT !.columns = columns] = [columns |-> columns, key |-> d.key, foreign |-> d.foreign]
         /\ [d EXCEPT !.key = key] = [columns |-> d.columns, key |-> key, foreign |-> d.foreign]
         /\ [d EXCEPT !.columns = columns, !.foreign = F] = [columns |-> columns, key |-> d.key, foreign |-> F]
         /\ [d EXCEPT !.columns = columns, !.key = key] = [columns |-> columns, key |-> key, foreign |-> d.foreign]
<1> DEFINE a == d.columns
           b == d.key
           c == d.foreign
           e == [d EXCEPT !.columns = columns]
<1>1. d = [columns |-> a, key |-> b, foreign |-> c]
  BY DEF IsTable
<1> HIDE DEF a, b, c
<1>2. [d EXCEPT !.foreign = F] = [columns |-> a, key |-> b, foreign |-> F]
  BY <1>1
<1>3. e = [columns |-> columns, key |-> b, foreign |-> c]
  BY <1>1
<1>4. [d EXCEPT !.key = key] = [columns |-> a, key |-> key, foreign |-> c]
  BY <1>1
<1>7. [d EXCEPT !.columns = columns, !.foreign = F] = [e EXCEPT !.foreign = F]
  OBVIOUS
<1>8. [d EXCEPT !.columns = columns, !.key = key] = [e EXCEPT !.key = key]
  OBVIOUS
<1>9. [d EXCEPT !.columns = columns] = e
  OBVIOUS
<1> HIDE DEF e
<1>5. [e EXCEPT !.foreign = F] = [columns |-> columns, key |-> b, foreign |-> F]
  BY <1>3
<1>6. [e EXCEPT !.key = key] = [columns |-> columns, key |-> key, foreign |-> c]
  BY <1>3
<1> QED BY <1>2, <1>3, <1>4, <1>5, <1>6, <1>7, <1>8, <1>9 DEF a, b, c

ColumnRecord(c) == c = [type |-> c.type, nullable |-> c.nullable, unique |-> c.unique, auto |-> c.auto]
ForeignRecord(f) == f = [column |-> f.column, table |-> f.table, target |-> f.target, action |-> f.action]

LEMMA TableParts ==
  ASSUME NEW d
  PROVE  IsTable(d) <=>
           /\ d = [columns |-> d.columns, key |-> d.key, foreign |-> d.foreign]
           /\ IsMap(d.columns) /\ IsMap(d.foreign)
           /\ d.key = [i \in DOMAIN d.key |-> d.key[i]]
           /\ \A c \in DOMAIN d.columns : ColumnRecord(d.columns[c])
           /\ \A f \in DOMAIN d.foreign : ForeignRecord(d.foreign[f])
BY DEF IsTable, ColumnRecord, ForeignRecord

LEMMA MadeOfParts ==
  ASSUME NEW d, NEW columns, NEW key, NEW F, d = [columns |-> columns, key |-> key, foreign |-> F],
         IsMap(columns), IsMap(F), key = [i \in DOMAIN key |-> key[i]],
         \A c \in DOMAIN columns : ColumnRecord(columns[c]),
         \A f \in DOMAIN F : ForeignRecord(F[f])
  PROVE  IsTable(d) /\ d.columns = columns /\ d.key = key /\ d.foreign = F
<1>1. d.columns = columns /\ d.key = key /\ d.foreign = F
  OBVIOUS
<1> QED BY <1>1, TableParts

LEMMA ForeignSet ==
  ASSUME NEW d, NEW F, NEW e, IsTable(d), IsMap(F), \A f \in DOMAIN F : ForeignRecord(F[f]),
         e = [d EXCEPT !.foreign = F]
  PROVE  IsTable(e) /\ e.columns = d.columns /\ e.key = d.key /\ e.foreign = F
<1>1. e = [columns |-> d.columns, key |-> d.key, foreign |-> F]
  BY TableEdited
<1>2. /\ IsMap(d.columns) /\ d.key = [i \in DOMAIN d.key |-> d.key[i]]
      /\ \A c \in DOMAIN d.columns : ColumnRecord(d.columns[c])
  BY TableParts
<1> DEFINE columns == d.columns
           key == d.key
<1> HIDE DEF columns, key
<1>3. IsTable(e) /\ e.columns = columns /\ e.key = key /\ e.foreign = F
  BY <1>1, <1>2, MadeOfParts DEF columns, key
<1> QED BY <1>3 DEF columns, key

LEMMA DropForeignKeyArrives ==
  ASSUME NEW X, NEW s, NEW t, NEW u, NEW f, Good(X, s, t), DropForeignKey(u, f) \in X
  PROVE  Arrives(X, s, DropForeignKey(u, f), t)
<1> DEFINE h == DropForeignKey(u, f)
           G == s.tables[u].foreign
           F == Without(G, f)
           d == [s.tables[u] EXCEPT !.foreign = F]
           n == WithTable(s, u, d)
<1>0. h \in X /\ h.change = "DropForeignKey" /\ h.table = u /\ h.name = f
  BY Fields
<1>1. f \in Unmatched(ForeignOf(s, u), ForeignOf(t, u))
  BY DEF Good, Account, ForeignAccount
<1>2. u \in Tables(s) /\ u \in Nat /\ f \in DOMAIN G /\ IsTable(s.tables[u]) /\ ForeignOf(s, u) = G
  <2>1. u \in Tables(s) /\ f \in DOMAIN G
    BY <1>1 DEF Unmatched, ForeignOf
  <2> QED BY <2>1 DEF Good, IsSchema, IsMap, Tables, ForeignOf
<1> HIDE DEF h
<1>3. Apply(s, h) = Accept(n)
  BY <1>0, <1>2 DEF Apply, ApplyDropForeignKey
<1>4. IsMap(G) /\ \A g \in DOMAIN G : ForeignRecord(G[g])
  BY <1>2, TableParts
<1>5. IsCut(F, G, f)
  <2>1. F = Without(G, f)
    OBVIOUS
  <2> HIDE DEF F, G
  <2> QED BY <1>4, <2>1, MapWithout
<1> HIDE DEF F
<1>6. \A g \in DOMAIN F : ForeignRecord(F[g])
  BY <1>4, <1>5 DEF IsCut
<1>7. IsTable(d) /\ d.columns = s.tables[u].columns /\ d.key = s.tables[u].key /\ d.foreign = F
  <2> DEFINE p == s.tables[u]
  <2>1. d = [p EXCEPT !.foreign = F] /\ IsTable(p)
    BY <1>2
  <2> HIDE DEF p, d
  <2>2. IsTable(d) /\ d.columns = p.columns /\ d.key = p.key /\ d.foreign = F
    BY <2>1, <1>5, <1>6, ForeignSet DEF IsCut
  <2> QED BY <2>2 DEF p
<1> HIDE DEF d, G
<1>8. Tables(n) = Tables(s) /\ n.tables[u] = d /\ \A v \in Tables(s) : v # u => n.tables[v] = s.tables[v]
  <2>1. IsSchema(s) /\ Tables(s) \cup {u} = Tables(s) /\ n = WithTable(s, u, d)
    BY <1>2 DEF Good
  <2> HIDE DEF n
  <2>2. Tables(n) = Tables(s) \cup {u} /\ n.tables[u] = d /\ \A v \in Tables(s) : v # u => n.tables[v] = s.tables[v]
    BY <1>2, <1>7, <2>1, TableWritten
  <2> QED BY <2>1, <2>2
<1> HIDE DEF n
<1>9. ForeignOf(n, u) = F /\ \A v : v # u => ForeignOf(n, v) = ForeignOf(s, v)
  BY <1>2, <1>7, <1>8 DEF ForeignOf
<1>10. ForeignAccount(X \ {h}, n, t)
  <2> DEFINE Y == X \ {h}
  <2>1. \A y : y \in Y <=> y \in X /\ y # h
    OBVIOUS
  <2> HIDE DEF Y
  <2>2. \A g : g \in Unmatched(F, ForeignOf(t, u)) <=> g \in Unmatched(G, ForeignOf(t, u)) /\ g # f
    BY <1>5 DEF IsCut, Unmatched
  <2>3. \A g : g \in Unmatched(ForeignOf(t, u), F) <=> g \in Unmatched(ForeignOf(t, u), G)
    BY <1>1, <1>2, <1>5 DEF IsCut, Unmatched
  <2>4. ASSUME NEW v, NEW g PROVE DropForeignKey(v, g) \in Y <=> g \in Unmatched(ForeignOf(n, v), ForeignOf(t, v))
    <3>1. DropForeignKey(v, g) \in X <=> g \in Unmatched(ForeignOf(s, v), ForeignOf(t, v))
      BY DEF Good, Account, ForeignAccount
    <3>2. DropForeignKey(v, g) = h <=> v = u /\ g = f
      BY Fields DEF h
    <3>3. CASE v = u
      BY <1>2, <1>9, <2>1, <2>2, <3>1, <3>2, <3>3
    <3>4. CASE v # u
      BY <1>9, <2>1, <3>1, <3>2, <3>4
    <3> QED BY <3>3, <3>4
  <2>5. ASSUME NEW v, NEW g, NEW e
        PROVE  AddForeignKey(v, g, e) \in Y <=>
                 g \in Unmatched(ForeignOf(t, v), ForeignOf(n, v)) /\ e = ForeignOf(t, v)[g]
    <3>1. AddForeignKey(v, g, e) \in X <=> g \in Unmatched(ForeignOf(t, v), ForeignOf(s, v)) /\ e = ForeignOf(t, v)[g]
      BY DEF Good, Account, ForeignAccount
    <3>2. AddForeignKey(v, g, e) # h
      BY <1>0, Fields
    <3>3. CASE v = u
      BY <1>2, <1>9, <2>1, <2>3, <3>1, <3>2, <3>3
    <3>4. CASE v # u
      BY <1>9, <2>1, <3>1, <3>2, <3>4
    <3> QED BY <3>3, <3>4
  <2> QED BY <2>4, <2>5 DEF ForeignAccount, Y
<1>11. Good(X \ {h}, n, t)
  <2>1. h.change \in ForeignKinds
    BY <1>0 DEF ForeignKinds
  <2> QED BY <1>0, <1>2, <1>7, <1>10, <2>1, ForeignStep DEF n
<1> QED BY <1>3, <1>11 DEF Arrives, Accept, h

LEMMA AddForeignKeyArrives ==
  ASSUME NEW X, NEW s, NEW t, NEW u, NEW f, NEW g, Good(X, s, t), First(AddForeignKey(u, f, g), X, t)
  PROVE  Arrives(X, s, AddForeignKey(u, f, g), t)
<1> DEFINE h == AddForeignKey(u, f, g)
           G == s.tables[u].foreign
           F == Put(G, f, g)
           d == [s.tables[u] EXCEPT !.foreign = F]
           n == WithTable(s, u, d)
<1>0. h \in X /\ h.change = "AddForeignKey" /\ h.table = u /\ h.name = f /\ h.foreign = g
  BY Fields DEF First
<1>1. f \in Unmatched(ForeignOf(t, u), ForeignOf(s, u)) /\ g = ForeignOf(t, u)[f]
  BY <1>0 DEF Good, Account, ForeignAccount
<1>2. u \in Tables(t) /\ f \in DOMAIN t.tables[u].foreign /\ g = t.tables[u].foreign[f]
  BY <1>1 DEF Unmatched, ForeignOf
<1>3. \A x \in X : Phase(x) >= 4
  <2>1. Phase(h) = 4
    BY <1>0, Phases
  <2>2. \A x \in X : Phase(h) <= Phase(x) /\ Phase(x) \in 1..5
    <3> HIDE DEF h
    <3> QED BY NotEarlier, Phases DEF h
  <2> HIDE DEF h
  <2> QED BY <2>1, <2>2
<1> HIDE DEF h
<1>4. /\ Tables(s) = Tables(t)
      /\ \A v \in Tables(t) : s.tables[v].columns = t.tables[v].columns /\ s.tables[v].key = t.tables[v].key
  BY <1>3, PastTables
<1>5. \A v \in Tables(s) : \A k \in DOMAIN s.tables[v].foreign :
         /\ v \in Tables(t) /\ k \in DOMAIN t.tables[v].foreign
         /\ s.tables[v].foreign[k] = t.tables[v].foreign[k]
  <2>1. \A x \in X : Phase(x) >= 3
    BY <1>3, Phases
  <2> QED BY <2>1, PastDrops
<1>6. u \in Tables(s) /\ u \in Nat /\ f \in Nat /\ IsTable(s.tables[u]) /\ IsTable(t.tables[u]) /\ ForeignOf(s, u) = G
  <2>1. u \in Tables(s) /\ ForeignOf(s, u) = G
    BY <1>2, <1>4 DEF ForeignOf
  <2>2. IsSchema(s) /\ IsSchema(t)
    BY DEF Good, Valid
  <2>3. IsTable(s.tables[u]) /\ IsTable(t.tables[u]) /\ u \in Nat
    BY <1>2, <2>1, <2>2, SMTT(40) DEF IsSchema, IsMap, Tables
  <2>4. f \in Nat
    BY <1>2, <2>3 DEF IsTable, IsMap
  <2> QED BY <2>1, <2>3, <2>4
<1>7. f \notin DOMAIN G
  BY <1>1, <1>2, <1>5, <1>6 DEF Unmatched, ForeignOf
<1>8. HasColumn(s, u, g.column) /\ HasColumn(s, g.table, g.target) /\ Referable(s, g.table, g.target)
  <2>1. HasColumn(t, u, g.column) /\ HasColumn(t, g.table, g.target) /\ Referable(t, g.table, g.target)
    BY <1>2 DEF Good, Valid, NoDanglingReference, ReferencesOf, ReferencesAreUnique
  <2> QED BY <2>1, <1>4 DEF HasColumn, Referable
<1>9. Apply(s, h) = Accept(n)
  <2>1. g.table \in Tables(s)
    BY <1>8 DEF HasColumn
  <2> QED BY <2>1, <1>0, <1>6, <1>7, <1>8 DEF Apply, ApplyAddForeignKey
<1>10. IsMap(G) /\ (\A k \in DOMAIN G : ForeignRecord(G[k])) /\ ForeignRecord(g)
  BY <1>2, <1>6, TableParts
<1>11. IsPut(F, G, f, g)
  <2>1. F = Put(G, f, g)
    OBVIOUS
  <2> HIDE DEF F, G
  <2> QED BY <1>6, <1>10, <2>1, MapPut
<1> HIDE DEF F
<1>12. \A k \in DOMAIN F : ForeignRecord(F[k])
  BY <1>10, <1>11 DEF IsPut
<1>13. IsTable(d) /\ d.columns = s.tables[u].columns /\ d.key = s.tables[u].key /\ d.foreign = F
  <2> DEFINE p == s.tables[u]
  <2>1. d = [p EXCEPT !.foreign = F] /\ IsTable(p)
    BY <1>6
  <2> HIDE DEF p, d
  <2>2. IsTable(d) /\ d.columns = p.columns /\ d.key = p.key /\ d.foreign = F
    BY <2>1, <1>11, <1>12, ForeignSet DEF IsPut
  <2> QED BY <2>2 DEF p
<1> HIDE DEF d, G
<1>14. Tables(n) = Tables(s) /\ n.tables[u] = d /\ \A v \in Tables(s) : v # u => n.tables[v] = s.tables[v]
  <2>1. IsSchema(s) /\ Tables(s) \cup {u} = Tables(s) /\ n = WithTable(s, u, d)
    BY <1>6 DEF Good
  <2> HIDE DEF n
  <2>2. Tables(n) = Tables(s) \cup {u} /\ n.tables[u] = d /\ \A v \in Tables(s) : v # u => n.tables[v] = s.tables[v]
    BY <1>6, <1>13, <2>1, TableWritten
  <2> QED BY <2>1, <2>2
<1> HIDE DEF n
<1>15. ForeignOf(n, u) = F /\ \A v : v # u => ForeignOf(n, v) = ForeignOf(s, v)
  BY <1>6, <1>13, <1>14 DEF ForeignOf
<1>16. ForeignAccount(X \ {h}, n, t)
  <2> DEFINE Y == X \ {h}
  <2>1. \A y : y \in Y <=> y \in X /\ y # h
    OBVIOUS
  <2> HIDE DEF Y
  <2>6. f \in DOMAIN ForeignOf(t, u) /\ ForeignOf(t, u)[f] = g
    BY <1>2 DEF ForeignOf
  <2>2. \A k : k \in Unmatched(F, ForeignOf(t, u)) <=> k \in Unmatched(G, ForeignOf(t, u))
    BY <1>7, <1>11, <2>6 DEF IsPut, Unmatched
  <2>3. \A k : k \in Unmatched(ForeignOf(t, u), F) <=> k \in Unmatched(ForeignOf(t, u), G) /\ k # f
    BY <1>7, <1>11, <2>6 DEF IsPut, Unmatched
  <2>4. ASSUME NEW v, NEW k PROVE DropForeignKey(v, k) \in Y <=> k \in Unmatched(ForeignOf(n, v), ForeignOf(t, v))
    <3>1. DropForeignKey(v, k) \in X <=> k \in Unmatched(ForeignOf(s, v), ForeignOf(t, v))
      BY DEF Good, Account, ForeignAccount
    <3>2. DropForeignKey(v, k) # h
      BY <1>0, Fields
    <3>3. CASE v = u
      BY <1>6, <1>15, <2>1, <2>2, <3>1, <3>2, <3>3
    <3>4. CASE v # u
      BY <1>15, <2>1, <3>1, <3>2, <3>4
    <3> QED BY <3>3, <3>4
  <2>5. ASSUME NEW v, NEW k, NEW e
        PROVE  AddForeignKey(v, k, e) \in Y <=>
                 k \in Unmatched(ForeignOf(t, v), ForeignOf(n, v)) /\ e = ForeignOf(t, v)[k]
    <3>1. AddForeignKey(v, k, e) \in X <=> k \in Unmatched(ForeignOf(t, v), ForeignOf(s, v)) /\ e = ForeignOf(t, v)[k]
      BY DEF Good, Account, ForeignAccount
    <3>2. AddForeignKey(v, k, e) = h <=> v = u /\ k = f /\ e = g
      BY Fields DEF h
    <3>3. CASE v = u
      BY <1>6, <1>15, <2>1, <2>3, <2>6, <3>1, <3>2, <3>3
    <3>4. CASE v # u
      BY <1>15, <2>1, <3>1, <3>2, <3>4
    <3> QED BY <3>3, <3>4
  <2> QED BY <2>4, <2>5 DEF ForeignAccount, Y
<1>17. Good(X \ {h}, n, t)
  <2>1. h.change \in ForeignKinds
    BY <1>0 DEF ForeignKinds
  <2> QED BY <1>0, <1>6, <1>13, <1>16, <2>1, ForeignStep DEF n
<1> QED BY <1>9, <1>17 DEF Arrives, Accept, h

-----------------------------------------------------------------------------
(* The changes of columns and keys.                                        *)

LEMMA InCommon ==
  ASSUME NEW X, NEW s, NEW t, Account(X, s, t), NEW h \in X, h.change \in ColumnKinds \cup {"SetPrimaryKey"}
  PROVE  h.table \in Common(s, t)
<1> DEFINE u == h.table
<1> SUFFICES ASSUME u \notin Common(s, t) PROVE FALSE
  OBVIOUS
<1>1. /\ ColumnsOf(s, t, u) = <<>> /\ ColumnsOf(t, s, u) = <<>>
      /\ KeyOf(s, t, u) = <<>> /\ KeyOf(t, s, u) = <<>>
  BY DEF ColumnsOf, KeyOf, Common
<1>2. DOMAIN <<>> = {}
  OBVIOUS
<1>3. /\ IsChange(h)
      /\ ColumnsDue(X, u, <<>>, <<>>) /\ KeyDue(X, u, <<>>, <<>>)
  <2>1. ColumnsDue(X, u, ColumnsOf(s, t, u), ColumnsOf(t, s, u))
    BY DEF Account, ColumnAccount
  <2>2. KeyDue(X, u, KeyOf(s, t, u), KeyOf(t, s, u))
    BY DEF Account, KeyAccount
  <2>3. IsChange(h)
    BY DEF Account
  <2> QED BY <1>1, <2>1, <2>2, <2>3
<1> HIDE DEF u
<1>4. /\ \A c, d : AddColumn(u, c, d) \notin X /\ DropColumn(u, c) \notin X /\ RenameColumn(u, c, d) \notin X
                   /\ SetNullable(u, c, d) \notin X /\ SetUnique(u, c, d) \notin X
                   /\ SetAutoIncrement(u, c, d) \notin X
      /\ \A c, p, q : AlterColumnType(u, c, p, q) \notin X
  BY <1>2, <1>3 DEF ColumnsDue
<1>5. \A p, q : SetPrimaryKey(u, p, q) \notin X
  <2>1. ASSUME NEW p, IsKeyAfter(X, u, <<>>, p) PROVE p = <<>>
    <3>1. p = [i \in {} |-> p[i]]
      BY <1>2, <2>1 DEF IsKeyAfter
    <3> QED BY <3>1
  <2> QED BY <1>3, <2>1 DEF KeyDue
<1>6. \/ h = AddColumn(u, h.name, h.column) \/ h = DropColumn(u, h.name) \/ h = RenameColumn(u, h.name, h.to)
      \/ h = AlterColumnType(u, h.name, h.from, h.to) \/ h = SetNullable(u, h.name, h.to)
      \/ h = SetUnique(u, h.name, h.to) \/ h = SetAutoIncrement(u, h.name, h.to)
      \/ h = SetPrimaryKey(u, h.from, h.to)
  BY <1>3, Fields DEF IsChange, ColumnKinds, FlagKinds, u
<1> QED BY <1>4, <1>5, <1>6

\* By then only constraints of the target are left, and its enum types are there.
LEMMA InTheMiddle ==
  ASSUME NEW X, NEW s, NEW t, NEW h, Good(X, s, t), First(h, X, t), Phase(h) = 3
  PROVE  /\ Enums(t) \subseteq Enums(s)
         /\ \A u \in Tables(s) : \A f \in DOMAIN s.tables[u].foreign :
               /\ u \in Tables(t) /\ f \in DOMAIN t.tables[u].foreign
               /\ s.tables[u].foreign[f] = t.tables[u].foreign[f]
               /\ HasColumn(t, u, s.tables[u].foreign[f].column)
               /\ HasColumn(t, s.tables[u].foreign[f].table, s.tables[u].foreign[f].target)
<1>1. \A x \in X : Phase(x) >= 3
  BY NotEarlier, Phases
<1>2. /\ Enums(t) \subseteq Enums(s)
      /\ \A u \in Tables(s) : \A f \in DOMAIN s.tables[u].foreign :
               /\ u \in Tables(t) /\ f \in DOMAIN t.tables[u].foreign
               /\ s.tables[u].foreign[f] = t.tables[u].foreign[f]
  BY <1>1, PastDrops
<1>3. \A u \in Tables(t) : \A f \in DOMAIN t.tables[u].foreign :
               /\ HasColumn(t, u, t.tables[u].foreign[f].column)
               /\ HasColumn(t, t.tables[u].foreign[f].table, t.tables[u].foreign[f].target)
  BY DEF Good, Valid, NoDanglingReference, ReferencesOf
<1> QED BY <1>2, <1>3

LEMMA ShareTable ==
  ASSUME NEW X, NEW s, NEW t, NEW u, Good(X, s, t), u \in Common(s, t)
  PROVE  /\ u \in Tables(s) /\ u \in Tables(t) /\ u \in Nat
         /\ IsTable(s.tables[u]) /\ IsTable(t.tables[u])
         /\ ColumnsDue(X, u, s.tables[u].columns, t.tables[u].columns)
         /\ KeyDue(X, u, s.tables[u].key, t.tables[u].key)
         /\ \A c \in DOMAIN s.tables[u].columns : s.tables[u].columns[c].type \in {0} \cup Enums(s)
         /\ \A c \in DOMAIN t.tables[u].columns : t.tables[u].columns[c].type \in {0} \cup Enums(t)
<1>1. u \in Tables(s) /\ u \in Tables(t) /\ IsSchema(s) /\ IsSchema(t)
  BY DEF Common, Good, Valid
<1>2. u \in Nat /\ IsTable(s.tables[u]) /\ IsTable(t.tables[u])
  BY <1>1 DEF IsSchema, IsMap, Tables
<1>3. ColumnsDue(X, u, ColumnsOf(s, t, u), ColumnsOf(t, s, u)) /\ KeyDue(X, u, KeyOf(s, t, u), KeyOf(t, s, u))
  BY DEF Good, Account, ColumnAccount, KeyAccount
<1>4. /\ ColumnsOf(s, t, u) = s.tables[u].columns /\ ColumnsOf(t, s, u) = t.tables[u].columns
      /\ KeyOf(s, t, u) = s.tables[u].key /\ KeyOf(t, s, u) = t.tables[u].key
  BY <1>1 DEF ColumnsOf, KeyOf, Common
<1>5. TypesAreKnown(s) /\ TypesAreKnown(t)
  BY DEF Good, Valid
<1> QED BY <1>1, <1>2, <1>3, <1>4, <1>5 DEF TypesAreKnown

LEMMA ColumnsEdited ==
  ASSUME NEW X, NEW s, NEW t, NEW h, NEW u, NEW columns, NEW d, Good(X, s, t), h \in X, u \in Common(s, t),
         h.change \in ColumnKinds \ {"RenameColumn"}, h.table = u,
         IsMap(columns), \A c \in DOMAIN columns : ColumnRecord(columns[c]),
         \A c \in DOMAIN columns : columns[c].type \in {0} \cup Enums(s),
         d = [s.tables[u] EXCEPT !.columns = columns],
         ColumnsDue(X \ {h}, u, columns, t.tables[u].columns)
  PROVE  Good(X \ {h}, WithTable(s, u, d), t)
<1> DEFINE p == s.tables[u]
           key == p.key
           F == p.foreign
<1>1. IsTable(p) /\ KeyDue(X, u, key, t.tables[u].key)
  BY ShareTable
<1>2. /\ IsMap(F) /\ key = [i \in DOMAIN key |-> key[i]]
      /\ \A f \in DOMAIN F : ForeignRecord(F[f])
  BY <1>1, TableParts
<1>3. d = [columns |-> columns, key |-> key, foreign |-> F]
  <2> HIDE DEF p
  <2> QED BY <1>1, TableEdited DEF p
<1> HIDE DEF key, F
<1>4. IsTable(d) /\ d.columns = columns /\ d.key = key /\ d.foreign = F
  BY <1>2, <1>3, MadeOfParts
<1>5. KeyDue(X \ {h}, u, key, t.tables[u].key)
  <2>1. \A y : y.change \in {"SetPrimaryKey", "RenameColumn"} /\ y.table = u => (y \in X <=> y \in X \ {h})
    BY DEF ColumnKinds, FlagKinds
  <2> QED BY <1>1, <2>1, KeyFrame
<1> QED BY <1>4, <1>5, TableStep DEF key, F

LEMMA AddColumnArrives ==
  ASSUME NEW X, NEW s, NEW t, NEW u, NEW c, NEW col, Good(X, s, t), First(AddColumn(u, c, col), X, t)
  PROVE  Arrives(X, s, AddColumn(u, c, col), t)
<1> DEFINE h == AddColumn(u, c, col)
           a == s.tables[u].columns
           columns == Put(a, c, col)
           d == [s.tables[u] EXCEPT !.columns = columns]
           n == WithTable(s, u, d)
<1>0. h \in X /\ h.change = "AddColumn" /\ h.table = u /\ h.name = c /\ h.column = col
  BY Fields DEF First
<1>1. u \in Common(s, t)
  BY <1>0, InCommon DEF Good, ColumnKinds
<1>2. /\ u \in Tables(s) /\ IsTable(s.tables[u]) /\ IsTable(t.tables[u])
      /\ ColumnsDue(X, u, a, t.tables[u].columns)
      /\ \A e \in DOMAIN a : a[e].type \in {0} \cup Enums(s)
      /\ \A e \in DOMAIN t.tables[u].columns : t.tables[u].columns[e].type \in {0} \cup Enums(t)
  BY <1>1, ShareTable
<1>3. /\ c \notin DOMAIN a /\ c \in DOMAIN t.tables[u].columns /\ col = t.tables[u].columns[c]
      /\ ColumnsDue(X \ {h}, u, columns, t.tables[u].columns)
  <2> HIDE DEF a
  <2> QED BY <1>0, <1>2, ColumnAdded
<1>4. Apply(s, h) = Accept(n)
  <2> HIDE DEF h
  <2> QED BY <1>0, <1>2, <1>3 DEF Apply, ApplyAddColumn, HasColumn, WithColumn
<1>5. IsMap(a) /\ (\A e \in DOMAIN a : ColumnRecord(a[e])) /\ ColumnRecord(col) /\ c \in Nat
  <2>1. IsMap(t.tables[u].columns)
    BY <1>2, TableParts
  <2> QED BY <1>2, <1>3, <2>1, TableParts DEF IsMap
<1>6. col.type \in {0} \cup Enums(s)
  <2>1. Phase(h) = 3
    BY <1>0, Phases DEF ColumnKinds
  <2>2. Enums(t) \subseteq Enums(s)
    <3> HIDE DEF h
    <3> QED BY <2>1, InTheMiddle DEF h
  <2> QED BY <1>2, <1>3, <2>2
<1>7. IsPut(columns, a, c, col)
  <2>1. columns = Put(a, c, col)
    OBVIOUS
  <2> HIDE DEF columns, a
  <2> QED BY <1>5, <2>1, MapPut
<1> HIDE DEF columns, a
<1>8. \A e \in DOMAIN columns : ColumnRecord(columns[e]) /\ columns[e].type \in {0} \cup Enums(s)
  BY <1>2, <1>5, <1>6, <1>7 DEF IsPut
<1>9. Good(X \ {h}, n, t)
  <2> HIDE DEF h
  <2> QED BY <1>0, <1>1, <1>3, <1>7, <1>8, ColumnsEdited DEF ColumnKinds, IsPut
<1> QED BY <1>4, <1>9 DEF Arrives, Accept

LEMMA ConstraintsKept ==
  ASSUME NEW d, NEW columns, NEW F, IsTable(d), F = d.foreign
  PROVE  [d EXCEPT !.columns = columns, !.foreign = F] = [d EXCEPT !.columns = columns]
<1> DEFINE e == [d EXCEPT !.columns = columns]
<1>1. [d EXCEPT !.columns = columns, !.foreign = F] = [e EXCEPT !.foreign = F]
  OBVIOUS
<1>2. e = [columns |-> columns, key |-> d.key, foreign |-> F]
  BY TableEdited
<1>3. [d EXCEPT !.columns = columns] = e
  OBVIOUS
<1> HIDE DEF e
<1>4. [e EXCEPT !.foreign = F] = e
  BY <1>2
<1> QED BY <1>1, <1>3, <1>4

LEMMA DropColumnArrives ==
  ASSUME NEW X, NEW s, NEW t, NEW u, NEW c, Good(X, s, t), First(DropColumn(u, c), X, t)
  PROVE  Arrives(X, s, DropColumn(u, c), t)
<1> DEFINE h == DropColumn(u, c)
           p == s.tables[u]
           a == p.columns
           columns == Without(a, c)
           d == [p EXCEPT !.columns = columns]
           n == WithTable(s, u, d)
           kept == {f \in DOMAIN p.foreign :
                      /\ p.foreign[f].column # c
                      /\ ~(p.foreign[f].table = u /\ p.foreign[f].target = c)}
<1>0. h \in X /\ h.change = "DropColumn" /\ h.table = u /\ h.name = c
  BY Fields DEF First
<1>1. u \in Common(s, t)
  BY <1>0, InCommon DEF Good, ColumnKinds
<1>2. /\ u \in Tables(s) /\ u \in Tables(t) /\ IsTable(p)
      /\ ColumnsDue(X, u, a, t.tables[u].columns)
      /\ \A e \in DOMAIN a : a[e].type \in {0} \cup Enums(s)
  BY <1>1, ShareTable
<1>3. /\ c \in DOMAIN a /\ c \notin DOMAIN t.tables[u].columns
      /\ ColumnsDue(X \ {h}, u, columns, t.tables[u].columns)
  <2> HIDE DEF a
  <2> QED BY <1>0, <1>2, ColumnDropped
<1>4. /\ \A v \in Tables(s) : \A f \in DOMAIN s.tables[v].foreign :
            /\ HasColumn(t, v, s.tables[v].foreign[f].column)
            /\ HasColumn(t, s.tables[v].foreign[f].table, s.tables[v].foreign[f].target)
  <2>1. Phase(h) = 3
    BY <1>0, Phases DEF ColumnKinds
  <2> HIDE DEF h
  <2> QED BY <2>1, InTheMiddle DEF h
<1>5. ~ColumnReferencedByOther(s, u, c)
  BY <1>3, <1>4, SMTT(40) DEF ColumnReferencedByOther, HasColumn
<1>6. kept = DOMAIN p.foreign
  BY <1>2, <1>3, <1>4 DEF HasColumn
<1>7. [p EXCEPT !.columns = columns, !.foreign = [f \in kept |-> p.foreign[f]]] = d
  <2> DEFINE F == [f \in kept |-> p.foreign[f]]
  <2>1. IsMap(p.foreign)
    BY <1>2, TableParts
  <2>2. F = p.foreign
    BY <1>6, <2>1 DEF IsMap
  <2>3. IsTable(p)
    BY <1>2
  <2> HIDE DEF F, p, columns
  <2>4. [p EXCEPT !.columns = columns, !.foreign = F] = [p EXCEPT !.columns = columns]
    BY <2>2, <2>3, ConstraintsKept
  <2> QED BY <2>4 DEF F
<1>8. Apply(s, h) = Accept(n)
  <2> DEFINE e == [p EXCEPT !.columns = columns, !.foreign = [f \in kept |-> p.foreign[f]]]
  <2>1. ApplyDropColumn(s, h) = Accept(WithTable(s, u, e))
    <3> HIDE DEF h
    <3> QED BY <1>0, <1>2, <1>3, <1>5 DEF ApplyDropColumn
  <2>2. Apply(s, h) = ApplyDropColumn(s, h)
    <3> HIDE DEF h
    <3> QED BY <1>0 DEF Apply
  <2>3. e = d
    BY <1>7
  <2> HIDE DEF e, d
  <2> QED BY <2>1, <2>2, <2>3
<1>9. IsMap(a) /\ (\A e \in DOMAIN a : ColumnRecord(a[e]))
  BY <1>2, TableParts
<1>10. IsCut(columns, a, c)
  <2>1. columns = Without(a, c)
    OBVIOUS
  <2> HIDE DEF columns, a
  <2> QED BY <1>9, <2>1, MapWithout
<1> HIDE DEF columns, a
<1>11. \A e \in DOMAIN columns : ColumnRecord(columns[e]) /\ columns[e].type \in {0} \cup Enums(s)
  BY <1>2, <1>9, <1>10 DEF IsCut
<1>12. Good(X \ {h}, n, t)
  <2> HIDE DEF h
  <2> QED BY <1>0, <1>1, <1>3, <1>10, <1>11, ColumnsEdited DEF ColumnKinds, IsCut
<1> QED BY <1>8, <1>12 DEF Arrives, Accept

\* A change of a property of a column.
LEMMA ColumnSetArrives ==
  ASSUME NEW X, NEW s, NEW t, NEW u, NEW c, NEW h, NEW col, Good(X, s, t), h \in X, First(h, X, t),
         u \in Common(s, t), c \in DOMAIN s.tables[u].columns \cap DOMAIN t.tables[u].columns,
         \/ /\ h = AlterColumnType(u, c, s.tables[u].columns[c].type, t.tables[u].columns[c].type)
            /\ col = [s.tables[u].columns[c] EXCEPT !.type = t.tables[u].columns[c].type]
         \/ /\ h = SetNullable(u, c, t.tables[u].columns[c].nullable)
            /\ col = [s.tables[u].columns[c] EXCEPT !.nullable = t.tables[u].columns[c].nullable]
         \/ /\ h = SetUnique(u, c, t.tables[u].columns[c].unique)
            /\ col = [s.tables[u].columns[c] EXCEPT !.unique = t.tables[u].columns[c].unique]
         \/ /\ h = SetAutoIncrement(u, c, t.tables[u].columns[c].auto)
            /\ col = [s.tables[u].columns[c] EXCEPT !.auto = t.tables[u].columns[c].auto],
         Apply(s, h) = Accept(WithColumn(s, u, c, col))
  PROVE  Arrives(X, s, h, t)
<1> DEFINE a == s.tables[u].columns
           b == t.tables[u].columns
           columns == Put(a, c, col)
           d == [s.tables[u] EXCEPT !.columns = columns]
           n == WithTable(s, u, d)
<1>0. h.change \in ColumnKinds \ {"RenameColumn"} /\ h.table = u
  BY Fields, SMTT(40) DEF ColumnKinds, FlagKinds
<1>2. /\ u \in Tables(s) /\ u \in Tables(t) /\ IsTable(s.tables[u]) /\ IsTable(t.tables[u])
      /\ ColumnsDue(X, u, a, b)
      /\ \A e \in DOMAIN a : a[e].type \in {0} \cup Enums(s)
      /\ \A e \in DOMAIN b : b[e].type \in {0} \cup Enums(t)
  BY ShareTable, ZenonT(60)
<1>3. IsMap(a) /\ (\A e \in DOMAIN a : ColumnRecord(a[e])) /\ (\A e \in DOMAIN b : ColumnRecord(b[e]))
      /\ c \in DOMAIN a /\ c \in DOMAIN b /\ c \in Nat
  BY <1>2, TableParts, ZenonT(60) DEF IsMap
<1>4. Enums(t) \subseteq Enums(s)
  <2>1. Phase(h) = 3
    BY <1>0, Phases, SMTT(40)
  <2> QED BY <2>1, InTheMiddle
<1>5. /\ \/ h = AlterColumnType(u, c, a[c].type, b[c].type) /\ col = [a[c] EXCEPT !.type = b[c].type]
         \/ h = SetNullable(u, c, b[c].nullable) /\ col = [a[c] EXCEPT !.nullable = b[c].nullable]
         \/ h = SetUnique(u, c, b[c].unique) /\ col = [a[c] EXCEPT !.unique = b[c].unique]
         \/ h = SetAutoIncrement(u, c, b[c].auto) /\ col = [a[c] EXCEPT !.auto = b[c].auto]
      /\ Apply(s, h) = Accept(n)
  BY ZenonT(60) DEF WithColumn
<1> HIDE DEF a, b
<1>6. ColumnsDue(X \ {h}, u, columns, b)
  BY <1>2, <1>3, <1>5, ColumnSet, SMTT(40) DEF ColumnRecord
<1>7. ColumnRecord(col) /\ col.type \in {a[c].type, b[c].type}
  <2> DEFINE p == a[c]
             q == b[c]
  <2>1. p = [type |-> p.type, nullable |-> p.nullable, unique |-> p.unique, auto |-> p.auto]
    BY <1>3, SMTT(40) DEF ColumnRecord
  <2>2. \/ col = [p EXCEPT !.type = q.type]
        \/ col = [p EXCEPT !.nullable = q.nullable]
        \/ col = [p EXCEPT !.unique = q.unique]
        \/ col = [p EXCEPT !.auto = q.auto]
    BY <1>5, SMTT(40)
  <2> HIDE DEF p, q
  <2>3. /\ \A v : [p EXCEPT !.type = v] = [type |-> v, nullable |-> p.nullable, unique |-> p.unique, auto |-> p.auto]
        /\ \A v : [p EXCEPT !.nullable = v] = [type |-> p.type, nullable |-> v, unique |-> p.unique, auto |-> p.auto]
        /\ \A v : [p EXCEPT !.unique = v] = [type |-> p.type, nullable |-> p.nullable, unique |-> v, auto |-> p.auto]
        /\ \A v : [p EXCEPT !.auto = v] = [type |-> p.type, nullable |-> p.nullable, unique |-> p.unique, auto |-> v]
    <3>1. \A v : [p EXCEPT !.type = v] = [type |-> v, nullable |-> p.nullable, unique |-> p.unique, auto |-> p.auto]
      BY <2>1, SMTT(40)
    <3>2. \A v : [p EXCEPT !.nullable = v] = [type |-> p.type, nullable |-> v, unique |-> p.unique, auto |-> p.auto]
      BY <2>1, SMTT(40)
    <3>3. \A v : [p EXCEPT !.unique = v] = [type |-> p.type, nullable |-> p.nullable, unique |-> v, auto |-> p.auto]
      BY <2>1, SMTT(40)
    <3>4. \A v : [p EXCEPT !.auto = v] = [type |-> p.type, nullable |-> p.nullable, unique |-> p.unique, auto |-> v]
      BY <2>1, SMTT(40)
    <3> QED BY <3>1, <3>2, <3>3, <3>4, SMTT(40)
  <2>4. col = [type |-> col.type, nullable |-> col.nullable, unique |-> col.unique, auto |-> col.auto]
        /\ col.type \in {p.type, q.type}
    BY <2>2, <2>3
  <2> QED BY <2>4 DEF ColumnRecord, p, q
<1>8. col.type \in {0} \cup Enums(s)
  BY <1>2, <1>3, <1>4, <1>7
<1>9. IsPut(columns, a, c, col)
  <2>1. columns = Put(a, c, col)
    BY SMTT(40)
  <2> HIDE DEF columns
  <2> QED BY <1>3, <2>1, MapPut
<1> HIDE DEF columns
<1>10. \A e \in DOMAIN columns : ColumnRecord(columns[e]) /\ columns[e].type \in {0} \cup Enums(s)
  BY <1>2, <1>3, <1>7, <1>8, <1>9, SMTT(40) DEF IsPut
<1>11. Good(X \ {h}, n, t)
  BY <1>0, <1>6, <1>9, <1>10, ColumnsEdited DEF IsPut, b
<1> QED BY <1>5, <1>11 DEF Arrives, Accept

LEMMA AlterationArrives ==
  ASSUME NEW X, NEW s, NEW t, NEW h, Good(X, s, t), First(h, X, t), IsChange(h),
         h.change \in {"AlterColumnType"} \cup FlagKinds
  PROVE  Arrives(X, s, h, t)
<1> DEFINE u == h.table
           c == h.name
           a == s.tables[u].columns
           b == t.tables[u].columns
<1>1. h \in X /\ u \in Common(s, t)
  BY InCommon DEF First, Good, ColumnKinds
<1>2. u \in Tables(s) /\ ColumnsDue(X, u, a, b)
  BY <1>1, ShareTable, SMTT(40)
<1>3. CASE h.change = "AlterColumnType"
  <2> DEFINE col == [a[c] EXCEPT !.type = b[c].type]
  <2>1. h = AlterColumnType(u, c, h.from, h.to)
    BY <1>3, Fields DEF IsChange
  <2>2. c \in DOMAIN a \cap DOMAIN b /\ h.from = a[c].type /\ h.to = b[c].type
    <3> HIDE DEF a, b, u, c
    <3> QED BY <1>1, <1>2, <2>1, SMTT(40) DEF ColumnsDue
  <2>3. Apply(s, h) = Accept(WithColumn(s, u, c, col))
    BY <1>2, <1>3, <2>2 DEF Apply, ApplyAlterColumnType, HasColumn
  <2>4. h = AlterColumnType(u, c, a[c].type, b[c].type)
    BY <2>1, <2>2, SMTT(40)
  <2> HIDE DEF u, c
  <2> QED BY <1>1, <2>2, <2>3, <2>4, ColumnSetArrives
<1>4. CASE h.change = "SetNullable"
  <2> DEFINE col == [a[c] EXCEPT !.nullable = b[c].nullable]
  <2>1. h = SetNullable(u, c, h.to)
    BY <1>4, Fields DEF IsChange
  <2>2. c \in DOMAIN a \cap DOMAIN b /\ h.to = b[c].nullable
    <3> HIDE DEF a, b, u, c
    <3> QED BY <1>1, <1>2, <2>1, SMTT(40) DEF ColumnsDue
  <2>3. Apply(s, h) = Accept(WithColumn(s, u, c, col))
    BY <1>2, <1>4, <2>2 DEF Apply, ApplySetFlag, HasColumn
  <2>4. h = SetNullable(u, c, b[c].nullable)
    BY <2>1, <2>2, SMTT(40)
  <2> HIDE DEF u, c
  <2> QED BY <1>1, <2>2, <2>3, <2>4, ColumnSetArrives
<1>5. CASE h.change = "SetUnique"
  <2> DEFINE col == [a[c] EXCEPT !.unique = b[c].unique]
  <2>1. h = SetUnique(u, c, h.to)
    BY <1>5, Fields DEF IsChange
  <2>2. c \in DOMAIN a \cap DOMAIN b /\ h.to = b[c].unique
    <3> HIDE DEF a, b, u, c
    <3> QED BY <1>1, <1>2, <2>1, SMTT(40) DEF ColumnsDue
  <2>3. Apply(s, h) = Accept(WithColumn(s, u, c, col))
    BY <1>2, <1>5, <2>2 DEF Apply, ApplySetFlag, HasColumn
  <2>4. h = SetUnique(u, c, b[c].unique)
    BY <2>1, <2>2, SMTT(40)
  <2> HIDE DEF u, c
  <2> QED BY <1>1, <2>2, <2>3, <2>4, ColumnSetArrives
<1>6. CASE h.change = "SetAutoIncrement"
  <2> DEFINE col == [a[c] EXCEPT !.auto = b[c].auto]
  <2>1. h = SetAutoIncrement(u, c, h.to)
    BY <1>6, Fields DEF IsChange
  <2>2. c \in DOMAIN a \cap DOMAIN b /\ h.to = b[c].auto
    <3> HIDE DEF a, b, u, c
    <3> QED BY <1>1, <1>2, <2>1, SMTT(40) DEF ColumnsDue
  <2>3. Apply(s, h) = Accept(WithColumn(s, u, c, col))
    BY <1>2, <1>6, <2>2 DEF Apply, ApplySetFlag, HasColumn
  <2>4. h = SetAutoIncrement(u, c, b[c].auto)
    BY <2>1, <2>2
  <2> HIDE DEF u, c
  <2> QED BY <1>1, <2>2, <2>3, <2>4, ColumnSetArrives
<1> QED BY <1>3, <1>4, <1>5, <1>6 DEF FlagKinds

\* A key with the column renamed expects what the key did.
LEMMA KeyRenamed ==
  ASSUME NEW X, NEW u, NEW a, NEW b, NEW c, NEW d, NEW k, NEW l, NEW m, ColumnsDue(X, u, a, b),
         RenameColumn(u, c, d) \in X, KeyDue(X, u, k, l),
         m = [i \in DOMAIN k |-> IF k[i] = c THEN d ELSE k[i]]
  PROVE  KeyDue(X \ {RenameColumn(u, c, d)}, u, m, l)
<1> DEFINE h == RenameColumn(u, c, d)
           Y == X \ {h}
<1>1. \A y : y \in Y <=> y \in X /\ y # h
  OBVIOUS
<1>2. \A e : RenameColumn(u, c, e) \in X <=> e = d
  BY DEF ColumnsDue
<1>3. \A e : RenameColumn(u, d, e) \notin X
  BY DEF ColumnsDue
<1> HIDE DEF Y
<1>4. \A e, f : RenameColumn(u, e, f) \in Y <=> RenameColumn(u, e, f) \in X /\ ~(e = c /\ f = d)
  BY <1>1, Fields DEF h
<1>5. \A p, q : SetPrimaryKey(u, p, q) \in Y <=> SetPrimaryKey(u, p, q) \in X
  BY <1>1, Fields DEF h
<1>6. \A e, f : e # c => (Follows(Y, u, e, f) <=> Follows(X, u, e, f)) 
  BY <1>4 DEF Follows
<1>7. \A f : Follows(X, u, c, f) <=> f = d
  BY <1>2 DEF Follows
<1>8. \A f : Follows(Y, u, d, f) <=> f = d
  BY <1>3, <1>4 DEF Follows
<1>9. DOMAIN m = DOMAIN k /\ \A i \in DOMAIN k : m[i] = IF k[i] = c THEN d ELSE k[i]
  OBVIOUS
<1>10. \A i \in DOMAIN k : \A f : Follows(Y, u, m[i], f) <=> Follows(X, u, k[i], f)
  BY <1>6, <1>7, <1>8, <1>9
<1>11. \A p : IsKeyAfter(Y, u, m, p) <=> IsKeyAfter(X, u, k, p)
  BY <1>9, <1>10 DEF IsKeyAfter
<1> QED BY <1>5, <1>11 DEF KeyDue, Y

\* A constraint that does not involve the column does not change.
LEMMA NothingFollows ==
  ASSUME NEW F, NEW v, NEW x, IsMap(F), \A f \in DOMAIN F : ForeignRecord(F[f]),
         \A f \in DOMAIN F : ~(v = x.table /\ F[f].column = x.name),
         \A f \in DOMAIN F : ~(F[f].table = x.table /\ F[f].target = x.name)
  PROVE  Followed(F, v, x) = F
<1> DEFINE G == Followed(F, v, x)
<1>1. ASSUME NEW f \in DOMAIN F
      PROVE  [F[f] EXCEPT !.column = IF v = x.table /\ F[f].column = x.name THEN x.to ELSE F[f].column,
                          !.target = IF F[f].table = x.table /\ F[f].target = x.name
                                     THEN x.to ELSE F[f].target] = F[f]
  <2> DEFINE g == F[f]
             p == IF v = x.table /\ g.column = x.name THEN x.to ELSE g.column
             q == IF g.table = x.table /\ g.target = x.name THEN x.to ELSE g.target
  <2>1. g = [column |-> g.column, table |-> g.table, target |-> g.target, action |-> g.action]
        /\ p = g.column /\ q = g.target
    BY DEF ForeignRecord
  <2> HIDE DEF g, p, q
  <2>2. [g EXCEPT !.column = p] = g
    BY <2>1
  <2>3. [g EXCEPT !.target = q] = g
    BY <2>1
  <2>4. [g EXCEPT !.column = p, !.target = q] = [[g EXCEPT !.column = p] EXCEPT !.target = q]
    OBVIOUS
  <2>5. [g EXCEPT !.column = p, !.target = q] = g
    BY <2>2, <2>3, <2>4
  <2> QED BY <2>5 DEF g, p, q
<1>2. G = [f \in DOMAIN F |-> F[f]]
  BY <1>1 DEF Followed
<1> QED BY <1>2 DEF IsMap

LEMMA RenameColumnArrives ==
  ASSUME NEW X, NEW s, NEW t, NEW u, NEW c, NEW e, Good(X, s, t), First(RenameColumn(u, c, e), X, t)
  PROVE  Arrives(X, s, RenameColumn(u, c, e), t)
<1> DEFINE h == RenameColumn(u, c, e)
           p == s.tables[u]
           a == p.columns
           k == p.key
           columns == Put(Without(a, c), e, a[c])
           key == [i \in DOMAIN k |-> IF k[i] = c THEN e ELSE k[i]]
           d == [p EXCEPT !.columns = columns, !.key = key]
           n == WithTable(s, u, d)
<1>0. h \in X /\ h.change = "RenameColumn" /\ h.table = u /\ h.name = c /\ h.to = e
  BY Fields DEF First
<1>1. u \in Common(s, t)
  BY <1>0, InCommon DEF Good, ColumnKinds
<1>2. /\ u \in Tables(s) /\ u \in Tables(t) /\ u \in Nat /\ IsTable(p) /\ IsTable(t.tables[u])
      /\ ColumnsDue(X, u, a, t.tables[u].columns) /\ KeyDue(X, u, k, t.tables[u].key)
      /\ \A f \in DOMAIN a : a[f].type \in {0} \cup Enums(s)
  BY <1>1, ShareTable
<1>3. /\ c \in DOMAIN a /\ e \notin DOMAIN a
      /\ c \notin DOMAIN t.tables[u].columns /\ e \in DOMAIN t.tables[u].columns
      /\ ColumnsDue(X \ {h}, u, columns, t.tables[u].columns)
  <2>1. columns = Put(Without(a, c), e, a[c])
    OBVIOUS
  <2> DEFINE b == t.tables[u].columns
  <2>2. ColumnsDue(X, u, a, b)
    BY <1>2
  <2> HIDE DEF a, b, columns
  <2>3. /\ c \in DOMAIN a /\ e \notin DOMAIN a /\ c \notin DOMAIN b /\ e \in DOMAIN b
        /\ ColumnsDue(X \ {h}, u, columns, b)
    <3>1. RenameColumn(u, c, e) \in X
      BY <1>0
    <3>2. /\ c \in DOMAIN a /\ e \notin DOMAIN a /\ c \notin DOMAIN b /\ e \in DOMAIN b
      BY <2>2, <3>1 DEF ColumnsDue
    <3> DEFINE v == a[c]
    <3>4. v = a[c] /\ columns = Put(Without(a, c), e, v)
      BY <2>1
    <3> HIDE DEF v
    <3>3. ColumnsDue(X \ {RenameColumn(u, c, e)}, u, columns, b)
      BY <2>2, <3>1, <3>4, ColumnRenamed
    <3> QED BY <3>2, <3>3
  <2> QED BY <2>3 DEF b
<1>4. KeyDue(X \ {h}, u, key, t.tables[u].key)
  <2>1. key = [i \in DOMAIN k |-> IF k[i] = c THEN e ELSE k[i]]
    OBVIOUS
  <2> HIDE DEF a, k, key
  <2> QED BY <1>0, <1>2, <2>1, KeyRenamed
<1>5. /\ IsMap(p.foreign) /\ IsMap(a) /\ (\A f \in DOMAIN a : ColumnRecord(a[f]))
      /\ \A f \in DOMAIN p.foreign : ForeignRecord(p.foreign[f])
  BY <1>2, TableParts
<1>6. IsMap(columns) /\ \A f \in DOMAIN columns : ColumnRecord(columns[f]) /\ columns[f].type \in {0} \cup Enums(s)
  <2> DEFINE m == Without(a, c)
             v == a[c]
  <2>1. ColumnRecord(v) /\ v.type \in {0} \cup Enums(s)
    BY <1>2, <1>3, <1>5
  <2>2. IsMap(t.tables[u].columns)
    BY <1>2, TableParts
  <2>3. e \in Nat
    BY <1>3, <2>2 DEF IsMap
  <2>4. columns = Put(m, e, v) /\ m = Without(a, c)
    OBVIOUS
  <2> HIDE DEF a, v, m, columns
  <2>5. IsCut(m, a, c)
    BY <1>5, <2>4, MapWithout
  <2>6. IsPut(columns, m, e, v)
    BY <2>3, <2>4, <2>5, MapPut DEF IsCut
  <2> QED BY <1>2, <1>5, <2>1, <2>5, <2>6 DEF IsPut, IsCut
<1> HIDE DEF columns
<1>7. IsTable(d) /\ d.columns = columns /\ d.key = key /\ d.foreign = p.foreign
  <2> DEFINE F == p.foreign
  <2>1. key = [i \in DOMAIN key |-> key[i]]
    OBVIOUS
  <2>9. IsTable(p)
    BY <1>2
  <2> HIDE DEF key, p
  <2>4. d = [[p EXCEPT !.columns = columns] EXCEPT !.key = key]
    OBVIOUS
  <2>5. [p EXCEPT !.columns = columns] = [columns |-> columns, key |-> p.key, foreign |-> F]
    BY <2>9, TableEdited
  <2> DEFINE y == [p EXCEPT !.columns = columns]
  <2>6. d = [y EXCEPT !.key = key] /\ y = [columns |-> columns, key |-> p.key, foreign |-> F]
    BY <2>4, <2>5
  <2>7. IsMap(F) /\ \A f \in DOMAIN F : ForeignRecord(F[f])
    BY <1>5
  <2> HIDE DEF F, y, d
  <2>2. d = [columns |-> columns, key |-> key, foreign |-> F]
    BY <2>6
  <2>3. IsTable(d) /\ d.columns = columns /\ d.key = key /\ d.foreign = F
    BY <1>6, <2>1, <2>2, <2>7, MadeOfParts
  <2> QED BY <2>3 DEF F
<1>8. ASSUME NEW v \in Tables(s) PROVE Followed(s.tables[v].foreign, v, h) = s.tables[v].foreign
  <2> DEFINE F == s.tables[v].foreign
  <2>1. \A f \in DOMAIN F : HasColumn(t, v, F[f].column) /\ HasColumn(t, F[f].table, F[f].target)
    <3>1. Phase(h) = 3
      BY <1>0, Phases DEF ColumnKinds
    <3> HIDE DEF h
    <3> QED BY <3>1, InTheMiddle DEF h
  <2>2. IsMap(F) /\ \A f \in DOMAIN F : ForeignRecord(F[f])
    BY TableParts DEF Good, IsSchema
  <2>3. ~HasColumn(t, u, c)
    BY <1>3 DEF HasColumn
  <2> HIDE DEF F, h
  <2>4. \A f \in DOMAIN F : ~(v = u /\ F[f].column = c) /\ ~(F[f].table = u /\ F[f].target = c)
    BY <2>1, <2>3
  <2>5. Followed(F, v, h) = F
    BY <1>0, <2>2, <2>4, NothingFollows
  <2> QED BY <2>5 DEF F
<1> DEFINE renamed == Put(s.tables, u, d)
           ts == [v \in DOMAIN renamed |-> [renamed[v] EXCEPT !.foreign = Followed(renamed[v].foreign, v, h)]]
<1>9. Apply(s, h) = Accept([s EXCEPT !.tables = ts])
  <2> HIDE DEF h
  <2>1. Apply(s, h) = ApplyRenameColumn(s, h)
    BY <1>0 DEF Apply
  <2>2. ~(h.table \notin Tables(s)) /\ ~(h.to \in DOMAIN s.tables[h.table].columns)
        /\ ~(h.name \notin DOMAIN s.tables[h.table].columns)
    BY <1>0, <1>2, <1>3
  <2>3. ApplyRenameColumn(s, h) = Accept([s EXCEPT !.tables = ts])
    BY <1>0, <2>2 DEF ApplyRenameColumn, columns
  <2> QED BY <2>1, <2>3
<1> HIDE DEF d, h
<1>10. /\ DOMAIN renamed = Tables(s) /\ renamed[u] = d /\ (\A v \in Tables(s) : v # u => renamed[v] = s.tables[v])
       /\ renamed = [v \in DOMAIN renamed |-> renamed[v]]
  BY <1>2 DEF Put, Tables
<1> HIDE DEF renamed
<1>11. ts = renamed
  <2>1. ASSUME NEW v \in DOMAIN renamed
        PROVE  [renamed[v] EXCEPT !.foreign = Followed(renamed[v].foreign, v, h)] = renamed[v]
    <3> DEFINE y == renamed[v]
               F == y.foreign
    <3>1. Followed(F, v, h) = F /\ IsTable(y)
      <4>1. CASE v = u
        <5>1. F = s.tables[v].foreign /\ y = d
          BY <1>7, <1>10, <4>1
        <5> QED BY <1>2, <1>7, <1>8, <4>1, <5>1
      <4>2. CASE v # u
        BY <1>8, <1>10, <4>2 DEF Good, IsSchema
      <4> QED BY <4>1, <4>2
    <3> DEFINE G == Followed(F, v, h)
    <3>3. G = y.foreign
      BY <3>1
    <3> HIDE DEF y, G
    <3>2. [y EXCEPT !.foreign = G] = y
      BY <3>1, <3>3 DEF IsTable
    <3> QED BY <3>2 DEF y, G
  <2> QED BY <1>10, <2>1
<1>12. Apply(s, h) = Accept(n)
  BY <1>9, <1>11 DEF WithTable, renamed
<1>13. Good(X \ {h}, n, t)
  <2>1. h.change \in ColumnKinds /\ \A f \in DOMAIN d.columns : d.columns[f].type \in {0} \cup Enums(s)
    BY <1>0, <1>6, <1>7 DEF ColumnKinds
  <2>2. ColumnsDue(X \ {h}, u, d.columns, t.tables[u].columns) /\ KeyDue(X \ {h}, u, d.key, t.tables[u].key)
    BY <1>3, <1>4, <1>7 DEF columns, h
  <2> QED BY <1>0, <1>1, <1>7, <2>1, <2>2, TableStep
<1> QED BY <1>12, <1>13 DEF Arrives, Accept, h

LEMMA SetPrimaryKeyArrives ==
  ASSUME NEW X, NEW s, NEW t, NEW u, NEW l, NEW m, Good(X, s, t), First(SetPrimaryKey(u, l, m), X, t)
  PROVE  Arrives(X, s, SetPrimaryKey(u, l, m), t)
<1> DEFINE h == SetPrimaryKey(u, l, m)
           p == s.tables[u]
           a == p.columns
           b == t.tables[u].columns
           k == p.key
           d == [p EXCEPT !.key = m]
           n == WithTable(s, u, d)
<1>0. h \in X /\ h.change = "SetPrimaryKey" /\ h.table = u /\ h.from = l /\ h.to = m
  BY Fields DEF First
<1>1. u \in Common(s, t)
  BY <1>0, InCommon DEF Good
<1>2. /\ u \in Tables(s) /\ u \in Tables(t) /\ IsTable(p) /\ IsTable(t.tables[u])
      /\ ColumnsDue(X, u, a, b) /\ KeyDue(X, u, k, t.tables[u].key)
      /\ \A f \in DOMAIN a : a[f].type \in {0} \cup Enums(s)
  BY <1>1, ShareTable
<1>3. \A x \in X : x.table = u => x.change \notin {"AddColumn", "RenameColumn"}
  <2> SUFFICES ASSUME NEW x \in X, x.table = u, x.change \in {"AddColumn", "RenameColumn"} PROVE FALSE
    OBVIOUS
  <2>1. x # h
    BY <1>0
  <2>2. Before(h, x, t)
    BY <2>1 DEF First
  <2> QED BY <1>0, <2>2 DEF Before
<1>4. /\ \A c, e : AddColumn(u, c, e) \notin X /\ RenameColumn(u, c, e) \notin X
  BY <1>3, Fields
<1>5. k = [i \in DOMAIN k |-> k[i]] /\ t.tables[u].key = [i \in DOMAIN t.tables[u].key |-> t.tables[u].key[i]]
      /\ IsMap(a) /\ IsMap(p.foreign) /\ (\A c \in DOMAIN a : ColumnRecord(a[c]))
      /\ \A f \in DOMAIN p.foreign : ForeignRecord(p.foreign[f])
  BY <1>2, TableParts
<1>6. \A Y, w, q : (\A c, e : RenameColumn(u, c, e) \notin Y) /\ IsKeyAfter(Y, u, w, q) =>
         q = [i \in DOMAIN w |-> w[i]]
  BY DEF IsKeyAfter, Follows
<1>7. IsKeyAfter(X, u, k, l) /\ m = t.tables[u].key
  <2> HIDE DEF k
  <2> QED BY <1>0, <1>2 DEF KeyDue
<1>8. l = k
  BY <1>4, <1>5, <1>6, <1>7
<1>9. ElementsOf(m) \subseteq DOMAIN a
  <2>1. ElementsOf(m) \subseteq DOMAIN b
    BY <1>2, <1>7 DEF Good, Valid, KeysAreColumns
  <2>2. ASSUME NEW c \in DOMAIN b, c \notin DOMAIN a PROVE FALSE
    <3>1. AddColumn(u, c, b[c]) \in X
      <4> HIDE DEF a, b
      <4> QED BY <1>2, <1>4, <2>2 DEF ColumnsDue
    <3> QED BY <1>4, <3>1
  <2> QED BY <2>1, <2>2
<1>10. Apply(s, h) = Accept(n)
  <2> HIDE DEF h
  <2> QED BY <1>0, <1>2, <1>8, <1>9 DEF Apply, ApplySetPrimaryKey
<1>11. IsTable(d) /\ d.columns = a /\ d.key = m /\ d.foreign = p.foreign
  <2> DEFINE F == p.foreign
  <2>1. d = [columns |-> a, key |-> m, foreign |-> F]
    <3>1. IsTable(p)
      BY <1>2
    <3> HIDE DEF p
    <3> QED BY <3>1, TableEdited
  <2>2. m = [i \in DOMAIN m |-> m[i]]
    BY <1>5, <1>7
  <2>4. IsMap(F) /\ \A f \in DOMAIN F : ForeignRecord(F[f])
    BY <1>5
  <2> HIDE DEF F, a, d
  <2>3. IsTable(d) /\ d.columns = a /\ d.key = m /\ d.foreign = F
    BY <1>5, <2>1, <2>2, <2>4, MadeOfParts
  <2> QED BY <2>3 DEF F
<1>12. ColumnsDue(X \ {h}, u, a, b)
  <2>1. \A y : y.change \in ColumnKinds /\ y.table = u => (y \in X <=> y \in X \ {h})
    BY <1>0 DEF ColumnKinds, FlagKinds
  <2> HIDE DEF a, b, h
  <2> QED BY <1>2, <2>1, ColumnFrame
<1>13. KeyDue(X \ {h}, u, m, m)
  <2> DEFINE Y == X \ {h}
  <2>1. \A y : y \in Y <=> y \in X /\ y # h
    OBVIOUS
  <2> HIDE DEF Y
  <2>2. \A c, e : RenameColumn(u, c, e) \notin Y
    BY <1>4, <2>1
  <2>3. \A q : IsKeyAfter(Y, u, m, q) => q = m
    BY <1>5, <1>6, <1>7, <2>2
  <2>4. ASSUME NEW v, NEW q, SetPrimaryKey(u, v, q) \in Y PROVE FALSE
    <3>1. SetPrimaryKey(u, v, q) \in X
      BY <2>1, <2>4
    <3>2. IsKeyAfter(X, u, k, v) /\ q = m
      <4> HIDE DEF k
      <4> QED BY <1>2, <1>7, <3>1 DEF KeyDue
    <3>3. v = l
      BY <1>4, <1>5, <1>6, <1>8, <3>2
    <3> QED BY <2>1, <2>4, <3>2, <3>3
  <2> QED BY <2>3, <2>4 DEF KeyDue, Y
<1>14. Good(X \ {h}, n, t)
  <2> HIDE DEF h, d
  <2> QED BY <1>0, <1>1, <1>2, <1>7, <1>11, <1>12, <1>13, TableStep
<1> QED BY <1>10, <1>14 DEF Arrives, Accept

-----------------------------------------------------------------------------
(* The changes of tables.                                                  *)

LEMMA EmptyMap == IsMap(<<>>) /\ DOMAIN <<>> = {} /\ \A m : IsMap(m) /\ DOMAIN m = {} => m = <<>>
<1>1. DOMAIN <<>> = {} /\ <<>> = [x \in {} |-> <<>>[x]]
  OBVIOUS
<1>2. IsFiniteSet({})
  BY FS_EmptySet
<1>3. ASSUME NEW m, IsMap(m), DOMAIN m = {} PROVE m = <<>>
  <2>1. m = [x \in {} |-> m[x]]
    BY <1>3 DEF IsMap
  <2> QED BY <2>1
<1> QED BY <1>1, <1>2, <1>3 DEF IsMap

\* Nothing is due where the tables agree.
LEMMA NothingDue ==
  ASSUME NEW X, NEW Y, NEW u, NEW b, NEW k, ColumnsDue(X, u, <<>>, <<>>), KeyDue(X, u, <<>>, <<>>),
         Y \subseteq X, k = [i \in DOMAIN k |-> k[i]]
  PROVE  ColumnsDue(Y, u, b, b) /\ KeyDue(Y, u, k, k)
<1>1. DOMAIN <<>> = {}
  OBVIOUS
<1>2. /\ \A c, d : AddColumn(u, c, d) \notin X /\ DropColumn(u, c) \notin X /\ RenameColumn(u, c, d) \notin X
                   /\ SetNullable(u, c, d) \notin X /\ SetUnique(u, c, d) \notin X
                   /\ SetAutoIncrement(u, c, d) \notin X
      /\ \A c, p, q : AlterColumnType(u, c, p, q) \notin X
  BY <1>1 DEF ColumnsDue
<1>3. \A p, q : SetPrimaryKey(u, p, q) \notin X
  <2>1. ASSUME NEW p, IsKeyAfter(X, u, <<>>, p) PROVE p = <<>>
    <3>1. p = [i \in {} |-> p[i]]
      BY <1>1, <2>1 DEF IsKeyAfter
    <3> QED BY <3>1
  <2> QED BY <2>1 DEF KeyDue
<1>4. ColumnsDue(Y, u, b, b)
  BY <1>2 DEF ColumnsDue
<1>5. \A p : IsKeyAfter(Y, u, k, p) => p = k
  BY <1>2 DEF IsKeyAfter, Follows
<1> QED BY <1>3, <1>4, <1>5 DEF KeyDue

\* Where a column or key has no change to make, it makes none.
LEMMA ChangesOnlyCommon ==
  ASSUME NEW X, NEW s, NEW t, NEW u, Account(X, s, t), u \notin Common(s, t)
  PROVE  ColumnsDue(X, u, <<>>, <<>>) /\ KeyDue(X, u, <<>>, <<>>)
<1>1. /\ ColumnsOf(s, t, u) = <<>> /\ ColumnsOf(t, s, u) = <<>>
      /\ KeyOf(s, t, u) = <<>> /\ KeyOf(t, s, u) = <<>>
  BY DEF ColumnsOf, KeyOf, Common
<1>2. ColumnsDue(X, u, ColumnsOf(s, t, u), ColumnsOf(t, s, u)) /\ KeyDue(X, u, KeyOf(s, t, u), KeyOf(t, s, u))
  BY DEF Account, ColumnAccount, KeyAccount
<1> QED BY <1>1, <1>2

\* A change of the tables a schema has.
LEMMA TablesStep ==
  ASSUME NEW X, NEW s, NEW t, NEW h, NEW ts, NEW n, Good(X, s, t), h \in X, h.change \in TableKinds,
         n = [s EXCEPT !.tables = ts], IsMap(ts), \A u \in DOMAIN ts : IsTable(ts[u]),
         TableAccount(X \ {h}, n, t),
         \A u : ForeignOf(n, u) = ForeignOf(s, u),
         \A u \in Common(s, t) :
            u \in DOMAIN ts /\ ts[u].columns = s.tables[u].columns /\ ts[u].key = s.tables[u].key,
         \A u \in (DOMAIN ts \cap Tables(t)) \ Tables(s) :
            ts[u].columns = t.tables[u].columns /\ ts[u].key = t.tables[u].key,
         \A u \in DOMAIN ts : \A c \in DOMAIN ts[u].columns : ts[u].columns[c].type \in {0} \cup Enums(s)
  PROVE  Good(X \ {h}, n, t)
<1> DEFINE Y == X \ {h}
<1>1. n.tables = ts /\ n.enums = s.enums /\ n = [tables |-> n.tables, enums |-> n.enums]
      /\ Tables(n) = DOMAIN ts /\ Enums(n) = Enums(s)
  <2>1. n = [tables |-> ts, enums |-> s.enums]
    BY DEF Good, IsSchema
  <2> QED BY <2>1 DEF Tables, Enums
<1>2. \A y : y \in Y <=> y \in X /\ y # h
  OBVIOUS
<1>3. Y \subseteq X /\ TableAccount(Y, n, t)
  OBVIOUS
<1> HIDE DEF Y
<1>4. IsSchema(n)
  BY <1>1 DEF IsSchema, Good
<1>5. EnumAccount(Y, n, t)
  BY <1>1, <1>2, EnumFrame DEF Good, Account, EnumChangeKinds, TableKinds
<1>6. ForeignAccount(Y, n, t)
  BY <1>2, ForeignFrame DEF Good, Account, ForeignKinds, TableKinds
<1>7. ASSUME NEW u
      PROVE  ColumnsDue(Y, u, ColumnsOf(n, t, u), ColumnsOf(t, n, u)) /\ KeyDue(Y, u, KeyOf(n, t, u), KeyOf(t, n, u))
  <2>1. CASE u \in Common(s, t)
    <3>1. /\ ColumnsOf(n, t, u) = ColumnsOf(s, t, u) /\ ColumnsOf(t, n, u) = ColumnsOf(t, s, u)
          /\ KeyOf(n, t, u) = KeyOf(s, t, u) /\ KeyOf(t, n, u) = KeyOf(t, s, u)
      BY <1>1, <2>1 DEF ColumnsOf, KeyOf, Common
    <3>2. ColumnsDue(X, u, ColumnsOf(s, t, u), ColumnsOf(t, s, u)) /\ KeyDue(X, u, KeyOf(s, t, u), KeyOf(t, s, u))
      BY DEF Good, Account, ColumnAccount, KeyAccount
    <3>3. \A y : y.change \in ColumnKinds \cup {"SetPrimaryKey"} => (y \in X <=> y \in Y)
      BY <1>2 DEF ColumnKinds, FlagKinds, TableKinds
    <3>4. ColumnsDue(Y, u, ColumnsOf(s, t, u), ColumnsOf(t, s, u))
      BY <3>2, <3>3, ColumnFrame
    <3>5. KeyDue(Y, u, KeyOf(s, t, u), KeyOf(t, s, u))
      BY <3>2, <3>3, KeyFrame DEF ColumnKinds
    <3> QED BY <3>1, <3>4, <3>5
  <2>2. CASE u \notin Common(s, t)
    <3>1. ColumnsDue(X, u, <<>>, <<>>) /\ KeyDue(X, u, <<>>, <<>>)
      BY <2>2, ChangesOnlyCommon DEF Good
    <3>2. CASE u \in Common(n, t)
      <4> DEFINE b == t.tables[u].columns
                 k == t.tables[u].key
      <4>1. ColumnsOf(n, t, u) = b /\ ColumnsOf(t, n, u) = b /\ KeyOf(n, t, u) = k /\ KeyOf(t, n, u) = k
        BY <1>1, <2>2, <3>2 DEF ColumnsOf, KeyOf, Common
      <4>2. k = [i \in DOMAIN k |-> k[i]]
        BY <3>2, TableParts DEF Common, Good, Valid, IsSchema
      <4> HIDE DEF b, k
      <4> QED BY <1>3, <3>1, <4>1, <4>2, NothingDue
    <3>3. CASE u \notin Common(n, t)
      <4>1. /\ ColumnsOf(n, t, u) = <<>> /\ ColumnsOf(t, n, u) = <<>>
            /\ KeyOf(n, t, u) = <<>> /\ KeyOf(t, n, u) = <<>>
        BY <3>3 DEF ColumnsOf, KeyOf, Common
      <4>2. <<>> = [i \in DOMAIN <<>> |-> <<>>[i]]
        OBVIOUS
      <4> DEFINE k == <<>>
      <4>3. k = [i \in DOMAIN k |-> k[i]] /\ ColumnsDue(X, u, k, k) /\ KeyDue(X, u, k, k)
        BY <3>1, <4>2
      <4>4. ColumnsDue(Y, u, <<>>, <<>>) /\ KeyDue(Y, u, <<>>, <<>>)
        BY <1>3, <3>1, <4>2, NothingDue
      <4> QED BY <4>1, <4>4
    <3> QED BY <3>2, <3>3
  <2> QED BY <2>1, <2>2
<1>8. TypesAreKnown(n) /\ 0 \notin Enums(n)
  BY <1>1 DEF TypesAreKnown, Good
<1>9. \A x \in Y : IsChange(x)
  BY <1>2 DEF Good, Account
<1> QED BY <1>3, <1>4, <1>5, <1>6, <1>7, <1>8, <1>9 DEF Good, Account, ColumnAccount, KeyAccount, Y

\* A table that the target has not, or that it has not yet, has no constraints.
LEMMA NoConstraintsLeft ==
  ASSUME NEW X, NEW s, NEW t, NEW h, Good(X, s, t), First(h, X, t), Phase(h) = 3
  PROVE  /\ \A u \in Tables(s) \ Tables(t) : s.tables[u].foreign = <<>>
         /\ \A u : u \notin Tables(s) \cap Tables(t) => ForeignOf(s, u) = <<>>
         /\ \A u \in Tables(s) : \A f \in DOMAIN s.tables[u].foreign : s.tables[u].foreign[f].table \in Tables(t)
<1>1. ASSUME NEW u \in Tables(s) \ Tables(t) PROVE s.tables[u].foreign = <<>>
  <2>1. DOMAIN s.tables[u].foreign = {}
    BY InTheMiddle
  <2>2. IsMap(s.tables[u].foreign)
    BY TableParts DEF Good, IsSchema
  <2> QED BY <2>1, <2>2, EmptyMap
<1>2. \A u \in Tables(s) : \A f \in DOMAIN s.tables[u].foreign : s.tables[u].foreign[f].table \in Tables(t)
  BY InTheMiddle DEF HasColumn
<1> QED BY <1>1, <1>2 DEF ForeignOf

LEMMA CreateTableArrives ==
  ASSUME NEW X, NEW s, NEW t, NEW u, NEW d, Good(X, s, t), First(CreateTable(u, d), X, t)
  PROVE  Arrives(X, s, CreateTable(u, d), t)
<1> DEFINE h == CreateTable(u, d)
           ts == Put(s.tables, u, d)
           n == [s EXCEPT !.tables = ts]
<1>0. h \in X /\ h.change = "CreateTable" /\ h.table = u /\ h.def = d /\ Phase(h) = 3
  <2>1. h \in X /\ h.change = "CreateTable" /\ h.table = u /\ h.def = d
    BY Fields DEF First
  <2> HIDE DEF h
  <2> QED BY <2>1, Phases DEF TableKinds
<1>1. u \in Tables(t) /\ u \notin Tables(s) /\ d = Bare(t.tables[u]) /\ \A v : RenameTable(v, u) \notin X
  BY <1>0 DEF Good, Account, TableAccount
<1>2. u \in Nat /\ IsTable(t.tables[u]) /\ IsMap(s.tables)
  BY <1>1 DEF Good, Valid, IsSchema, IsMap, Tables
<1>3. IsTable(d) /\ d.columns = t.tables[u].columns /\ d.key = t.tables[u].key /\ d.foreign = <<>>
  <2> DEFINE p == t.tables[u]
             F == <<>>
  <2>1. d = [p EXCEPT !.foreign = F] /\ IsTable(p)
    BY <1>1, <1>2 DEF Bare
  <2>3. F = <<>>
    OBVIOUS
  <2> HIDE DEF p, F
  <2>4. IsMap(F) /\ \A f \in DOMAIN F : ForeignRecord(F[f])
    BY <2>3, EmptyMap
  <2>2. IsTable(d) /\ d.columns = p.columns /\ d.key = p.key /\ d.foreign = F
    BY <2>1, <2>4, ForeignSet
  <2> QED BY <2>2, <2>3 DEF p
<1>4. /\ Enums(t) \subseteq Enums(s)
      /\ \A v : v \notin Tables(s) \cap Tables(t) => ForeignOf(s, v) = <<>>
  <2> HIDE DEF h
  <2> QED BY <1>0, InTheMiddle, NoConstraintsLeft DEF h
<1>5. Apply(s, h) = Accept(n)
  <2> HIDE DEF h
  <2> QED BY <1>0, <1>1 DEF Apply, ApplyCreateTable, WithTable
<1>6. IsPut(ts, s.tables, u, d)
  <2>1. ts = Put(s.tables, u, d)
    OBVIOUS
  <2> HIDE DEF ts
  <2> QED BY <1>2, <2>1, MapPut
<1> HIDE DEF ts
<1>7. /\ n.tables = ts /\ Tables(n) = Tables(s) \cup {u} /\ IsMap(ts) /\ DOMAIN ts = Tables(s) \cup {u}
      /\ ts[u] = d /\ \A v \in Tables(s) : ts[v] = s.tables[v]
  <2>1. n = [tables |-> ts, enums |-> s.enums]
    BY DEF Good, IsSchema
  <2> QED BY <1>1, <1>6, <2>1 DEF IsPut, Tables
<1> HIDE DEF n
<1>8. \A v : ForeignOf(n, v) = ForeignOf(s, v)
  BY <1>1, <1>3, <1>4, <1>7 DEF ForeignOf
<1>9. TableAccount(X \ {h}, n, t)
  <2> DEFINE Y == X \ {h}
  <2>1. \A y : y \in Y <=> y \in X /\ y # h
    OBVIOUS
  <2> HIDE DEF Y
  <2>2. \A v, w : (DropTable(v) \in Y <=> DropTable(v) \in X) /\ (RenameTable(v, w) \in Y <=> RenameTable(v, w) \in X)
    BY <1>0, <2>1, Fields
  <2>3. \A v, w : CreateTable(v, w) \in Y <=> CreateTable(v, w) \in X /\ ~(v = u /\ w = d)
    BY <2>1, Fields DEF h
  <2>4. \A v : v \in Tables(n) \ Tables(t) <=> v \in Tables(s) \ Tables(t)
    BY <1>1, <1>7
  <2>5. \A v : v \in Tables(t) \ Tables(n) <=> v \in Tables(t) \ Tables(s) /\ v # u
    BY <1>7
  <2>6. \A v \in Tables(s) : n.tables[v] = s.tables[v]
    BY <1>7
  <2>7. \A v, w : CreateTable(v, w) \in Y <=> v \in Tables(t) \ Tables(n) /\ w = Bare(t.tables[v])
                                              /\ \A x : RenameTable(x, v) \notin Y
    BY <1>1, <2>2, <2>3, <2>5 DEF Good, Account, TableAccount
  <2>8. \A v, w : RenameTable(v, w) \in Y =>
          /\ v \in Tables(n) \ Tables(t) /\ w \in Tables(t) \ Tables(n)
          /\ n.tables[v].columns = t.tables[w].columns /\ n.tables[v].key = t.tables[w].key
    BY <1>1, <2>2, <2>4, <2>5, <2>6 DEF Good, Account, TableAccount
  <2>9. \A v : DropTable(v) \in Y <=> v \in Tables(n) \ Tables(t) /\ \A w : RenameTable(v, w) \notin Y
    BY <2>2, <2>4 DEF Good, Account, TableAccount
  <2> QED BY <2>2, <2>7, <2>8, <2>9 DEF Good, Account, TableAccount, Y
<1>10. \A v \in DOMAIN ts : IsTable(ts[v]) /\ \A c \in DOMAIN ts[v].columns : ts[v].columns[c].type \in {0} \cup Enums(s)
  BY <1>1, <1>3, <1>4, <1>7 DEF Good, IsSchema, Valid, TypesAreKnown
<1>11. Good(X \ {h}, n, t)
  <2>1. n = [s EXCEPT !.tables = ts]
    BY DEF n
  <2>2. h.change \in TableKinds
    BY <1>0 DEF TableKinds
  <2>3. \A v \in Common(s, t) : v \in DOMAIN ts /\ ts[v].columns = s.tables[v].columns /\ ts[v].key = s.tables[v].key
    BY <1>7 DEF Common
  <2>4. \A v \in (DOMAIN ts \cap Tables(t)) \ Tables(s) : ts[v].columns = t.tables[v].columns /\ ts[v].key = t.tables[v].key
    BY <1>3, <1>7
  <2> HIDE DEF h
  <2> QED BY <1>0, <1>7, <1>8, <1>9, <1>10, <2>1, <2>2, <2>3, <2>4, TablesStep
<1> QED BY <1>5, <1>11 DEF Arrives, Accept

LEMMA DropTableArrives ==
  ASSUME NEW X, NEW s, NEW t, NEW u, Good(X, s, t), First(DropTable(u), X, t)
  PROVE  Arrives(X, s, DropTable(u), t)
<1> DEFINE h == DropTable(u)
           ts == Without(s.tables, u)
           n == [s EXCEPT !.tables = ts]
<1>0. h \in X /\ h.change = "DropTable" /\ h.table = u /\ Phase(h) = 3
  <2>1. h \in X /\ h.change = "DropTable" /\ h.table = u
    BY Fields DEF First
  <2> HIDE DEF h
  <2> QED BY <2>1, Phases DEF TableKinds
<1>1. u \in Tables(s) /\ u \notin Tables(t) /\ \A v : RenameTable(u, v) \notin X
  BY <1>0 DEF Good, Account, TableAccount
<1>2. IsMap(s.tables)
  BY DEF Good, IsSchema
<1>4. /\ \A v : v \notin Tables(s) \cap Tables(t) => ForeignOf(s, v) = <<>>
      /\ \A v \in Tables(s) : \A f \in DOMAIN s.tables[v].foreign : s.tables[v].foreign[f].table \in Tables(t)
  <2> HIDE DEF h
  <2> QED BY <1>0, NoConstraintsLeft DEF h
<1>5. Apply(s, h) = Accept(n)
  <2>1. ~ReferencedByOther(s, u)
    BY <1>1, <1>4 DEF ReferencedByOther
  <2> HIDE DEF h
  <2> QED BY <1>0, <1>1, <2>1 DEF Apply, ApplyDropTable
<1>6. IsCut(ts, s.tables, u)
  <2>1. ts = Without(s.tables, u)
    OBVIOUS
  <2> HIDE DEF ts
  <2> QED BY <1>2, <2>1, MapWithout
<1> HIDE DEF ts
<1>7. /\ n.tables = ts /\ Tables(n) = Tables(s) \ {u} /\ IsMap(ts) /\ DOMAIN ts = Tables(s) \ {u}
      /\ \A v \in Tables(s) \ {u} : ts[v] = s.tables[v]
  <2>1. n = [tables |-> ts, enums |-> s.enums]
    BY DEF Good, IsSchema
  <2> QED BY <1>6, <2>1 DEF IsCut, Tables
<1> HIDE DEF n
<1>8. \A v : ForeignOf(n, v) = ForeignOf(s, v)
  BY <1>1, <1>4, <1>7 DEF ForeignOf
<1>9. TableAccount(X \ {h}, n, t)
  <2> DEFINE Y == X \ {h}
  <2>1. \A y : y \in Y <=> y \in X /\ y # h
    OBVIOUS
  <2> HIDE DEF Y
  <2>2. \A v, w : (CreateTable(v, w) \in Y <=> CreateTable(v, w) \in X)
                  /\ (RenameTable(v, w) \in Y <=> RenameTable(v, w) \in X)
    BY <1>0, <2>1, Fields
  <2>3. \A v : DropTable(v) \in Y <=> DropTable(v) \in X /\ v # u
    BY <2>1, Fields DEF h
  <2>4. \A v : v \in Tables(n) \ Tables(t) <=> v \in Tables(s) \ Tables(t) /\ v # u
    BY <1>7
  <2>5. \A v : v \in Tables(t) \ Tables(n) <=> v \in Tables(t) \ Tables(s)
    BY <1>1, <1>7
  <2>6. \A v \in Tables(s) \ {u} : n.tables[v] = s.tables[v]
    BY <1>7
  <2>7. \A v, w : CreateTable(v, w) \in Y <=> v \in Tables(t) \ Tables(n) /\ w = Bare(t.tables[v])
                                              /\ \A x : RenameTable(x, v) \notin Y
    BY <2>2, <2>5 DEF Good, Account, TableAccount
  <2>8. \A v, w : RenameTable(v, w) \in Y =>
          /\ v \in Tables(n) \ Tables(t) /\ w \in Tables(t) \ Tables(n)
          /\ n.tables[v].columns = t.tables[w].columns /\ n.tables[v].key = t.tables[w].key
    BY <1>1, <2>2, <2>4, <2>5, <2>6 DEF Good, Account, TableAccount
  <2>9. \A v : DropTable(v) \in Y <=> v \in Tables(n) \ Tables(t) /\ \A w : RenameTable(v, w) \notin Y
    BY <1>1, <2>2, <2>3, <2>4 DEF Good, Account, TableAccount
  <2> QED BY <2>2, <2>7, <2>8, <2>9 DEF Good, Account, TableAccount, Y
<1>10. \A v \in DOMAIN ts : IsTable(ts[v]) /\ \A c \in DOMAIN ts[v].columns : ts[v].columns[c].type \in {0} \cup Enums(s)
  BY <1>7 DEF Good, IsSchema, TypesAreKnown
<1>11. Good(X \ {h}, n, t)
  <2>1. n = [s EXCEPT !.tables = ts]
    BY DEF n
  <2>2. h.change \in TableKinds
    BY <1>0 DEF TableKinds
  <2>3. \A v \in Common(s, t) : v \in DOMAIN ts /\ ts[v].columns = s.tables[v].columns /\ ts[v].key = s.tables[v].key
    BY <1>1, <1>7 DEF Common
  <2>4. (DOMAIN ts \cap Tables(t)) \ Tables(s) = {}
    BY <1>7
  <2> HIDE DEF h
  <2> QED BY <1>0, <1>7, <1>8, <1>9, <1>10, <2>1, <2>2, <2>3, <2>4, TablesStep
<1> QED BY <1>5, <1>11 DEF Arrives, Accept

\* References that do not name the table do not change.
LEMMA NothingRetargets ==
  ASSUME NEW F, NEW from, NEW to, IsMap(F), \A f \in DOMAIN F : F[f].table # from
  PROVE  Retargeted(F, from, to) = F
BY DEF Retargeted, IsMap

LEMMA RenameTableArrives ==
  ASSUME NEW X, NEW s, NEW t, NEW u, NEW w, Good(X, s, t), First(RenameTable(u, w), X, t)
  PROVE  Arrives(X, s, RenameTable(u, w), t)
<1> DEFINE h == RenameTable(u, w)
           d == s.tables[u]
           rest == Without(s.tables, u)
           moved == Put(rest, w, d)
           ts == [v \in DOMAIN moved |-> [moved[v] EXCEPT !.foreign = Retargeted(moved[v].foreign, u, w)]]
           n == [s EXCEPT !.tables = moved]
<1>0. h \in X /\ h.change = "RenameTable" /\ h.table = u /\ h.to = w /\ Phase(h) = 3
  <2>1. h \in X /\ h.change = "RenameTable" /\ h.table = u /\ h.to = w
    BY Fields DEF First
  <2> HIDE DEF h
  <2> QED BY <2>1, Phases DEF TableKinds
<1>1. /\ u \in Tables(s) /\ u \notin Tables(t) /\ w \in Tables(t) /\ w \notin Tables(s)
      /\ s.tables[u].columns = t.tables[w].columns /\ s.tables[u].key = t.tables[w].key
      /\ \A v : RenameTable(u, v) \in X => v = w
      /\ \A v : RenameTable(v, w) \in X => v = u
  BY <1>0 DEF Good, Account, TableAccount
<1>2. IsMap(s.tables) /\ w \in Nat
  BY <1>1 DEF Good, IsSchema, Valid, IsMap, Tables
<1>4. /\ \A v : v \notin Tables(s) \cap Tables(t) => ForeignOf(s, v) = <<>>
      /\ \A v \in Tables(s) : \A f \in DOMAIN s.tables[v].foreign : s.tables[v].foreign[f].table \in Tables(t)
      /\ s.tables[u].foreign = <<>>
  <2> HIDE DEF h
  <2> QED BY <1>0, <1>1, NoConstraintsLeft DEF h
<1>5. Apply(s, h) = Accept([s EXCEPT !.tables = ts])
  <2> HIDE DEF h
  <2>1. Apply(s, h) = ApplyRenameTable(s, h)
    BY <1>0 DEF Apply
  <2>2. ~(h.to \in Tables(s)) /\ ~(h.table \notin Tables(s))
    BY <1>0, <1>1
  <2>3. ApplyRenameTable(s, h) = Accept([s EXCEPT !.tables = ts])
    BY <1>0, <2>2 DEF ApplyRenameTable
  <2> QED BY <2>1, <2>3
<1>6. IsCut(rest, s.tables, u) /\ IsPut(moved, rest, w, d)
  <2>1. rest = Without(s.tables, u) /\ moved = Put(rest, w, d)
    OBVIOUS
  <2> HIDE DEF rest, moved, d
  <2>2. IsCut(rest, s.tables, u)
    BY <1>2, <2>1, MapWithout
  <2>3. IsPut(moved, rest, w, d)
    BY <1>2, <2>1, <2>2, MapPut DEF IsCut
  <2> QED BY <2>2, <2>3
<1> HIDE DEF moved, rest
<1>7. /\ IsMap(moved) /\ DOMAIN moved = (Tables(s) \ {u}) \cup {w}
      /\ moved[w] = d /\ \A v \in Tables(s) \ {u} : moved[v] = s.tables[v]
  BY <1>1, <1>6 DEF IsCut, IsPut, Tables
<1>8. \A v \in DOMAIN moved : \E x \in Tables(s) : moved[v] = s.tables[x]
  BY <1>1, <1>7
<1>9. ts = moved
  <2>1. ASSUME NEW v \in DOMAIN moved
        PROVE  [moved[v] EXCEPT !.foreign = Retargeted(moved[v].foreign, u, w)] = moved[v]
    <3> PICK x \in Tables(s) : moved[v] = s.tables[x]
      BY <1>8
    <3> DEFINE y == moved[v]
               F == y.foreign
               G == Retargeted(F, u, w)
    <3>1. IsTable(y)
      BY DEF Good, IsSchema
    <3>2. IsMap(F)
      BY <3>1, TableParts
    <3>3. \A f \in DOMAIN F : F[f].table # u
      BY <1>1, <1>4
    <3>4. G = y.foreign
      <4> HIDE DEF F
      <4>1. G = F
        BY <3>2, <3>3, NothingRetargets
      <4> QED BY <4>1 DEF F
    <3> HIDE DEF y, G
    <3>5. [y EXCEPT !.foreign = G] = y
      BY <3>1, <3>4 DEF IsTable
    <3> QED BY <3>5 DEF y, G
  <2> QED BY <1>7, <2>1 DEF IsMap
<1>10. Apply(s, h) = Accept(n)
  BY <1>5, <1>9
<1>11. n.tables = moved /\ Tables(n) = (Tables(s) \ {u}) \cup {w}
  <2>1. n = [tables |-> moved, enums |-> s.enums]
    BY DEF Good, IsSchema
  <2> QED BY <1>7, <2>1 DEF Tables
<1> HIDE DEF n
<1>12. \A v : ForeignOf(n, v) = ForeignOf(s, v)
  BY <1>1, <1>4, <1>7, <1>11 DEF ForeignOf
<1>13. TableAccount(X \ {h}, n, t)
  <2> DEFINE Y == X \ {h}
  <2>1. \A y : y \in Y <=> y \in X /\ y # h
    OBVIOUS
  <2> HIDE DEF Y
  <2>2. \A v, x : (CreateTable(v, x) \in Y <=> CreateTable(v, x) \in X) /\ (DropTable(v) \in Y <=> DropTable(v) \in X)
    BY <1>0, <2>1, Fields
  <2>3. \A v, x : RenameTable(v, x) \in Y <=> RenameTable(v, x) \in X /\ ~(v = u /\ x = w)
    BY <2>1, Fields DEF h
  <2>4. \A v : v \in Tables(n) \ Tables(t) <=> v \in Tables(s) \ Tables(t) /\ v # u
    BY <1>1, <1>11
  <2>5. \A v : v \in Tables(t) \ Tables(n) <=> v \in Tables(t) \ Tables(s) /\ v # w
    BY <1>1, <1>11
  <2>6. \A v \in Tables(s) \ {u} : n.tables[v] = s.tables[v]
    BY <1>7, <1>11
  <2>10. \A v, x : RenameTable(v, x) \in Y => v # u /\ x # w
    BY <1>1, <2>3
  <2>11. /\ \A v : (\A x : RenameTable(v, x) \notin X) => v # u
         /\ \A x : (\A v : RenameTable(v, x) \notin X) => x # w
    BY <1>0 DEF h
  <2>7. \A v, x : CreateTable(v, x) \in Y <=> v \in Tables(t) \ Tables(n) /\ x = Bare(t.tables[v])
                                              /\ \A y : RenameTable(y, v) \notin Y
    BY <2>2, <2>3, <2>5, <2>11 DEF Good, Account, TableAccount
  <2>8. \A v, x : RenameTable(v, x) \in Y =>
          /\ v \in Tables(n) \ Tables(t) /\ x \in Tables(t) \ Tables(n)
          /\ n.tables[v].columns = t.tables[x].columns /\ n.tables[v].key = t.tables[x].key
    BY <2>3, <2>4, <2>5, <2>6, <2>10 DEF Good, Account, TableAccount
  <2>9. \A v : DropTable(v) \in Y <=> v \in Tables(n) \ Tables(t) /\ \A x : RenameTable(v, x) \notin Y
    <3> SUFFICES ASSUME NEW v
                 PROVE  DropTable(v) \in Y <=> v \in Tables(n) \ Tables(t) /\ \A x : RenameTable(v, x) \notin Y
      OBVIOUS
    <3>1. DropTable(v) \in X <=> v \in Tables(s) \ Tables(t) /\ \A x : RenameTable(v, x) \notin X
      BY DEF Good, Account, TableAccount
    <3>2. CASE v = u
      BY <2>2, <2>4, <2>11, <3>1, <3>2
    <3>3. CASE v # u
      BY <2>2, <2>3, <2>4, <3>1, <3>3
    <3> QED BY <3>2, <3>3
  <2>12. /\ \A v, x, y : RenameTable(v, x) \in Y /\ RenameTable(v, y) \in Y => x = y
         /\ \A v, x, y : RenameTable(v, x) \in Y /\ RenameTable(y, x) \in Y => v = y
    BY <2>3 DEF Good, Account, TableAccount
  <2> QED BY <2>7, <2>8, <2>9, <2>12 DEF TableAccount, Y
<1>14. \A v \in DOMAIN moved :
          IsTable(moved[v]) /\ \A c \in DOMAIN moved[v].columns : moved[v].columns[c].type \in {0} \cup Enums(s)
  BY <1>8 DEF Good, IsSchema, TypesAreKnown
<1>15. Good(X \ {h}, n, t)
  <2>1. n = [s EXCEPT !.tables = moved]
    BY DEF n
  <2>2. h.change \in TableKinds
    BY <1>0 DEF TableKinds
  <2>3. \A v \in Common(s, t) :
           v \in DOMAIN moved /\ moved[v].columns = s.tables[v].columns /\ moved[v].key = s.tables[v].key
    BY <1>1, <1>7 DEF Common
  <2>4. \A v \in (DOMAIN moved \cap Tables(t)) \ Tables(s) :
           moved[v].columns = t.tables[v].columns /\ moved[v].key = t.tables[v].key
    BY <1>1, <1>7
  <2> HIDE DEF h
  <2> QED BY <1>0, <1>7, <1>12, <1>13, <1>14, <2>1, <2>2, <2>3, <2>4, TablesStep
<1> QED BY <1>10, <1>15 DEF Arrives, Accept

-----------------------------------------------------------------------------
\* Whatever comes first in a plan is not refused, and the plan stays accounted for.
LEMMA FirstArrives ==
  ASSUME NEW X, NEW s, NEW t, NEW h, Good(X, s, t), First(h, X, t)
  PROVE  Arrives(X, s, h, t)
<1>1. IsChange(h) /\ h \in X
  BY DEF First, Good, Account
<1>2. h = AddColumn(h.table, h.name, h.column) => Arrives(X, s, h, t)
  BY AddColumnArrives
<1>3. h = DropColumn(h.table, h.name) => Arrives(X, s, h, t)
  BY DropColumnArrives
<1>4. h = RenameColumn(h.table, h.name, h.to) => Arrives(X, s, h, t)
  BY RenameColumnArrives
<1>5. h.change \in {"AlterColumnType"} \cup FlagKinds => Arrives(X, s, h, t)
  BY <1>1, AlterationArrives
<1>6. h = SetPrimaryKey(h.table, h.from, h.to) => Arrives(X, s, h, t)
  BY SetPrimaryKeyArrives
<1>7. h = AddForeignKey(h.table, h.name, h.foreign) => Arrives(X, s, h, t)
  BY AddForeignKeyArrives
<1>8. h = DropForeignKey(h.table, h.name) => Arrives(X, s, h, t)
  BY <1>1, DropForeignKeyArrives
<1>9. h = CreateEnum(h.enum, h.variants) => Arrives(X, s, h, t)
  BY <1>1, CreateEnumArrives
<1>10. h = AddEnumVariant(h.enum, h.variant) => Arrives(X, s, h, t)
  BY AddEnumVariantArrives
<1>11. h = DropEnum(h.enum) => Arrives(X, s, h, t)
  BY DropEnumArrives
<1>12. h = CreateTable(h.table, h.def) => Arrives(X, s, h, t)
  BY CreateTableArrives
<1>13. h = DropTable(h.table) => Arrives(X, s, h, t)
  BY DropTableArrives
<1>14. h = RenameTable(h.table, h.to) => Arrives(X, s, h, t)
  BY RenameTableArrives
<1>15. \/ h = AlterColumnType(h.table, h.name, h.from, h.to) \/ h = SetNullable(h.table, h.name, h.to)
       \/ h = SetUnique(h.table, h.name, h.to) \/ h = SetAutoIncrement(h.table, h.name, h.to)
       => h.change \in {"AlterColumnType"} \cup FlagKinds
  BY Fields DEF FlagKinds
<1> QED BY <1>1, <1>2, <1>3, <1>4, <1>5, <1>6, <1>7, <1>8, <1>9, <1>10, <1>11, <1>12, <1>13, <1>14, <1>15
     DEF IsChange

-----------------------------------------------------------------------------
(* The lists that `diff' makes.                                            *)

\* The members of a finite set of numbers in their order: each of them once.
LEMMA OrderedMembers ==
  ASSUME NEW S \in SUBSET Nat, IsFiniteSet(S), NEW n, n = Cardinality(S)
  PROVE  /\ n \in Nat
         /\ \A i \in 1..n : Ordered(S)[i] \in S
         /\ \A i, j \in 1..n : Ordered(S)[i] = Ordered(S)[j] => i = j
         /\ \A x \in S : \E i \in 1..n : Ordered(S)[i] = x
<1> DEFINE below(x) == {y \in S : y < x}
           rank == [x \in S |-> Cardinality(below(x))]
<1>1. n \in Nat
  BY FS_CardinalityType
<1>2. ASSUME NEW x \in S PROVE IsFiniteSet(below(x)) /\ rank[x] \in 0..(n - 1)
  <2>1. below(x) \in SUBSET S /\ x \notin below(x)
    OBVIOUS
  <2>2. IsFiniteSet(below(x)) /\ IsFiniteSet(S \ {x}) /\ Cardinality(S \ {x}) = n - 1
    BY <2>1, FS_Subset, FS_RemoveElement
  <2>3. below(x) \in SUBSET (S \ {x})
    BY <2>1
  <2>4. Cardinality(below(x)) <= n - 1 /\ Cardinality(below(x)) \in Nat
    BY <2>2, <2>3, FS_Subset, FS_CardinalityType
  <2> QED BY <1>1, <2>2, <2>4
<1>3. ASSUME NEW x \in S, NEW z \in S, x < z PROVE rank[x] < rank[z]
  <2>1. below(x) \cup {x} \in SUBSET below(z) /\ x \notin below(x)
    <3>1. x \in Int /\ z \in Int /\ x \in below(z)
      BY <1>3
    <3>2. \A y \in below(x) : y \in below(z)
      <4> SUFFICES ASSUME NEW y \in S, y < x PROVE y < z
        OBVIOUS
      <4>1. y \in Int
        OBVIOUS
      <4> QED BY <1>3, <3>1, <4>1
    <3>3. x \notin below(x)
      BY <3>1
    <3> HIDE DEF below
    <3> QED BY <3>1, <3>2, <3>3
  <2>2. Cardinality(below(x) \cup {x}) = Cardinality(below(x)) + 1
    BY <1>2, <2>1, FS_AddElement
  <2>3. Cardinality(below(x) \cup {x}) <= Cardinality(below(z))
    <3>1. IsFiniteSet(below(z))
      BY <1>2
    <3> HIDE DEF below
    <3> QED BY <2>1, <3>1, FS_Subset
  <2>4. rank[x] = Cardinality(below(x)) /\ rank[z] = Cardinality(below(z)) /\ rank[x] \in Int /\ rank[z] \in Int
    BY <1>1, <1>2
  <2> QED BY <2>2, <2>3, <2>4
<1>4. \A x, z \in S : rank[x] = rank[z] => x = z
  <2> SUFFICES ASSUME NEW x \in S, NEW z \in S, rank[x] = rank[z], x # z PROVE FALSE
    OBVIOUS
  <2>1. x < z \/ z < x
    OBVIOUS
  <2>2. rank[x] \in Int /\ rank[z] \in Int
    BY <1>1, <1>2
  <2> QED BY <1>3, <2>1, <2>2
<1>5. \A i \in 0..(n - 1) : \E x \in S : rank[x] = i
  <2>1. rank \in Injection(S, 0..(n - 1))
    BY <1>2, <1>4 DEF Injection, IsInjective
  <2>2. IsFiniteSet(0..(n - 1)) /\ Cardinality(0..(n - 1)) = n
    <3>1. 0 \in Int /\ n - 1 \in Int
      BY <1>1
    <3>2. IsFiniteSet(0..(n - 1)) /\ Cardinality(0..(n - 1)) = IF 0 > n - 1 THEN 0 ELSE (n - 1) - 0 + 1
      BY <3>1, FS_Interval
    <3>3. (IF 0 > n - 1 THEN 0 ELSE (n - 1) - 0 + 1) = n
      BY <1>1
    <3> QED BY <3>2, <3>3
  <2>3. rank \in Surjection(S, 0..(n - 1))
    <3> DEFINE T == 0..(n - 1)
    <3>1. rank \in Injection(S, T) /\ IsFiniteSet(T) /\ Cardinality(S) = Cardinality(T)
      BY <2>1, <2>2
    <3> HIDE DEF rank, T
    <3>2. rank \in Surjection(S, T)
      BY <3>1, FS_Injection
    <3> QED BY <3>2 DEF T
  <2> QED BY <2>3 DEF Surjection
<1>6. \A i \in 1..n : Ordered(S)[i] = CHOOSE x \in S : rank[x] = i - 1
  BY DEF Ordered
<1> HIDE DEF rank, below
<1>7. ASSUME NEW i \in 1..n PROVE Ordered(S)[i] \in S /\ rank[Ordered(S)[i]] = i - 1
  <2>1. \E x \in S : rank[x] = i - 1
    BY <1>1, <1>5
  <2> QED BY <1>6, <2>1
<1>8. \A i, j \in 1..n : Ordered(S)[i] = Ordered(S)[j] => i = j
  <2> SUFFICES ASSUME NEW i \in 1..n, NEW j \in 1..n, Ordered(S)[i] = Ordered(S)[j] PROVE i = j
    OBVIOUS
  <2>1. i - 1 = j - 1
    BY <1>7
  <2> QED BY <2>1
<1>9. ASSUME NEW x \in S PROVE \E i \in 1..n : Ordered(S)[i] = x
  <2>1. rank[x] + 1 \in 1..n /\ (rank[x] + 1) - 1 = rank[x]
    BY <1>1, <1>2
  <2>2. rank[Ordered(S)[rank[x] + 1]] = rank[x] /\ Ordered(S)[rank[x] + 1] \in S
    BY <1>7, <2>1
  <2> QED BY <1>4, <2>1, <2>2
<1> QED BY <1>1, <1>7, <1>8, <1>9

\* A list of what is in it.
IsList(p) == p \in Seq(Range(p))

\* The list p is in the order of a plan for t.
Arranged(p, t) == \A i, j \in DOMAIN p : i < j => Before(p[i], p[j], t)

\* What comes of p comes before what comes of q.
Precedes(p, q, t) == \A x \in Range(p), y \in Range(q) : Before(x, y, t)

LEMMA ListOver ==
  ASSUME NEW S, NEW p \in Seq(S)
  PROVE  IsList(p) /\ Range(p) \subseteq S /\ Len(p) \in Nat /\ DOMAIN p = 1..Len(p)
<1>1. Len(p) \in Nat /\ DOMAIN p = 1..Len(p) /\ p \in [1..Len(p) -> Range(p)] /\ Range(p) \subseteq S
  BY DEF Range
<1>2. p \in Seq(Range(p))
  BY <1>1, IsSequence
<1> QED BY <1>1, <1>2 DEF IsList

LEMMA ListIn ==
  ASSUME NEW p, NEW S, IsList(p), Range(p) \subseteq S
  PROVE  p \in Seq(S) /\ Len(p) \in Nat /\ DOMAIN p = 1..Len(p)
BY DEF IsList

LEMMA EmptyList == IsList(<<>>) /\ Range(<<>>) = {} /\ \A t : Arranged(<<>>, t)
<1>1. <<>> \in Seq({}) /\ DOMAIN <<>> = {}
  OBVIOUS
<1>2. Range(<<>>) = {}
  BY <1>1 DEF Range
<1> QED BY <1>1, <1>2 DEF IsList, Arranged

LEMMA SingleList ==
  ASSUME NEW x
  PROVE  IsList(<<x>>) /\ Range(<<x>>) = {x} /\ \A t : Arranged(<<x>>, t)
<1>1. <<x>> \in Seq({x}) /\ DOMAIN <<x>> = {1} /\ <<x>>[1] = x
  OBVIOUS
<1>2. Range(<<x>>) = {x}
  BY <1>1 DEF Range
<1> QED BY <1>1, <1>2 DEF IsList, Arranged

LEMMA WhenList ==
  ASSUME NEW x, NEW condition \in BOOLEAN, NEW p, p = When(condition, x)
  PROVE  IsList(p) /\ (\A y : y \in Range(p) <=> condition /\ y = x) /\ \A t : Arranged(p, t)
<1>1. CASE condition
  BY <1>1, SingleList DEF When
<1>2. CASE ~condition
  BY <1>2, EmptyList DEF When
<1> QED BY <1>1, <1>2

LEMMA JoinedList ==
  ASSUME NEW p, NEW q, NEW t, NEW r, IsList(p), IsList(q), Arranged(p, t), Arranged(q, t), Precedes(p, q, t),
         r = p \o q
  PROVE  IsList(r) /\ Arranged(r, t) /\ Range(r) = Range(p) \cup Range(q)
<1> DEFINE S == Range(p) \cup Range(q)
           m == Len(p)
           n == Len(q)
<1>1. p \in Seq(S) /\ q \in Seq(S) /\ m \in Nat /\ n \in Nat /\ DOMAIN p = 1..m /\ DOMAIN q = 1..n
  BY ListIn
<1>2. r \in Seq(S) /\ Range(r) = S
  BY <1>1, JoinedRange
<1> HIDE DEF S
<1>3. DOMAIN r = 1..(m + n) /\ (\A i \in 1..m : r[i] = p[i]) /\ \A i \in (m + 1)..(m + n) : r[i] = q[i - m]
  BY <1>1
<1>4. ASSUME NEW i \in DOMAIN r, NEW j \in DOMAIN r, i < j PROVE Before(r[i], r[j], t)
  <2> HIDE DEF m, n
  <2>1. CASE j \in 1..m
    <3>1. i \in 1..m
      BY <1>1, <1>3, <1>4, <2>1
    <3> QED BY <1>1, <1>3, <1>4, <2>1, <3>1 DEF Arranged
  <2>2. CASE i \in (m + 1)..(m + n)
    <3>1. i - m \in 1..n /\ j - m \in 1..n /\ i - m < j - m /\ j \in (m + 1)..(m + n)
      BY <1>1, <1>3, <1>4, <2>2
    <3>2. Before(q[i - m], q[j - m], t)
      BY <1>1, <3>1 DEF Arranged
    <3> QED BY <1>3, <2>2, <3>1, <3>2
  <2>3. CASE i \in 1..m /\ j \in (m + 1)..(m + n)
    <3>1. r[i] = p[i] /\ r[j] = q[j - m] /\ j - m \in 1..n
      BY <1>1, <1>3, <2>3
    <3>2. r[i] \in Range(p) /\ r[j] \in Range(q)
      BY <1>1, <2>3, <3>1 DEF Range
    <3> QED BY <3>2 DEF Precedes
  <2>4. i \in 1..m \/ i \in (m + 1)..(m + n)
    BY <1>1, <1>3
  <2>5. j \in 1..m \/ j \in (m + 1)..(m + n)
    BY <1>1, <1>3
  <2> QED BY <2>1, <2>2, <2>3, <2>4, <2>5
<1>5. IsList(r)
  BY <1>2, ListOver
<1> QED BY <1>2, <1>4, <1>5 DEF Arranged, S

\* The members of the list r are those of the n lists ss.
Gathers(r, ss, n) == \A x : x \in Range(r) <=> \E i \in 1..n : x \in Range(ss[i])

LEMMA FlatList ==
  ASSUME NEW n \in Nat, NEW ss, NEW t, DOMAIN ss = 1..n, ss = [i \in 1..n |-> ss[i]],
         \A i \in 1..n : IsList(ss[i]) /\ Arranged(ss[i], t),
         \A i, j \in 1..n : i < j => Precedes(ss[i], ss[j], t),
         NEW r, r = FlattenSeq(ss)
  PROVE  IsList(r) /\ Arranged(r, t) /\ Gathers(r, ss, n)
<1> DEFINE S == UNION {Range(ss[i]) : i \in 1..n}
<1>1. \A i \in 1..n : Range(ss[i]) \subseteq S
  OBVIOUS
<1> HIDE DEF S
<1>2. \A i \in 1..n : ss[i] \in Seq(S)
  BY <1>1, ListIn
<1>3. ss \in Seq(Seq(S)) /\ Len(ss) = n
  BY <1>2
<1>4. r \in Seq(S) /\ \A x : x \in Range(r) <=> \E i \in 1..n : x \in Range(ss[i])
  BY <1>3, Flattened
<1>5. PICK f \in [0..n -> Seq(S)] :
        /\ f[0] = <<>> /\ f[n] = r
        /\ \A k \in 1..n : f[k] = f[k - 1] \o ss[k]
  BY <1>3, Flattening, ZenonT(60)
<1> DEFINE ok(k) == /\ IsList(f[k]) /\ Arranged(f[k], t)
                    /\ \A x \in Range(f[k]) : \E i \in 1..k : x \in Range(ss[i])
           P == {k \in Nat : k <= n => ok(k)}
<1>6. 0 \in P
  BY <1>5, EmptyList
<1>7. ASSUME NEW k \in Nat, k \in P PROVE k + 1 \in P
  <2> SUFFICES ASSUME k + 1 <= n PROVE ok(k + 1)
    OBVIOUS
  <2>1. ok(k) /\ k + 1 \in 1..n /\ (k + 1) - 1 = k
    BY <1>7
  <2>2. f[k + 1] = f[k] \o ss[k + 1]
    BY <1>5, <2>1
  <2>3. Precedes(f[k], ss[k + 1], t)
    <3> SUFFICES ASSUME NEW x \in Range(f[k]), NEW y \in Range(ss[k + 1]) PROVE Before(x, y, t)
      BY DEF Precedes
    <3>1. PICK i \in 1..k : x \in Range(ss[i])
      BY <2>1
    <3>2. i \in 1..n /\ i < k + 1
      BY <2>1
    <3> QED BY <2>1, <3>1, <3>2 DEF Precedes
  <2> DEFINE p == f[k]
             q == ss[k + 1]
             w == f[k + 1]
  <2>4. IsList(p) /\ Arranged(p, t) /\ IsList(q) /\ Arranged(q, t) /\ w = p \o q /\ Precedes(p, q, t)
    BY <2>1, <2>2, <2>3
  <2>5. \A x \in Range(p) : \E i \in 1..k : x \in Range(ss[i])
    BY <2>1
  <2> HIDE DEF p, q, w
  <2>6. IsList(w) /\ Arranged(w, t) /\ Range(w) = Range(p) \cup Range(q)
    BY <2>4, JoinedList
  <2>7. ASSUME NEW x \in Range(w) PROVE \E i \in 1..(k + 1) : x \in Range(ss[i])
    <3>1. CASE x \in Range(p)
      <4>1. PICK i \in 1..k : x \in Range(ss[i])
        BY <2>5, <3>1
      <4>2. i \in 1..(k + 1)
        OBVIOUS
      <4> QED BY <4>1, <4>2
    <3>2. CASE x \in Range(q)
      <4>1. k + 1 \in 1..(k + 1) /\ x \in Range(ss[k + 1])
        BY <3>2 DEF q
      <4> QED BY <4>1
    <3> QED BY <2>6, <3>1, <3>2
  <2> QED BY <2>6, <2>7 DEF w
<1> HIDE DEF P, ok
<1>8. Nat \subseteq P
  BY <1>6, <1>7, NumbersBySteps
<1>9. ok(n)
  BY <1>8 DEF P
<1> QED BY <1>4, <1>5, <1>9 DEF ok, Gathers

\* The members of the list r are those of the lists that G has for the members of S.
MadeOver(r, G, S) == \A x : x \in Range(r) <=> \E a \in S : x \in Range(G[a])

\* The concatenation of what G makes of each member of S.
LEMMA InOrderList ==
  ASSUME NEW S \in SUBSET Nat, IsFiniteSet(S), NEW G, NEW t, NEW ss, NEW r,
         \A a \in S : IsList(G[a]) /\ Arranged(G[a], t),
         \A a, b \in S : a # b => Precedes(G[a], G[b], t),
         ss = [i \in 1..Cardinality(S) |-> G[Ordered(S)[i]]], r = FlattenSeq(ss)
  PROVE  IsList(r) /\ Arranged(r, t) /\ MadeOver(r, G, S)
<1> DEFINE n == Cardinality(S)
           o == Ordered(S)
<1>1. /\ n \in Nat /\ (\A i \in 1..n : o[i] \in S) /\ (\A i, j \in 1..n : o[i] = o[j] => i = j)
      /\ \A x \in S : \E i \in 1..n : o[i] = x
  BY OrderedMembers
<1>2. DOMAIN ss = 1..n /\ ss = [i \in 1..n |-> ss[i]] /\ \A i \in 1..n : ss[i] = G[o[i]]
  OBVIOUS
<1> HIDE DEF n, o
<1>3. \A i \in 1..n : IsList(ss[i]) /\ Arranged(ss[i], t)
  BY <1>1, <1>2
<1>4. \A i, j \in 1..n : i < j => Precedes(ss[i], ss[j], t)
  <2> SUFFICES ASSUME NEW i \in 1..n, NEW j \in 1..n, i < j PROVE Precedes(ss[i], ss[j], t)
    OBVIOUS
  <2>1. o[i] # o[j] /\ o[i] \in S /\ o[j] \in S
    BY <1>1
  <2> QED BY <1>2, <2>1
<1>5. IsList(r) /\ Arranged(r, t) /\ \A x : x \in Range(r) <=> \E i \in 1..n : x \in Range(ss[i])
  <2>1. n \in Nat /\ DOMAIN ss = 1..n /\ ss = [i \in 1..n |-> ss[i]]
    BY <1>1, <1>2
  <2>2. r = FlattenSeq(ss)
    OBVIOUS
  <2>3. IsList(r)
    BY <2>1, <2>2, <1>3, <1>4, FlatList
  <2>4. Arranged(r, t)
    BY <2>1, <2>2, <1>3, <1>4, FlatList
  <2>5. Gathers(r, ss, n)
    BY <2>1, <2>2, <1>3, <1>4, FlatList
  <2> QED BY <2>3, <2>4, <2>5 DEF Gathers
<1>6. \A x : (\E i \in 1..n : x \in Range(ss[i])) <=> \E a \in S : x \in Range(G[a])
  <2>1. ASSUME NEW x, NEW i \in 1..n, x \in Range(ss[i]) PROVE \E a \in S : x \in Range(G[a])
    <3>1. o[i] \in S /\ ss[i] = G[o[i]]
      BY <1>1, <1>2
    <3> QED BY <2>1, <3>1
  <2>2. ASSUME NEW x, NEW a \in S, x \in Range(G[a]) PROVE \E i \in 1..n : x \in Range(ss[i])
    <3>1. PICK i \in 1..n : o[i] = a
      BY <1>1
    <3>2. ss[i] = G[a]
      BY <1>2, <3>1
    <3> QED BY <2>2, <3>2
  <2> QED BY <2>1, <2>2
<1> QED BY <1>5, <1>6 DEF MadeOver

\* One change for each member of S.
OneEach(r, g, S) == \A x : x \in Range(r) <=> \E a \in S : x = g[a]

LEMMA OneEachList ==
  ASSUME NEW S \in SUBSET Nat, IsFiniteSet(S), NEW g, NEW t, NEW ss, NEW r,
         \A a, b \in S : a # b => Before(g[a], g[b], t),
         ss = [i \in 1..Cardinality(S) |-> <<g[Ordered(S)[i]]>>], r = FlattenSeq(ss)
  PROVE  IsList(r) /\ Arranged(r, t) /\ OneEach(r, g, S)
<1> DEFINE G == [a \in S |-> <<g[a]>>]
<1>1. \A i \in 1..Cardinality(S) : Ordered(S)[i] \in S
  BY OrderedMembers
<1>2. ss = [i \in 1..Cardinality(S) |-> G[Ordered(S)[i]]]
  BY <1>1
<1>3. \A a \in S : IsList(G[a]) /\ Arranged(G[a], t) /\ Range(G[a]) = {g[a]}
  BY SingleList
<1> HIDE DEF G
<1>4. \A a, b \in S : a # b => Precedes(G[a], G[b], t)
  BY <1>3 DEF Precedes
<1>5. IsList(r) /\ Arranged(r, t) /\ MadeOver(r, G, S)
  BY <1>2, <1>3, <1>4, InOrderList
<1>6. ASSUME NEW x PROVE x \in Range(r) <=> \E a \in S : x = g[a]
  <2>1. x \in Range(r) <=> \E a \in S : x \in Range(G[a])
    BY <1>5 DEF MadeOver
  <2>2. \A a \in S : x \in Range(G[a]) <=> x = g[a]
    BY <1>3
  <2> QED BY <2>1, <2>2
<1> QED BY <1>5, <1>6 DEF OneEach

LEMMA PlainBefore ==
  ASSUME NEW x, NEW y, NEW t, x # y, Phase(x) <= Phase(y), x.change \notin {"SetPrimaryKey", "AddEnumVariant"}
  PROVE  Before(x, y, t)
BY DEF Before

IsEnumGrowth(r, e, from, to) ==
  \A x : x \in Range(r) <=> \E k \in DOMAIN to \ DOMAIN from : x = AddEnumVariant(e, to[k])

LEMMA EnumChangesList ==
  ASSUME NEW t, NEW e \in Enums(t), Valid(t), NEW from, NEW S, from \in Seq(S), NEW to, to = t.enums[e],
         IsPrefix(from, to), NEW r, r = EnumChanges(e, from, to)
  PROVE  IsList(r) /\ Arranged(r, t) /\ IsEnumGrowth(r, e, from, to)
<1> DEFINE T == ElementsOf(to)
           m == Len(from)
           n == Len(to)
<1>1. to \in Seq(T) /\ \A i, j \in DOMAIN to : to[i] = to[j] => i = j
  BY DEF Valid, IsSchema
<1>2. /\ m \in Nat /\ n \in Nat /\ DOMAIN from = 1..m /\ DOMAIN to = 1..n
  BY <1>1
<1>3. m <= n /\ \A i \in 1..m : from[i] = to[i]
  <2>1. m <= n /\ SubSeq(from, 1, m) = SubSeq(to, 1, m)
    BY DEF IsPrefix
  <2>2. /\ SubSeq(from, 1, m) = [i \in 1..m |-> from[i]]
    BY <1>2
  <2>3. /\ SubSeq(to, 1, m) = [i \in 1..m |-> to[i]]
    BY <1>1, <1>2, <2>1
  <2> QED BY <2>1, <2>2, <2>3
<1>4. CASE from = to
  <2>1. r = <<>>
    BY <1>4 DEF EnumChanges
  <2>2. DOMAIN to \ DOMAIN from = {}
    BY <1>4
  <2> QED BY <2>1, <2>2, EmptyList DEF IsEnumGrowth
<1>5. CASE from # to
  <2>1. n > m
    <3> SUFFICES ASSUME ~(n > m) PROVE FALSE
      OBVIOUS
    <3>1. n = m
      BY <1>2, <1>3
    <3>2. \A i \in 1..m : from[i] = to[i]
      BY <1>3
    <3>3. from = [i \in 1..m |-> from[i]] /\ to = [i \in 1..n |-> to[i]]
      BY <1>1, <1>2
    <3> HIDE DEF m, n
    <3>4. from = to
      BY <3>1, <3>2, <3>3
    <3> QED BY <1>5, <3>4
  <2>2. r = [i \in 1..(n - m) |-> AddEnumVariant(e, to[m + i])]
    BY <1>5, <2>1 DEF EnumChanges
  <2> HIDE DEF m, n, T
  <2>3. DOMAIN r = 1..(n - m) /\ (\A i \in 1..(n - m) : r[i] = AddEnumVariant(e, to[m + i])) /\ n - m \in Nat
        /\ \A i \in 1..(n - m) : m + i \in DOMAIN to \ DOMAIN from
    BY <1>2, <2>1, <2>2
  <2>4. r \in Seq(Range(r))
    <3>1. r \in [1..(n - m) -> Range(r)]
      BY <2>2, <2>3 DEF Range
    <3> QED BY <2>3, <3>1, IsSequence
  <2>5. ASSUME NEW i \in DOMAIN r, NEW j \in DOMAIN r, i < j PROVE Before(r[i], r[j], t)
    <3> DEFINE x == r[i]
               y == r[j]
    <3>1. /\ x.change = "AddEnumVariant" /\ y.change = "AddEnumVariant" /\ x.enum = e /\ y.enum = e
          /\ x.variant = to[m + i] /\ y.variant = to[m + j]
      BY <2>3, Fields
    <3>2. m + i \in DOMAIN to /\ m + j \in DOMAIN to /\ m + i < m + j
      BY <1>2, <2>1, <2>3, <2>5
    <3>3. x # y
      BY <1>1, <3>1, <3>2
    <3>4. Phase(x) = 1 /\ Phase(y) = 1
      BY <3>1, Phases
    <3> HIDE DEF x, y
    <3>5. \E k, l \in DOMAIN t.enums[x.enum] :
             k < l /\ x.variant = t.enums[x.enum][k] /\ y.variant = t.enums[x.enum][l]
      BY <3>1, <3>2
    <3>6. Before(x, y, t)
      BY <3>1, <3>3, <3>4, <3>5 DEF Before
    <3> QED BY <3>6 DEF x, y
  <2>6. ASSUME NEW k \in DOMAIN to \ DOMAIN from PROVE k - m \in DOMAIN r /\ r[k - m] = AddEnumVariant(e, to[k])
    <3>1. k - m \in 1..(n - m) /\ m + (k - m) = k
      BY <1>2, <2>1
    <3>2. r[k - m] = AddEnumVariant(e, to[m + (k - m)])
      BY <2>3, <3>1
    <3> QED BY <2>3, <3>1, <3>2
  <2>7. IsEnumGrowth(r, e, from, to)
    <3>1. ASSUME NEW x, x \in Range(r) PROVE \E k \in DOMAIN to \ DOMAIN from : x = AddEnumVariant(e, to[k])
      <4>1. PICK i \in DOMAIN r : x = r[i]
        BY <3>1 DEF Range
      <4> QED BY <2>3, <4>1
    <3>2. ASSUME NEW x, NEW k \in DOMAIN to \ DOMAIN from, x = AddEnumVariant(e, to[k]) PROVE x \in Range(r)
      BY <2>6, <3>2 DEF Range
    <3> QED BY <3>1, <3>2 DEF IsEnumGrowth
  <2> QED BY <2>4, <2>5, <2>7 DEF IsList, Arranged
<1> QED BY <1>4, <1>5

AreEnumCreates(r, s, t) ==
  \A x : x \in Range(r) <=>
    \/ \E e \in Enums(t) \ Enums(s) : x = CreateEnum(e, t.enums[e])
    \/ \E e \in Enums(s) \cap Enums(t) : \E k \in DOMAIN t.enums[e] \ DOMAIN s.enums[e] :
          x = AddEnumVariant(e, t.enums[e][k])

LEMMA EnumCreatesList ==
  ASSUME NEW s, NEW t, IsSchema(s), Valid(t), EnumsGrow(s, t), NEW r, r = EnumCreates(s, t)
  PROVE  IsList(r) /\ Arranged(r, t) /\ AreEnumCreates(r, s, t)
<1> DEFINE S == Enums(t)
           G == [e \in S |-> IF e \notin Enums(s) THEN <<CreateEnum(e, t.enums[e])>>
                             ELSE EnumChanges(e, s.enums[e], t.enums[e])]
           ss == [i \in 1..Cardinality(S) |-> G[Ordered(S)[i]]]
<1>1. S \in SUBSET Nat /\ IsFiniteSet(S)
  BY DEF Valid, IsSchema, IsMap, Enums
<1>2. \A i \in 1..Cardinality(S) : Ordered(S)[i] \in S
  <2> HIDE DEF S
  <2> QED BY <1>1, OrderedMembers
<1>3. r = FlattenSeq(ss)
  <2>1. r = FlattenSeq([i \in 1..Cardinality(S) |->
               IF Ordered(S)[i] \notin Enums(s) THEN <<CreateEnum(Ordered(S)[i], t.enums[Ordered(S)[i]])>>
               ELSE EnumChanges(Ordered(S)[i], s.enums[Ordered(S)[i]], t.enums[Ordered(S)[i]])])
    BY DEF EnumCreates, InOrder
  <2>2. ss = [i \in 1..Cardinality(S) |->
               IF Ordered(S)[i] \notin Enums(s) THEN <<CreateEnum(Ordered(S)[i], t.enums[Ordered(S)[i]])>>
               ELSE EnumChanges(Ordered(S)[i], s.enums[Ordered(S)[i]], t.enums[Ordered(S)[i]])]
    BY <1>2
  <2> QED BY <2>1, <2>2
<1>4. ASSUME NEW e \in S, e \notin Enums(s)
      PROVE  IsList(G[e]) /\ Arranged(G[e], t) /\ Range(G[e]) = {CreateEnum(e, t.enums[e])}
  <2>1. G[e] = <<CreateEnum(e, t.enums[e])>>
    BY <1>4
  <2> HIDE DEF G
  <2> QED BY <2>1, SingleList
<1>5. ASSUME NEW e \in S, e \in Enums(s)
      PROVE  IsList(G[e]) /\ Arranged(G[e], t) /\ IsEnumGrowth(G[e], e, s.enums[e], t.enums[e])
  <2> DEFINE g == G[e]
             from == s.enums[e]
             to == t.enums[e]
  <2>1. g = EnumChanges(e, from, to)
    BY <1>5
  <2>2. from \in Seq(ElementsOf(from)) /\ IsPrefix(from, to) /\ e \in Enums(t)
    BY <1>5 DEF IsSchema, EnumsGrow
  <2>3. to = t.enums[e]
    OBVIOUS
  <2> HIDE DEF g, from, to
  <2>4. IsList(g) /\ Arranged(g, t) /\ IsEnumGrowth(g, e, from, to)
    BY <2>1, <2>2, <2>3, EnumChangesList
  <2> QED BY <2>4 DEF g, from, to
<1>8. ss = [i \in 1..Cardinality(S) |-> G[Ordered(S)[i]]]
  OBVIOUS
<1> HIDE DEF G, ss
<1>6. \A e \in S : \A x \in Range(G[e]) : Phase(x) = 1 /\ x.enum = e
  <2> SUFFICES ASSUME NEW e \in S, NEW x \in Range(G[e]) PROVE Phase(x) = 1 /\ x.enum = e
    OBVIOUS
  <2>1. x = CreateEnum(e, t.enums[e]) \/ \E k : x = AddEnumVariant(e, k)
    BY <1>4, <1>5 DEF IsEnumGrowth
  <2>2. x.change \in {"CreateEnum", "AddEnumVariant"} /\ x.enum = e
    BY <2>1, Fields
  <2> QED BY <2>2, Phases
<1>7. \A a, b \in S : a # b => Precedes(G[a], G[b], t)
  <2> SUFFICES ASSUME NEW a \in S, NEW b \in S, a # b, NEW x \in Range(G[a]), NEW y \in Range(G[b])
               PROVE  Before(x, y, t)
    BY DEF Precedes
  <2>1. Phase(x) = 1 /\ Phase(y) = 1 /\ x.enum # y.enum
    BY <1>6
  <2>2. x.change # "SetPrimaryKey"
    BY <2>1, Phases
  <2> QED BY <2>1, <2>2 DEF Before
<1>9. \A e \in S : IsList(G[e]) /\ Arranged(G[e], t)
  BY <1>4, <1>5
<1>10. IsList(r) /\ Arranged(r, t) /\ MadeOver(r, G, S)
  <2> HIDE DEF S
  <2> QED BY <1>1, <1>3, <1>7, <1>8, <1>9, InOrderList
<1>11. AreEnumCreates(r, s, t)
  <2> SUFFICES ASSUME NEW x
               PROVE  x \in Range(r) <=>
                        \/ \E e \in Enums(t) \ Enums(s) : x = CreateEnum(e, t.enums[e])
                        \/ \E e \in Enums(s) \cap Enums(t) : \E k \in DOMAIN t.enums[e] \ DOMAIN s.enums[e] :
                              x = AddEnumVariant(e, t.enums[e][k])
    BY DEF AreEnumCreates
  <2>1. x \in Range(r) <=> \E e \in S : x \in Range(G[e])
    BY <1>10 DEF MadeOver
  <2>2. \A e \in S : e \notin Enums(s) => (x \in Range(G[e]) <=> x = CreateEnum(e, t.enums[e]))
    BY <1>4
  <2>3. \A e \in S : e \in Enums(s) =>
          (x \in Range(G[e]) <=> \E k \in DOMAIN t.enums[e] \ DOMAIN s.enums[e] : x = AddEnumVariant(e, t.enums[e][k]))
    BY <1>5 DEF IsEnumGrowth
  <2> QED BY <2>1, <2>2, <2>3
<1> QED BY <1>10, <1>11

AreEnumDrops(r, s, t) == \A x : x \in Range(r) <=> \E e \in Enums(s) \ Enums(t) : x = DropEnum(e)

LEMMA EnumDropsList ==
  ASSUME NEW s, NEW t, IsSchema(s), NEW r, r = EnumDrops(s, t)
  PROVE  IsList(r) /\ Arranged(r, t) /\ AreEnumDrops(r, s, t)
<1> DEFINE S == Enums(s) \ Enums(t)
           g == [e \in S |-> DropEnum(e)]
           ss == [i \in 1..Cardinality(S) |-> <<g[Ordered(S)[i]]>>]
<1>1. S \in SUBSET Nat /\ IsFiniteSet(S)
  BY FS_Difference DEF IsSchema, IsMap, Enums
<1>2. \A i \in 1..Cardinality(S) : Ordered(S)[i] \in S
  <2> HIDE DEF S
  <2> QED BY <1>1, OrderedMembers
<1>3. r = FlattenSeq(ss) /\ ss = [i \in 1..Cardinality(S) |-> <<g[Ordered(S)[i]]>>]
  <2>1. r = FlattenSeq([i \in 1..Cardinality(S) |-> <<DropEnum(Ordered(S)[i])>>])
    BY DEF EnumDrops, InOrder
  <2>2. ss = [i \in 1..Cardinality(S) |-> <<DropEnum(Ordered(S)[i])>>]
    BY <1>2
  <2> QED BY <2>1, <2>2
<1>4. \A e \in S : g[e] = DropEnum(e)
  OBVIOUS
<1> HIDE DEF g, ss
<1>5. \A a, b \in S : a # b => Before(g[a], g[b], t)
  <2> SUFFICES ASSUME NEW a \in S, NEW b \in S, a # b PROVE Before(g[a], g[b], t)
    OBVIOUS
  <2> DEFINE x == g[a]
             y == g[b]
  <2>1. x.change = "DropEnum" /\ y.change = "DropEnum" /\ x.enum = a /\ y.enum = b
    BY <1>4, Fields
  <2> HIDE DEF x, y
  <2>2. x # y /\ Phase(x) = 5 /\ Phase(y) = 5
    BY <2>1, Phases
  <2>3. Before(x, y, t)
    BY <2>1, <2>2, PlainBefore
  <2> QED BY <2>3 DEF x, y
<1>6. IsList(r) /\ Arranged(r, t) /\ OneEach(r, g, S)
  <2> HIDE DEF S
  <2> QED BY <1>1, <1>3, <1>5, OneEachList
<1> QED BY <1>4, <1>6 DEF OneEach, AreEnumDrops

LEMMA UnmatchedNames ==
  ASSUME NEW F, NEW G, IsMap(F)
  PROVE  Unmatched(F, G) \in SUBSET Nat /\ IsFiniteSet(Unmatched(F, G))
<1>1. Unmatched(F, G) \in SUBSET DOMAIN F
  BY DEF Unmatched
<1> QED BY <1>1, FS_Subset DEF IsMap

LEMMA ForeignMap ==
  ASSUME NEW s, NEW u, IsSchema(s)
  PROVE  IsMap(ForeignOf(s, u))
<1>1. u \in Tables(s) => IsMap(s.tables[u].foreign)
  BY TableParts DEF IsSchema
<1> QED BY <1>1, EmptyMap DEF ForeignOf

DropsOf(s, t, u) == InOrder(Unmatched(ForeignOf(s, u), ForeignOf(t, u)), LAMBDA f : <<DropForeignKey(u, f)>>)

AreDropsOf(r, s, t, u) ==
  \A x : x \in Range(r) <=> \E f \in Unmatched(ForeignOf(s, u), ForeignOf(t, u)) : x = DropForeignKey(u, f)

LEMMA DropsOfList ==
  ASSUME NEW s, NEW t, NEW u, IsSchema(s), NEW r, r = DropsOf(s, t, u)
  PROVE  IsList(r) /\ Arranged(r, t) /\ AreDropsOf(r, s, t, u)
<1> DEFINE S == Unmatched(ForeignOf(s, u), ForeignOf(t, u))
           g == [f \in S |-> DropForeignKey(u, f)]
           ss == [i \in 1..Cardinality(S) |-> <<g[Ordered(S)[i]]>>]
<1>1. S \in SUBSET Nat /\ IsFiniteSet(S)
  BY UnmatchedNames, ForeignMap
<1>2. \A i \in 1..Cardinality(S) : Ordered(S)[i] \in S
  <2> HIDE DEF S
  <2> QED BY <1>1, OrderedMembers
<1>3. r = FlattenSeq(ss) /\ ss = [i \in 1..Cardinality(S) |-> <<g[Ordered(S)[i]]>>]
  <2>1. r = FlattenSeq([i \in 1..Cardinality(S) |-> <<DropForeignKey(u, Ordered(S)[i])>>])
    BY DEF DropsOf, InOrder
  <2>2. ss = [i \in 1..Cardinality(S) |-> <<DropForeignKey(u, Ordered(S)[i])>>]
    <3> HIDE DEF S
    <3> QED BY <1>2
  <2> QED BY <2>1, <2>2
<1>4. \A f \in S : g[f] = DropForeignKey(u, f)
  OBVIOUS
<1> HIDE DEF g, ss
<1>5. \A a, b \in S : a # b => Before(g[a], g[b], t)
  <2> SUFFICES ASSUME NEW a \in S, NEW b \in S, a # b PROVE Before(g[a], g[b], t)
    OBVIOUS
  <2> DEFINE x == g[a]
             y == g[b]
  <2>1. x.change = "DropForeignKey" /\ y.change = "DropForeignKey" /\ x.name = a /\ y.name = b
    BY <1>4, Fields
  <2> HIDE DEF x, y
  <2>2. x # y /\ Phase(x) = 2 /\ Phase(y) = 2
    BY <2>1, Phases
  <2>3. Before(x, y, t)
    BY <2>1, <2>2, PlainBefore
  <2> QED BY <2>3 DEF x, y
<1>6. IsList(r) /\ Arranged(r, t) /\ OneEach(r, g, S)
  <2> HIDE DEF S
  <2> QED BY <1>1, <1>3, <1>5, OneEachList
<1> QED BY <1>4, <1>6 DEF OneEach, AreDropsOf

AreForeignDrops(r, s, t) ==
  \A x : x \in Range(r) <=>
    \E u \in Tables(s) : \E f \in Unmatched(ForeignOf(s, u), ForeignOf(t, u)) : x = DropForeignKey(u, f)

LEMMA ForeignDropsList ==
  ASSUME NEW s, NEW t, IsSchema(s), NEW r, r = ForeignKeyDrops(s, t)
  PROVE  IsList(r) /\ Arranged(r, t) /\ AreForeignDrops(r, s, t)
<1> DEFINE S == Tables(s)
           G == [u \in S |-> DropsOf(s, t, u)]
           ss == [i \in 1..Cardinality(S) |-> G[Ordered(S)[i]]]
<1>1. S \in SUBSET Nat /\ IsFiniteSet(S)
  BY DEF IsSchema, IsMap, Tables
<1>2. \A i \in 1..Cardinality(S) : Ordered(S)[i] \in S
  <2> HIDE DEF S
  <2> QED BY <1>1, OrderedMembers
<1>3. r = FlattenSeq(ss)
  <2>1. r = FlattenSeq([i \in 1..Cardinality(S) |-> DropsOf(s, t, Ordered(S)[i])])
    BY DEF ForeignKeyDrops, InOrder, DropsOf
  <2>2. ss = [i \in 1..Cardinality(S) |-> DropsOf(s, t, Ordered(S)[i])]
    BY <1>2
  <2> QED BY <2>1, <2>2
<1>4. ss = [i \in 1..Cardinality(S) |-> G[Ordered(S)[i]]] /\ \A u \in S : G[u] = DropsOf(s, t, u)
  OBVIOUS
<1> HIDE DEF G, ss
<1>5. \A u \in S : IsList(G[u]) /\ Arranged(G[u], t) /\ AreDropsOf(G[u], s, t, u)
  BY <1>4, DropsOfList
<1>6. \A u \in S : \A x \in Range(G[u]) : x.change = "DropForeignKey" /\ x.table = u
  BY <1>5, Fields DEF AreDropsOf
<1>7. \A a, b \in S : a # b => Precedes(G[a], G[b], t)
  <2> SUFFICES ASSUME NEW a \in S, NEW b \in S, a # b, NEW x \in Range(G[a]), NEW y \in Range(G[b])
               PROVE  Before(x, y, t)
    BY DEF Precedes
  <2>1. x.change = "DropForeignKey" /\ y.change = "DropForeignKey" /\ x # y
    BY <1>6
  <2>2. Phase(x) = 2 /\ Phase(y) = 2
    BY <2>1, Phases
  <2> QED BY <2>1, <2>2, PlainBefore
<1>8. IsList(r) /\ Arranged(r, t) /\ MadeOver(r, G, S)
  <2> HIDE DEF S
  <2> QED BY <1>1, <1>3, <1>4, <1>5, <1>7, InOrderList
<1>9. ASSUME NEW x
      PROVE  x \in Range(r) <=>
               \E u \in Tables(s) : \E f \in Unmatched(ForeignOf(s, u), ForeignOf(t, u)) : x = DropForeignKey(u, f)
  <2>1. x \in Range(r) <=> \E u \in S : x \in Range(G[u])
    BY <1>8 DEF MadeOver
  <2>2. \A u \in S : x \in Range(G[u]) <=>
            \E f \in Unmatched(ForeignOf(s, u), ForeignOf(t, u)) : x = DropForeignKey(u, f)
    BY <1>5 DEF AreDropsOf
  <2> QED BY <2>1, <2>2
<1>10. AreForeignDrops(r, s, t)
  BY <1>9 DEF AreForeignDrops
<1> QED BY <1>8, <1>10

AddsOf(s, t, u) ==
  InOrder(Unmatched(ForeignOf(t, u), ForeignOf(s, u)), LAMBDA f : <<AddForeignKey(u, f, ForeignOf(t, u)[f])>>)

AreAddsOf(r, s, t, u) ==
  \A x : x \in Range(r) <=>
    \E f \in Unmatched(ForeignOf(t, u), ForeignOf(s, u)) : x = AddForeignKey(u, f, ForeignOf(t, u)[f])

LEMMA AddsOfList ==
  ASSUME NEW s, NEW t, NEW u, IsSchema(t), NEW r, r = AddsOf(s, t, u)
  PROVE  IsList(r) /\ Arranged(r, t) /\ AreAddsOf(r, s, t, u)
<1> DEFINE S == Unmatched(ForeignOf(t, u), ForeignOf(s, u))
           g == [f \in S |-> AddForeignKey(u, f, ForeignOf(t, u)[f])]
           ss == [i \in 1..Cardinality(S) |-> <<g[Ordered(S)[i]]>>]
<1>1. S \in SUBSET Nat /\ IsFiniteSet(S)
  BY UnmatchedNames, ForeignMap
<1>2. \A i \in 1..Cardinality(S) : Ordered(S)[i] \in S
  <2> HIDE DEF S
  <2> QED BY <1>1, OrderedMembers
<1>3. r = FlattenSeq(ss) /\ ss = [i \in 1..Cardinality(S) |-> <<g[Ordered(S)[i]]>>]
  <2>1. r = FlattenSeq([i \in 1..Cardinality(S) |-> <<AddForeignKey(u, Ordered(S)[i], ForeignOf(t, u)[Ordered(S)[i]])>>])
    BY DEF AddsOf, InOrder
  <2>2. ss = [i \in 1..Cardinality(S) |-> <<AddForeignKey(u, Ordered(S)[i], ForeignOf(t, u)[Ordered(S)[i]])>>]
    <3> HIDE DEF S
    <3> QED BY <1>2
  <2> QED BY <2>1, <2>2
<1>4. \A f \in S : g[f] = AddForeignKey(u, f, ForeignOf(t, u)[f])
  OBVIOUS
<1> HIDE DEF g, ss
<1>5. \A a, b \in S : a # b => Before(g[a], g[b], t)
  <2> SUFFICES ASSUME NEW a \in S, NEW b \in S, a # b PROVE Before(g[a], g[b], t)
    OBVIOUS
  <2> DEFINE x == g[a]
             y == g[b]
  <2>1. x.change = "AddForeignKey" /\ y.change = "AddForeignKey" /\ x.name = a /\ y.name = b
    BY <1>4, Fields
  <2> HIDE DEF x, y
  <2>2. x # y /\ Phase(x) = 4 /\ Phase(y) = 4
    BY <2>1, Phases
  <2>3. Before(x, y, t)
    BY <2>1, <2>2, PlainBefore
  <2> QED BY <2>3 DEF x, y
<1>6. IsList(r) /\ Arranged(r, t) /\ OneEach(r, g, S)
  <2> HIDE DEF S
  <2> QED BY <1>1, <1>3, <1>5, OneEachList
<1> QED BY <1>4, <1>6 DEF OneEach, AreAddsOf

AreForeignAdds(r, s, t) ==
  \A x : x \in Range(r) <=>
    \E u \in Tables(t) : \E f \in Unmatched(ForeignOf(t, u), ForeignOf(s, u)) :
       x = AddForeignKey(u, f, ForeignOf(t, u)[f])

LEMMA ForeignAddsList ==
  ASSUME NEW s, NEW t, IsSchema(t), NEW r, r = ForeignKeyAdds(s, t)
  PROVE  IsList(r) /\ Arranged(r, t) /\ AreForeignAdds(r, s, t)
<1> DEFINE S == Tables(t)
           G == [u \in S |-> AddsOf(s, t, u)]
           ss == [i \in 1..Cardinality(S) |-> G[Ordered(S)[i]]]
<1>1. S \in SUBSET Nat /\ IsFiniteSet(S)
  BY DEF IsSchema, IsMap, Tables
<1>2. \A i \in 1..Cardinality(S) : Ordered(S)[i] \in S
  <2> HIDE DEF S
  <2> QED BY <1>1, OrderedMembers
<1>3. r = FlattenSeq(ss)
  <2>1. r = FlattenSeq([i \in 1..Cardinality(S) |-> AddsOf(s, t, Ordered(S)[i])])
    BY DEF ForeignKeyAdds, InOrder, AddsOf
  <2>2. ss = [i \in 1..Cardinality(S) |-> AddsOf(s, t, Ordered(S)[i])]
    BY <1>2
  <2> QED BY <2>1, <2>2
<1>4. ss = [i \in 1..Cardinality(S) |-> G[Ordered(S)[i]]] /\ \A u \in S : G[u] = AddsOf(s, t, u)
  OBVIOUS
<1> HIDE DEF G, ss
<1>5. \A u \in S : IsList(G[u]) /\ Arranged(G[u], t) /\ AreAddsOf(G[u], s, t, u)
  BY <1>4, AddsOfList
<1>6. \A u \in S : \A x \in Range(G[u]) : x.change = "AddForeignKey" /\ x.table = u
  BY <1>5, Fields DEF AreAddsOf
<1>7. \A a, b \in S : a # b => Precedes(G[a], G[b], t)
  <2> SUFFICES ASSUME NEW a \in S, NEW b \in S, a # b, NEW x \in Range(G[a]), NEW y \in Range(G[b])
               PROVE  Before(x, y, t)
    BY DEF Precedes
  <2>1. x.change = "AddForeignKey" /\ y.change = "AddForeignKey" /\ x # y
    BY <1>6
  <2>2. Phase(x) = 4 /\ Phase(y) = 4
    BY <2>1, Phases
  <2> QED BY <2>1, <2>2, PlainBefore
<1>8. IsList(r) /\ Arranged(r, t) /\ MadeOver(r, G, S)
  <2> HIDE DEF S
  <2> QED BY <1>1, <1>3, <1>4, <1>5, <1>7, InOrderList
<1>9. ASSUME NEW x
      PROVE  x \in Range(r) <=>
               \E u \in Tables(t) : \E f \in Unmatched(ForeignOf(t, u), ForeignOf(s, u)) :
                  x = AddForeignKey(u, f, ForeignOf(t, u)[f])
  <2>1. x \in Range(r) <=> \E u \in S : x \in Range(G[u])
    BY <1>8 DEF MadeOver
  <2>2. \A u \in S : x \in Range(G[u]) <=>
            \E f \in Unmatched(ForeignOf(t, u), ForeignOf(s, u)) : x = AddForeignKey(u, f, ForeignOf(t, u)[f])
    BY <1>5 DEF AreAddsOf
  <2> QED BY <2>1, <2>2
<1>10. AreForeignAdds(r, s, t)
  BY <1>9 DEF AreForeignAdds
<1> QED BY <1>8, <1>10

-----------------------------------------------------------------------------
(* What changes between two tables of one name.                            *)

IsAlteration(x, u, c, p, q) ==
  \/ p.type # q.type /\ x = AlterColumnType(u, c, p.type, q.type)
  \/ p.nullable # q.nullable /\ x = SetNullable(u, c, q.nullable)
  \/ p.unique # q.unique /\ x = SetUnique(u, c, q.unique)
  \/ p.auto # q.auto /\ x = SetAutoIncrement(u, c, q.auto)

AreAlterations(r, u, c, p, q) == \A x : x \in Range(r) <=> IsAlteration(x, u, c, p, q)

AlterKinds == {"AlterColumnType"} \cup FlagKinds

LEMMA AlterationFields ==
  ASSUME NEW x, NEW u, NEW c, NEW p, NEW q, IsAlteration(x, u, c, p, q)
  PROVE  x.change \in AlterKinds /\ x.table = u /\ x.name = c
BY Fields DEF IsAlteration, AlterKinds, FlagKinds

\* The list r holds what q holds and, under a condition, x.
HoldsAlso(r, q, condition, x) == \A v : v \in Range(r) <=> v \in Range(q) \/ (condition /\ v = x)

\* A list with one more change at its end, under a condition.
LEMMA WhenAppended ==
  ASSUME NEW x, NEW condition \in BOOLEAN, NEW p, NEW q, NEW t, NEW r, IsList(q), Arranged(q, t),
         \A y \in Range(q) : Before(y, x, t), p = When(condition, x), r = q \o p
  PROVE  IsList(r) /\ Arranged(r, t) /\ HoldsAlso(r, q, condition, x)
<1>1. IsList(p) /\ (\A y : y \in Range(p) <=> condition /\ y = x) /\ Arranged(p, t)
  BY WhenList
<1>2. Precedes(q, p, t)
  BY <1>1 DEF Precedes
<1>3. IsList(r) /\ Arranged(r, t) /\ Range(r) = Range(q) \cup Range(p)
  BY <1>1, <1>2, JoinedList, ZenonT(60)
<1>4. \A v : v \in Range(r) <=> v \in Range(q) \/ v \in Range(p)
  BY <1>3
<1> QED BY <1>1, <1>3, <1>4 DEF HoldsAlso

LEMMA AlterationsList ==
  ASSUME NEW u, NEW c, NEW p, NEW q, NEW t, NEW r, r = AlterationsOf(u, c, p, q)
  PROVE  IsList(r) /\ Arranged(r, t) /\ AreAlterations(r, u, c, p, q)
<1> DEFINE w == AlterColumnType(u, c, p.type, q.type)
           x == SetNullable(u, c, q.nullable)
           y == SetUnique(u, c, q.unique)
           z == SetAutoIncrement(u, c, q.auto)
           b1 == p.type # q.type
           b2 == p.nullable # q.nullable
           b3 == p.unique # q.unique
           b4 == p.auto # q.auto
           j1 == When(b1, w)
           j2 == j1 \o When(b2, x)
           j3 == j2 \o When(b3, y)
           j4 == j3 \o When(b4, z)
<1>1. r = j4
  BY DEF AlterationsOf
<1>2. w.change = "AlterColumnType" /\ x.change = "SetNullable" /\ y.change = "SetUnique" /\ z.change = "SetAutoIncrement"
  BY Fields
<1>3. b1 \in BOOLEAN /\ b2 \in BOOLEAN /\ b3 \in BOOLEAN /\ b4 \in BOOLEAN
  OBVIOUS
<1>4. j1 = When(b1, w) /\ j2 = j1 \o When(b2, x) /\ j3 = j2 \o When(b3, y) /\ j4 = j3 \o When(b4, z)
  OBVIOUS
<1>5. \A v : IsAlteration(v, u, c, p, q) <=> (b1 /\ v = w) \/ (b2 /\ v = x) \/ (b3 /\ v = y) \/ (b4 /\ v = z)
  BY DEF IsAlteration
<1> HIDE DEF w, x, y, z, b1, b2, b3, b4, j1, j2, j3, j4
<1>6. \A v \in {w, x, y, z} : Phase(v) = 3 /\ v.change \notin {"SetPrimaryKey", "AddEnumVariant"}
  BY <1>2, Phases DEF ColumnKinds, FlagKinds
<1>7. /\ Before(w, x, t) /\ Before(w, y, t) /\ Before(w, z, t) /\ Before(x, y, t) /\ Before(x, z, t) /\ Before(y, z, t)
  <2>1. \A k, l \in {w, x, y, z} : k.change # l.change => Before(k, l, t)
    BY <1>6, PlainBefore
  <2> QED BY <1>2, <2>1
<1>8. IsList(j1) /\ (\A v : v \in Range(j1) <=> b1 /\ v = w) /\ Arranged(j1, t)
  BY <1>3, <1>4, WhenList
<1>9. IsList(j2) /\ Arranged(j2, t) /\ HoldsAlso(j2, j1, b2, x)
  <2> DEFINE e == When(b2, x)
  <2>1. e = When(b2, x) /\ j2 = j1 \o e
    BY <1>4
  <2>2. \A v \in Range(j1) : Before(v, x, t)
    BY <1>7, <1>8
  <2> HIDE DEF e
  <2> QED BY <1>3, <1>8, <2>1, <2>2, WhenAppended
<1>10. IsList(j3) /\ Arranged(j3, t) /\ HoldsAlso(j3, j2, b3, y)
  <2> DEFINE e == When(b3, y)
  <2>1. e = When(b3, y) /\ j3 = j2 \o e
    BY <1>4
  <2>2. \A v \in Range(j2) : Before(v, y, t)
    BY <1>7, <1>8, <1>9 DEF HoldsAlso
  <2> HIDE DEF e
  <2> QED BY <1>3, <1>9, <2>1, <2>2, WhenAppended
<1>11. IsList(j4) /\ Arranged(j4, t) /\ HoldsAlso(j4, j3, b4, z)
  <2> DEFINE e == When(b4, z)
  <2>1. e = When(b4, z) /\ j4 = j3 \o e
    BY <1>4
  <2>2. \A v \in Range(j3) : Before(v, z, t)
    BY <1>7, <1>8, <1>9, <1>10 DEF HoldsAlso
  <2> HIDE DEF e
  <2> QED BY <1>3, <1>10, <2>1, <2>2, WhenAppended
<1>12. \A v : v \in Range(j4) <=> IsAlteration(v, u, c, p, q)
  BY <1>5, <1>8, <1>9, <1>10, <1>11 DEF HoldsAlso
<1> QED BY <1>1, <1>11, <1>12 DEF AreAlterations

ColumnAdds(u, from, to) ==
  InOrder(DOMAIN to.columns \ DOMAIN from.columns, LAMBDA c : <<AddColumn(u, c, to.columns[c])>>)

AreColumnAdds(r, u, from, to) ==
  \A x : x \in Range(r) <=> \E c \in DOMAIN to.columns \ DOMAIN from.columns : x = AddColumn(u, c, to.columns[c])

LEMMA ColumnAddsList ==
  ASSUME NEW u, NEW from, NEW to, NEW t, IsTable(from), IsTable(to), NEW r, r = ColumnAdds(u, from, to)
  PROVE  IsList(r) /\ Arranged(r, t) /\ AreColumnAdds(r, u, from, to)
<1> DEFINE S == DOMAIN to.columns \ DOMAIN from.columns
           g == [c \in S |-> AddColumn(u, c, to.columns[c])]
           ss == [i \in 1..Cardinality(S) |-> <<g[Ordered(S)[i]]>>]
<1>1. S \in SUBSET Nat /\ IsFiniteSet(S)
  BY FS_Difference DEF IsTable, IsMap
<1>2. \A i \in 1..Cardinality(S) : Ordered(S)[i] \in S
  <2> HIDE DEF S
  <2> QED BY <1>1, OrderedMembers
<1>3. r = FlattenSeq(ss) /\ ss = [i \in 1..Cardinality(S) |-> <<g[Ordered(S)[i]]>>]
  <2>1. r = FlattenSeq([i \in 1..Cardinality(S) |-> <<AddColumn(u, Ordered(S)[i], to.columns[Ordered(S)[i]])>>])
    BY DEF ColumnAdds, InOrder
  <2>2. ss = [i \in 1..Cardinality(S) |-> <<AddColumn(u, Ordered(S)[i], to.columns[Ordered(S)[i]])>>]
    <3> HIDE DEF S
    <3> QED BY <1>2
  <2> QED BY <2>1, <2>2
<1>4. \A c \in S : g[c] = AddColumn(u, c, to.columns[c])
  OBVIOUS
<1> HIDE DEF g, ss
<1>5. \A a, b \in S : a # b => Before(g[a], g[b], t)
  <2> SUFFICES ASSUME NEW a \in S, NEW b \in S, a # b PROVE Before(g[a], g[b], t)
    OBVIOUS
  <2> DEFINE x == g[a]
             y == g[b]
  <2>1. x.change = "AddColumn" /\ y.change = "AddColumn" /\ x.name = a /\ y.name = b
    BY <1>4, Fields
  <2> HIDE DEF x, y
  <2>2. x # y /\ Phase(x) = 3 /\ Phase(y) = 3
    BY <2>1, Phases DEF ColumnKinds
  <2>3. Before(x, y, t)
    BY <2>1, <2>2, PlainBefore
  <2> QED BY <2>3 DEF x, y
<1>6. IsList(r) /\ Arranged(r, t) /\ OneEach(r, g, S)
  <2> HIDE DEF S
  <2> QED BY <1>1, <1>3, <1>5, OneEachList
<1> QED BY <1>4, <1>6 DEF OneEach, AreColumnAdds

ColumnDrops(u, from, to) == InOrder(DOMAIN from.columns \ DOMAIN to.columns, LAMBDA c : <<DropColumn(u, c)>>)

AreColumnDrops(r, u, from, to) ==
  \A x : x \in Range(r) <=> \E c \in DOMAIN from.columns \ DOMAIN to.columns : x = DropColumn(u, c)

LEMMA ColumnDropsList ==
  ASSUME NEW u, NEW from, NEW to, NEW t, IsTable(from), IsTable(to), NEW r, r = ColumnDrops(u, from, to)
  PROVE  IsList(r) /\ Arranged(r, t) /\ AreColumnDrops(r, u, from, to)
<1> DEFINE S == DOMAIN from.columns \ DOMAIN to.columns
           g == [c \in S |-> DropColumn(u, c)]
           ss == [i \in 1..Cardinality(S) |-> <<g[Ordered(S)[i]]>>]
<1>1. S \in SUBSET Nat /\ IsFiniteSet(S)
  BY FS_Difference DEF IsTable, IsMap
<1>2. \A i \in 1..Cardinality(S) : Ordered(S)[i] \in S
  <2> HIDE DEF S
  <2> QED BY <1>1, OrderedMembers
<1>3. r = FlattenSeq(ss) /\ ss = [i \in 1..Cardinality(S) |-> <<g[Ordered(S)[i]]>>]
  <2>1. r = FlattenSeq([i \in 1..Cardinality(S) |-> <<DropColumn(u, Ordered(S)[i])>>])
    BY DEF ColumnDrops, InOrder
  <2>2. ss = [i \in 1..Cardinality(S) |-> <<DropColumn(u, Ordered(S)[i])>>]
    <3> HIDE DEF S
    <3> QED BY <1>2
  <2> QED BY <2>1, <2>2
<1>4. \A c \in S : g[c] = DropColumn(u, c)
  OBVIOUS
<1> HIDE DEF g, ss
<1>5. \A a, b \in S : a # b => Before(g[a], g[b], t)
  <2> SUFFICES ASSUME NEW a \in S, NEW b \in S, a # b PROVE Before(g[a], g[b], t)
    OBVIOUS
  <2> DEFINE x == g[a]
             y == g[b]
  <2>1. x.change = "DropColumn" /\ y.change = "DropColumn" /\ x.name = a /\ y.name = b
    BY <1>4, Fields
  <2> HIDE DEF x, y
  <2>2. x # y /\ Phase(x) = 3 /\ Phase(y) = 3
    BY <2>1, Phases DEF ColumnKinds
  <2>3. Before(x, y, t)
    BY <2>1, <2>2, PlainBefore
  <2> QED BY <2>3 DEF x, y
<1>6. IsList(r) /\ Arranged(r, t) /\ OneEach(r, g, S)
  <2> HIDE DEF S
  <2> QED BY <1>1, <1>3, <1>5, OneEachList
<1> QED BY <1>4, <1>6 DEF OneEach, AreColumnDrops

ColumnAlterations(u, from, to) ==
  InOrder(DOMAIN from.columns \cap DOMAIN to.columns, LAMBDA c : AlterationsOf(u, c, from.columns[c], to.columns[c]))

AreColumnAlterations(r, u, from, to) ==
  \A x : x \in Range(r) <=>
    \E c \in DOMAIN from.columns \cap DOMAIN to.columns : IsAlteration(x, u, c, from.columns[c], to.columns[c])

LEMMA ColumnAlterationsList ==
  ASSUME NEW u, NEW from, NEW to, NEW t, IsTable(from), IsTable(to), NEW r, r = ColumnAlterations(u, from, to)
  PROVE  IsList(r) /\ Arranged(r, t) /\ AreColumnAlterations(r, u, from, to)
<1> DEFINE S == DOMAIN from.columns \cap DOMAIN to.columns
           G == [c \in S |-> AlterationsOf(u, c, from.columns[c], to.columns[c])]
           ss == [i \in 1..Cardinality(S) |-> G[Ordered(S)[i]]]
<1>1. S \in SUBSET Nat /\ IsFiniteSet(S)
  <2>1. S \in SUBSET DOMAIN from.columns
    OBVIOUS
  <2> QED BY <2>1, FS_Subset DEF IsTable, IsMap
<1>2. \A i \in 1..Cardinality(S) : Ordered(S)[i] \in S
  <2> HIDE DEF S
  <2> QED BY <1>1, OrderedMembers
<1>3. r = FlattenSeq(ss)
  <2>1. r = FlattenSeq([i \in 1..Cardinality(S) |->
                          AlterationsOf(u, Ordered(S)[i], from.columns[Ordered(S)[i]], to.columns[Ordered(S)[i]])])
    BY DEF ColumnAlterations, InOrder
  <2>2. ss = [i \in 1..Cardinality(S) |->
                AlterationsOf(u, Ordered(S)[i], from.columns[Ordered(S)[i]], to.columns[Ordered(S)[i]])]
    <3> HIDE DEF S
    <3> QED BY <1>2
  <2> QED BY <2>1, <2>2
<1>4. /\ ss = [i \in 1..Cardinality(S) |-> G[Ordered(S)[i]]]
      /\ \A c \in S : G[c] = AlterationsOf(u, c, from.columns[c], to.columns[c])
  OBVIOUS
<1> HIDE DEF G, ss
<1>5. \A c \in S : IsList(G[c]) /\ Arranged(G[c], t) /\ AreAlterations(G[c], u, c, from.columns[c], to.columns[c])
  <2> SUFFICES ASSUME NEW c \in S
               PROVE  IsList(G[c]) /\ Arranged(G[c], t) /\ AreAlterations(G[c], u, c, from.columns[c], to.columns[c])
    OBVIOUS
  <2> DEFINE p == from.columns[c]
             q == to.columns[c]
             g == G[c]
  <2>1. g = AlterationsOf(u, c, p, q)
    BY <1>4
  <2> HIDE DEF p, q, g
  <2>2. IsList(g) /\ Arranged(g, t) /\ AreAlterations(g, u, c, p, q)
    BY <2>1, AlterationsList
  <2> QED BY <2>2 DEF p, q, g
<1>6. \A c \in S : \A x \in Range(G[c]) : x.change \in AlterKinds /\ x.name = c
  <2> SUFFICES ASSUME NEW c \in S, NEW x \in Range(G[c]) PROVE x.change \in AlterKinds /\ x.name = c
    OBVIOUS
  <2> DEFINE p == from.columns[c]
             q == to.columns[c]
  <2>1. IsAlteration(x, u, c, p, q)
    BY <1>5 DEF AreAlterations
  <2> HIDE DEF p, q
  <2> QED BY <2>1, AlterationFields
<1>7. \A a, b \in S : a # b => Precedes(G[a], G[b], t)
  <2> SUFFICES ASSUME NEW a \in S, NEW b \in S, a # b, NEW x \in Range(G[a]), NEW y \in Range(G[b])
               PROVE  Before(x, y, t)
    BY DEF Precedes
  <2>1. x.change \in AlterKinds /\ y.change \in AlterKinds /\ x # y
    BY <1>6
  <2>2. Phase(x) = 3 /\ Phase(y) = 3 /\ x.change \notin {"SetPrimaryKey", "AddEnumVariant"}
    BY <2>1, Phases DEF AlterKinds, ColumnKinds, FlagKinds
  <2> QED BY <2>1, <2>2, PlainBefore
<1>8. IsList(r) /\ Arranged(r, t) /\ MadeOver(r, G, S)
  <2> HIDE DEF S
  <2> QED BY <1>1, <1>3, <1>4, <1>5, <1>7, InOrderList
<1>9. ASSUME NEW x
      PROVE  x \in Range(r) <=>
               \E c \in DOMAIN from.columns \cap DOMAIN to.columns : IsAlteration(x, u, c, from.columns[c], to.columns[c])
  <2>1. x \in Range(r) <=> \E c \in S : x \in Range(G[c])
    BY <1>8 DEF MadeOver
  <2>2. \A c \in S : x \in Range(G[c]) <=> IsAlteration(x, u, c, from.columns[c], to.columns[c])
    BY <1>5 DEF AreAlterations
  <2> QED BY <2>1, <2>2
<1>10. AreColumnAlterations(r, u, from, to)
  BY <1>9 DEF AreColumnAlterations
<1> QED BY <1>8, <1>10

IsTableChange(x, u, from, to) ==
  \/ \E c \in DOMAIN to.columns \ DOMAIN from.columns : x = AddColumn(u, c, to.columns[c])
  \/ \E c \in DOMAIN from.columns \cap DOMAIN to.columns : IsAlteration(x, u, c, from.columns[c], to.columns[c])
  \/ \E c \in DOMAIN from.columns \ DOMAIN to.columns : x = DropColumn(u, c)
  \/ from.key # to.key /\ x = SetPrimaryKey(u, from.key, to.key)

AreTableChanges(r, u, from, to) == \A x : x \in Range(r) <=> IsTableChange(x, u, from, to)

LEMMA TableChangeFields ==
  ASSUME NEW x, NEW u, NEW from, NEW to, IsTableChange(x, u, from, to)
  PROVE  x.change \in ColumnKinds \cup {"SetPrimaryKey"} /\ x.table = u
<1>1. CASE \E c \in DOMAIN to.columns \ DOMAIN from.columns : x = AddColumn(u, c, to.columns[c])
  BY <1>1, Fields DEF ColumnKinds
<1>2. CASE \E c \in DOMAIN from.columns \cap DOMAIN to.columns : IsAlteration(x, u, c, from.columns[c], to.columns[c])
  <2>1. PICK c \in DOMAIN from.columns \cap DOMAIN to.columns : IsAlteration(x, u, c, from.columns[c], to.columns[c])
    BY <1>2
  <2> DEFINE p == from.columns[c]
             q == to.columns[c]
  <2>2. IsAlteration(x, u, c, p, q)
    BY <2>1
  <2> HIDE DEF p, q
  <2>3. x.change \in AlterKinds /\ x.table = u
    BY <2>2, AlterationFields
  <2> QED BY <2>3 DEF AlterKinds, ColumnKinds
<1>3. CASE \E c \in DOMAIN from.columns \ DOMAIN to.columns : x = DropColumn(u, c)
  BY <1>3, Fields DEF ColumnKinds
<1>4. CASE from.key # to.key /\ x = SetPrimaryKey(u, from.key, to.key)
  BY <1>4, Fields
<1> QED BY <1>1, <1>2, <1>3, <1>4 DEF IsTableChange

LEMMA DiffTableList ==
  ASSUME NEW u, NEW from, NEW to, NEW t, IsTable(from), IsTable(to), NEW r, r = DiffTable(u, from, to)
  PROVE  IsList(r) /\ Arranged(r, t) /\ AreTableChanges(r, u, from, to)
<1> DEFINE a == ColumnAdds(u, from, to)
           b == ColumnAlterations(u, from, to)
           c == ColumnDrops(u, from, to)
           differ == from.key # to.key
           z == SetPrimaryKey(u, from.key, to.key)
           k == When(differ, z)
           j2 == a \o b
           j3 == j2 \o c
           j4 == j3 \o k
<1>1. r = j4
  BY DEF DiffTable, ColumnAdds, ColumnAlterations, ColumnDrops
<1>2. IsList(a) /\ Arranged(a, t) /\ AreColumnAdds(a, u, from, to)
  <2> HIDE DEF a
  <2> QED BY ColumnAddsList DEF a
<1>3. IsList(b) /\ Arranged(b, t) /\ AreColumnAlterations(b, u, from, to)
  <2> HIDE DEF b
  <2> QED BY ColumnAlterationsList DEF b
<1>4. IsList(c) /\ Arranged(c, t) /\ AreColumnDrops(c, u, from, to)
  <2> HIDE DEF c
  <2> QED BY ColumnDropsList DEF c
<1>5. differ \in BOOLEAN /\ k = When(differ, z) /\ j2 = a \o b /\ j3 = j2 \o c /\ j4 = j3 \o k /\ z.change = "SetPrimaryKey"
  BY Fields
<1>6. \A x : IsTableChange(x, u, from, to) <=>
         \/ x \in Range(a) \/ x \in Range(b) \/ x \in Range(c) \/ (differ /\ x = z)
  <2> HIDE DEF a, b, c
  <2> QED BY <1>2, <1>3, <1>4 DEF IsTableChange, AreColumnAdds, AreColumnAlterations, AreColumnDrops
<1> HIDE DEF a, b, c, differ, z, k, j2, j3, j4
<1>7. \A x \in Range(a) : x.change = "AddColumn"
  BY <1>2, Fields DEF AreColumnAdds
<1>8. \A x \in Range(b) : x.change \in AlterKinds
  <2> SUFFICES ASSUME NEW x \in Range(b) PROVE x.change \in AlterKinds
    OBVIOUS
  <2>1. PICK d \in DOMAIN from.columns \cap DOMAIN to.columns : IsAlteration(x, u, d, from.columns[d], to.columns[d])
    BY <1>3 DEF AreColumnAlterations
  <2> DEFINE p == from.columns[d]
             q == to.columns[d]
  <2>2. IsAlteration(x, u, d, p, q)
    BY <2>1
  <2> HIDE DEF p, q
  <2> QED BY <2>2, AlterationFields
<1>9. \A x \in Range(c) : x.change = "DropColumn"
  BY <1>4, Fields DEF AreColumnDrops
<1>10. \A x : x.change \in {"AddColumn", "DropColumn", "SetPrimaryKey"} \cup AlterKinds => Phase(x) = 3
  BY Phases DEF AlterKinds, ColumnKinds, FlagKinds
<1>11. \A x, y :
           x.change \in {"AddColumn", "DropColumn"} \cup AlterKinds =>
             (y.change \in {"AddColumn", "DropColumn", "SetPrimaryKey"} \cup AlterKinds =>
                (x.change # y.change => Before(x, y, t)))
  <2>1. \A x : x.change \in {"AddColumn", "DropColumn"} \cup AlterKinds =>
          Phase(x) = 3 /\ x.change \notin {"SetPrimaryKey", "AddEnumVariant"}
    BY <1>10 DEF AlterKinds, FlagKinds
  <2>2. \A x : x.change \in {"AddColumn", "DropColumn", "SetPrimaryKey"} \cup AlterKinds => Phase(x) = 3
    BY <1>10
  <2> SUFFICES ASSUME NEW x, NEW y, x.change \in {"AddColumn", "DropColumn"} \cup AlterKinds,
                      y.change \in {"AddColumn", "DropColumn", "SetPrimaryKey"} \cup AlterKinds,
                      x.change # y.change
               PROVE  Before(x, y, t)
    OBVIOUS
  <2>3. x # y /\ Phase(x) <= Phase(y) /\ x.change \notin {"SetPrimaryKey", "AddEnumVariant"}
    BY <2>1, <2>2
  <2> QED BY <2>3, PlainBefore
<1>12. IsList(j2) /\ Arranged(j2, t) /\ Range(j2) = Range(a) \cup Range(b)
  <2>1. Precedes(a, b, t)
    <3> SUFFICES ASSUME NEW x \in Range(a), NEW y \in Range(b) PROVE Before(x, y, t)
      BY DEF Precedes
    <3>1. x.change # y.change
      BY <1>7, <1>8 DEF AlterKinds, FlagKinds
    <3> QED BY <1>7, <1>8, <1>11, <3>1
  <2> QED BY <1>2, <1>3, <1>5, <2>1, JoinedList
<1>13. IsList(j3) /\ Arranged(j3, t) /\ Range(j3) = Range(j2) \cup Range(c)
  <2>1. Precedes(j2, c, t)
    <3> SUFFICES ASSUME NEW x \in Range(j2), NEW y \in Range(c) PROVE Before(x, y, t)
      BY DEF Precedes
    <3>1. x.change = "AddColumn" \/ x.change \in AlterKinds
      BY <1>7, <1>8, <1>12
    <3>2. x.change # y.change
      BY <1>9, <3>1 DEF AlterKinds, FlagKinds
    <3> QED BY <1>9, <1>11, <3>1, <3>2
  <2>2. j3 = j2 \o c /\ IsList(j2) /\ Arranged(j2, t) /\ IsList(c) /\ Arranged(c, t)
    BY <1>4, <1>5, <1>12
  <2> QED BY <2>1, <2>2, JoinedList
<1>14. IsList(j4) /\ Arranged(j4, t) /\ HoldsAlso(j4, j3, differ, z)
  <2>1. \A x \in Range(j3) : Before(x, z, t)
    <3> SUFFICES ASSUME NEW x \in Range(j3) PROVE Before(x, z, t)
      OBVIOUS
    <3>1. x.change \in {"AddColumn", "DropColumn"} \/ x.change \in AlterKinds
      BY <1>7, <1>8, <1>9, <1>12, <1>13
    <3>2. x.change # z.change
      BY <1>5, <3>1 DEF AlterKinds, FlagKinds
    <3> QED BY <1>5, <1>11, <3>1, <3>2
  <2>2. differ \in BOOLEAN /\ k = When(differ, z) /\ j4 = j3 \o k /\ IsList(j3) /\ Arranged(j3, t)
    BY <1>5, <1>13
  <2> QED BY <2>1, <2>2, WhenAppended
<1>15. \A x : x \in Range(j4) <=> x \in Range(a) \/ x \in Range(b) \/ x \in Range(c) \/ (differ /\ x = z)
  BY <1>12, <1>13, <1>14 DEF HoldsAlso
<1> QED BY <1>1, <1>6, <1>14, <1>15 DEF AreTableChanges

-----------------------------------------------------------------------------
\* What changes of the tables.
IsTablesChange(x, s, t) ==
  \/ \E u \in Tables(s) \ Tables(t) : x = DropTable(u)
  \/ \E u \in Tables(t) \ Tables(s) : x = CreateTable(u, Bare(t.tables[u]))
  \/ \E u \in Common(s, t) : IsTableChange(x, u, s.tables[u], t.tables[u])

AreTablesChanges(r, s, t) == \A x : x \in Range(r) <=> IsTablesChange(x, s, t)

\* What becomes of table u.
ChangesOf(s, t, u) ==
  IF u \notin Tables(t) THEN <<DropTable(u)>>
  ELSE IF u \notin Tables(s) THEN <<CreateTable(u, Bare(t.tables[u]))>>
  ELSE DiffTable(u, s.tables[u], t.tables[u])

AreChangesOf(r, s, t, u) ==
  \A x : x \in Range(r) <=>
    \/ u \in Tables(s) \ Tables(t) /\ x = DropTable(u)
    \/ u \in Tables(t) \ Tables(s) /\ x = CreateTable(u, Bare(t.tables[u]))
    \/ u \in Common(s, t) /\ IsTableChange(x, u, s.tables[u], t.tables[u])

LEMMA ChangesOfList ==
  ASSUME NEW s, NEW t, NEW u \in Tables(s) \cup Tables(t), IsSchema(s), IsSchema(t), NEW r, r = ChangesOf(s, t, u)
  PROVE  IsList(r) /\ Arranged(r, t) /\ AreChangesOf(r, s, t, u)
<1>1. CASE u \notin Tables(t)
  <2> DEFINE y == DropTable(u)
  <2>1. r = <<y>>
    BY <1>1 DEF ChangesOf
  <2> HIDE DEF y
  <2>2. IsList(r) /\ Range(r) = {y} /\ Arranged(r, t)
    BY <2>1, SingleList
  <2> QED BY <1>1, <2>2 DEF AreChangesOf, Common, y
<1>2. CASE u \notin Tables(s)
  <2> DEFINE y == CreateTable(u, Bare(t.tables[u]))
  <2>1. r = <<y>>
    BY <1>2 DEF ChangesOf
  <2> HIDE DEF y
  <2>2. IsList(r) /\ Range(r) = {y} /\ Arranged(r, t)
    BY <2>1, SingleList
  <2> QED BY <1>2, <2>2 DEF AreChangesOf, Common, y
<1>3. CASE u \in Common(s, t)
  <2> DEFINE from == s.tables[u]
             to == t.tables[u]
  <2>1. r = DiffTable(u, from, to) /\ IsTable(from) /\ IsTable(to)
    BY <1>3 DEF ChangesOf, Common, IsSchema
  <2> HIDE DEF from, to
  <2>2. IsList(r) /\ Arranged(r, t) /\ AreTableChanges(r, u, from, to)
    BY <2>1, DiffTableList
  <2> QED BY <1>3, <2>2 DEF AreChangesOf, AreTableChanges, Common, from, to
<1> QED BY <1>1, <1>2, <1>3 DEF Common

LEMMA ChangesOfFields ==
  ASSUME NEW r, NEW s, NEW t, NEW u, AreChangesOf(r, s, t, u), NEW x \in Range(r)
  PROVE  x.change \in ColumnKinds \cup TableKinds \cup {"SetPrimaryKey"} /\ x.table = u
<1>1. CASE x = DropTable(u)
  BY <1>1, Fields DEF TableKinds
<1>2. CASE x = CreateTable(u, Bare(t.tables[u]))
  BY <1>2, Fields DEF TableKinds
<1>3. CASE IsTableChange(x, u, s.tables[u], t.tables[u])
  <2> DEFINE from == s.tables[u]
             to == t.tables[u]
  <2>1. IsTableChange(x, u, from, to)
    BY <1>3
  <2> HIDE DEF from, to
  <2> QED BY <2>1, TableChangeFields
<1> QED BY <1>1, <1>2, <1>3 DEF AreChangesOf

LEMMA TableChangesList ==
  ASSUME NEW s, NEW t, IsSchema(s), IsSchema(t), NEW r, r = TableChanges(s, t)
  PROVE  IsList(r) /\ Arranged(r, t) /\ AreTablesChanges(r, s, t)
<1> DEFINE S == Tables(s) \cup Tables(t)
           G == [u \in S |-> ChangesOf(s, t, u)]
           ss == [i \in 1..Cardinality(S) |-> G[Ordered(S)[i]]]
<1>1. S \in SUBSET Nat /\ IsFiniteSet(S)
  BY FS_Union DEF IsSchema, IsMap, Tables
<1>2. \A i \in 1..Cardinality(S) : Ordered(S)[i] \in S
  <2> HIDE DEF S
  <2> QED BY <1>1, OrderedMembers
<1>3. r = FlattenSeq(ss)
  <2>1. r = FlattenSeq([i \in 1..Cardinality(S) |-> ChangesOf(s, t, Ordered(S)[i])])
    BY DEF TableChanges, InOrder, ChangesOf, Bare
  <2>2. ss = [i \in 1..Cardinality(S) |-> ChangesOf(s, t, Ordered(S)[i])]
    <3> HIDE DEF S
    <3> QED BY <1>2
  <2> QED BY <2>1, <2>2
<1>4. ss = [i \in 1..Cardinality(S) |-> G[Ordered(S)[i]]] /\ \A u \in S : G[u] = ChangesOf(s, t, u)
  OBVIOUS
<1> HIDE DEF G, ss
<1>5. \A u \in S : IsList(G[u]) /\ Arranged(G[u], t) /\ AreChangesOf(G[u], s, t, u)
  BY <1>4, ChangesOfList
<1>6. \A u \in S : \A x \in Range(G[u]) : x.change \in ColumnKinds \cup TableKinds \cup {"SetPrimaryKey"} /\ x.table = u
  BY <1>5, ChangesOfFields
<1>7. \A a, b \in S : a # b => Precedes(G[a], G[b], t)
  <2> SUFFICES ASSUME NEW a \in S, NEW b \in S, a # b, NEW x \in Range(G[a]), NEW y \in Range(G[b])
               PROVE  Before(x, y, t)
    BY DEF Precedes
  <2>1. /\ x.change \in ColumnKinds \cup TableKinds \cup {"SetPrimaryKey"}
        /\ y.change \in ColumnKinds \cup TableKinds \cup {"SetPrimaryKey"}
        /\ x.table # y.table
    BY <1>6
  <2>2. Phase(x) = 3 /\ Phase(y) = 3 /\ x.change # "AddEnumVariant"
    BY <2>1, Phases DEF ColumnKinds, FlagKinds, TableKinds
  <2> QED BY <2>1, <2>2 DEF Before
<1>8. IsList(r) /\ Arranged(r, t) /\ MadeOver(r, G, S)
  <2> HIDE DEF S
  <2> QED BY <1>1, <1>3, <1>4, <1>5, <1>7, InOrderList
<1>9. ASSUME NEW x PROVE x \in Range(r) <=> IsTablesChange(x, s, t)
  <2>1. x \in Range(r) <=> \E u \in S : x \in Range(G[u])
    BY <1>8 DEF MadeOver
  <2>2. \A u \in S : x \in Range(G[u]) <=>
          \/ u \in Tables(s) \ Tables(t) /\ x = DropTable(u)
          \/ u \in Tables(t) \ Tables(s) /\ x = CreateTable(u, Bare(t.tables[u]))
          \/ u \in Common(s, t) /\ IsTableChange(x, u, s.tables[u], t.tables[u])
    BY <1>5 DEF AreChangesOf
  <2> QED BY <2>1, <2>2 DEF IsTablesChange, Common
<1> QED BY <1>8, <1>9 DEF AreTablesChanges

-----------------------------------------------------------------------------
(* What `diff' finds, and what it finds alone.                             *)

\* What `diff' finds between s and t.
EnumDue(x, s, t) ==
  \/ \E e \in Enums(t) \ Enums(s) : x = CreateEnum(e, t.enums[e])
  \/ \E e \in Enums(s) \cap Enums(t) : \E k \in DOMAIN t.enums[e] \ DOMAIN s.enums[e] :
        x = AddEnumVariant(e, t.enums[e][k])
  \/ \E e \in Enums(s) \ Enums(t) : x = DropEnum(e)

ForeignDue(x, s, t) ==
  \/ \E u \in Tables(s) : \E f \in Unmatched(ForeignOf(s, u), ForeignOf(t, u)) : x = DropForeignKey(u, f)
  \/ \E u \in Tables(t) : \E f \in Unmatched(ForeignOf(t, u), ForeignOf(s, u)) :
        x = AddForeignKey(u, f, ForeignOf(t, u)[f])

IsDue(x, s, t) == EnumDue(x, s, t) \/ ForeignDue(x, s, t) \/ IsTablesChange(x, s, t)

AreDue(X, s, t) == \A x : x \in X <=> IsDue(x, s, t)

LEMMA TablesChangeFields ==
  ASSUME NEW x, NEW s, NEW t, IsTablesChange(x, s, t)
  PROVE  \/ \E u \in Tables(s) \ Tables(t) : x = DropTable(u) /\ x.change = "DropTable"
         \/ \E u \in Tables(t) \ Tables(s) : x = CreateTable(u, Bare(t.tables[u])) /\ x.change = "CreateTable"
         \/ /\ x.table \in Common(s, t) /\ IsTableChange(x, x.table, s.tables[x.table], t.tables[x.table])
            /\ x.change \in ColumnKinds \cup {"SetPrimaryKey"}
<1>1. CASE \E u \in Tables(s) \ Tables(t) : x = DropTable(u)
  BY <1>1, Fields
<1>2. CASE \E u \in Tables(t) \ Tables(s) : x = CreateTable(u, Bare(t.tables[u]))
  BY <1>2, Fields
<1>3. CASE \E u \in Common(s, t) : IsTableChange(x, u, s.tables[u], t.tables[u])
  <2>1. PICK u \in Common(s, t) : IsTableChange(x, u, s.tables[u], t.tables[u])
    BY <1>3
  <2> DEFINE from == s.tables[u]
             to == t.tables[u]
  <2>2. IsTableChange(x, u, from, to)
    BY <2>1
  <2> HIDE DEF from, to
  <2>3. x.change \in ColumnKinds \cup {"SetPrimaryKey"} /\ x.table = u
    BY <2>2, TableChangeFields
  <2> QED BY <2>1, <2>3
<1> QED BY <1>1, <1>2, <1>3 DEF IsTablesChange

LEMMA DueKinds ==
  ASSUME NEW x, NEW s, NEW t
  PROVE  /\ EnumDue(x, s, t) => x.change \in EnumChangeKinds
         /\ ForeignDue(x, s, t) => x.change \in ForeignKinds
         /\ IsTablesChange(x, s, t) => x.change \in TableKinds \cup ColumnKinds \cup {"SetPrimaryKey"}
<1>1. EnumDue(x, s, t) => x.change \in EnumChangeKinds
  BY Fields DEF EnumDue, EnumChangeKinds
<1>2. ForeignDue(x, s, t) => x.change \in ForeignKinds
  BY Fields DEF ForeignDue, ForeignKinds
<1>3. IsTablesChange(x, s, t) => x.change \in TableKinds \cup ColumnKinds \cup {"SetPrimaryKey"}
  BY TablesChangeFields DEF TableKinds
<1> QED BY <1>1, <1>2, <1>3

LEMMA ChangesList ==
  ASSUME NEW s, NEW t, IsSchema(s), Valid(t), EnumsGrow(s, t), NEW r, r = Changes(s, t)
  PROVE  IsList(r) /\ Arranged(r, t) /\ AreDue(Range(r), s, t)
<1> DEFINE a == EnumCreates(s, t)
           b == ForeignKeyDrops(s, t)
           c == TableChanges(s, t)
           d == ForeignKeyAdds(s, t)
           e == EnumDrops(s, t)
           j2 == a \o b
           j3 == j2 \o c
           j4 == j3 \o d
           j5 == j4 \o e
<1>1. r = j5
  BY DEF Changes
<1>2. IsSchema(t)
  BY DEF Valid
<1>3. IsList(a) /\ Arranged(a, t) /\ AreEnumCreates(a, s, t)
  <2> HIDE DEF a
  <2> QED BY EnumCreatesList DEF a
<1>4. IsList(b) /\ Arranged(b, t) /\ AreForeignDrops(b, s, t)
  <2> HIDE DEF b
  <2> QED BY ForeignDropsList DEF b
<1>5. IsList(c) /\ Arranged(c, t) /\ AreTablesChanges(c, s, t)
  <2> HIDE DEF c
  <2> QED BY <1>2, TableChangesList DEF c
<1>6. IsList(d) /\ Arranged(d, t) /\ AreForeignAdds(d, s, t)
  <2> HIDE DEF d
  <2> QED BY <1>2, ForeignAddsList DEF d
<1>7. IsList(e) /\ Arranged(e, t) /\ AreEnumDrops(e, s, t)
  <2> HIDE DEF e
  <2> QED BY EnumDropsList DEF e
<1>8. j2 = a \o b /\ j3 = j2 \o c /\ j4 = j3 \o d /\ j5 = j4 \o e
  OBVIOUS
<1> HIDE DEF a, b, c, d, e, j2, j3, j4, j5
<1>9. /\ \A x \in Range(a) : Phase(x) = 1
      /\ \A x \in Range(b) : Phase(x) = 2
      /\ \A x \in Range(c) : Phase(x) = 3
      /\ \A x \in Range(d) : Phase(x) = 4
      /\ \A x \in Range(e) : Phase(x) = 5
  <2>1. ASSUME NEW x \in Range(a) PROVE Phase(x) = 1
    <3>1. x.change \in {"CreateEnum", "AddEnumVariant"}
      BY <1>3, Fields DEF AreEnumCreates
    <3> QED BY <3>1, Phases
  <2>2. ASSUME NEW x \in Range(b) PROVE Phase(x) = 2
    <3>1. x.change = "DropForeignKey"
      BY <1>4, Fields DEF AreForeignDrops
    <3> QED BY <3>1, Phases
  <2>3. ASSUME NEW x \in Range(c) PROVE Phase(x) = 3
    <3>1. x.change \in TableKinds \cup ColumnKinds \cup {"SetPrimaryKey"}
      BY <1>5, DueKinds DEF AreTablesChanges
    <3> QED BY <3>1, Phases
  <2>4. ASSUME NEW x \in Range(d) PROVE Phase(x) = 4
    <3>1. x.change = "AddForeignKey"
      BY <1>6, Fields DEF AreForeignAdds
    <3> QED BY <3>1, Phases
  <2>5. ASSUME NEW x \in Range(e) PROVE Phase(x) = 5
    <3>1. x.change = "DropEnum"
      BY <1>7, Fields DEF AreEnumDrops
    <3> QED BY <3>1, Phases
  <2> QED BY <2>1, <2>2, <2>3, <2>4, <2>5
<1>10. ASSUME NEW x, NEW y, Phase(x) < Phase(y) PROVE Before(x, y, t)
  <2>1. Phase(x) \in 1..5 /\ Phase(y) \in 1..5
    BY Phases
  <2>2. x # y /\ Phase(x) <= Phase(y)
    BY <1>10, <2>1
  <2>3. ~(x.change = "SetPrimaryKey" /\ y.change \in {"AddColumn", "RenameColumn"})
    <3> SUFFICES ASSUME x.change = "SetPrimaryKey", y.change \in {"AddColumn", "RenameColumn"} PROVE FALSE
      OBVIOUS
    <3>1. Phase(x) = 3 /\ Phase(y) = 3
      BY Phases DEF ColumnKinds
    <3> QED BY <1>10, <3>1
  <2>4. ~(x.change = "AddEnumVariant" /\ y.change = "AddEnumVariant")
    <3> SUFFICES ASSUME x.change = "AddEnumVariant", y.change = "AddEnumVariant" PROVE FALSE
      OBVIOUS
    <3>1. Phase(x) = 1 /\ Phase(y) = 1
      BY Phases
    <3> QED BY <1>10, <3>1
  <2> QED BY <2>2, <2>3, <2>4 DEF Before
<1>11. IsList(j2) /\ Arranged(j2, t) /\ Range(j2) = Range(a) \cup Range(b)
  <2>1. Precedes(a, b, t)
    BY <1>9, <1>10 DEF Precedes
  <2>2. j2 = a \o b /\ IsList(a) /\ Arranged(a, t) /\ IsList(b) /\ Arranged(b, t)
    BY <1>3, <1>4, <1>8
  <2> QED BY <2>1, <2>2, JoinedList
<1>12. IsList(j3) /\ Arranged(j3, t) /\ Range(j3) = Range(j2) \cup Range(c)
  <2>1. Precedes(j2, c, t)
    BY <1>9, <1>10, <1>11 DEF Precedes
  <2>2. j3 = j2 \o c /\ IsList(j2) /\ Arranged(j2, t) /\ IsList(c) /\ Arranged(c, t)
    BY <1>5, <1>8, <1>11
  <2> QED BY <2>1, <2>2, JoinedList
<1>13. IsList(j4) /\ Arranged(j4, t) /\ Range(j4) = Range(j3) \cup Range(d)
  <2>1. Precedes(j3, d, t)
    BY <1>9, <1>10, <1>11, <1>12 DEF Precedes
  <2>2. j4 = j3 \o d /\ IsList(j3) /\ Arranged(j3, t) /\ IsList(d) /\ Arranged(d, t)
    BY <1>6, <1>8, <1>12
  <2> QED BY <2>1, <2>2, JoinedList
<1>14. IsList(j5) /\ Arranged(j5, t) /\ Range(j5) = Range(j4) \cup Range(e)
  <2>1. Precedes(j4, e, t)
    BY <1>9, <1>10, <1>11, <1>12, <1>13 DEF Precedes
  <2>2. j5 = j4 \o e /\ IsList(j4) /\ Arranged(j4, t) /\ IsList(e) /\ Arranged(e, t)
    BY <1>7, <1>8, <1>13
  <2> QED BY <2>1, <2>2, JoinedList
<1>15. ASSUME NEW x PROVE x \in Range(j5) <=> IsDue(x, s, t)
  <2>1. x \in Range(j5) <=> x \in Range(a) \/ x \in Range(b) \/ x \in Range(c) \/ x \in Range(d) \/ x \in Range(e)
    BY <1>11, <1>12, <1>13, <1>14
  <2>2. EnumDue(x, s, t) <=> x \in Range(a) \/ x \in Range(e)
    BY <1>3, <1>7 DEF EnumDue, AreEnumCreates, AreEnumDrops
  <2>3. ForeignDue(x, s, t) <=> x \in Range(b) \/ x \in Range(d)
    BY <1>4, <1>6 DEF ForeignDue, AreForeignDrops, AreForeignAdds
  <2>4. x \in Range(c) <=> IsTablesChange(x, s, t)
    BY <1>5 DEF AreTablesChanges
  <2> QED BY <2>1, <2>2, <2>3, <2>4 DEF IsDue
<1> QED BY <1>1, <1>14, <1>15 DEF AreDue

\* What is due among the changes of one sort.
LEMMA DueOfKind ==
  ASSUME NEW X, NEW s, NEW t, AreDue(X, s, t), NEW x
  PROVE  /\ x.change \in EnumChangeKinds => (x \in X <=> EnumDue(x, s, t))
         /\ x.change \in ForeignKinds => (x \in X <=> ForeignDue(x, s, t))
         /\ x.change \in TableKinds \cup ColumnKinds \cup {"SetPrimaryKey"} => (x \in X <=> IsTablesChange(x, s, t))
BY DueKinds DEF AreDue, IsDue, EnumChangeKinds, ForeignKinds, TableKinds, ColumnKinds, FlagKinds

LEMMA AccountOfEnums ==
  ASSUME NEW X, NEW s, NEW t, IsSchema(s), IsSchema(t), EnumsGrow(s, t), AreDue(X, s, t)
  PROVE  EnumAccount(X, s, t)
<1>1. \A e, v : CreateEnum(e, v) \in X <=> e \in Enums(t) \ Enums(s) /\ v = t.enums[e]
  <2> SUFFICES ASSUME NEW e, NEW v PROVE CreateEnum(e, v) \in X <=> e \in Enums(t) \ Enums(s) /\ v = t.enums[e]
    OBVIOUS
  <2> DEFINE x == CreateEnum(e, v)
  <2>1. x.change = "CreateEnum" /\ x.enum = e /\ x.variants = v /\ x = CreateEnum(e, v)
    BY Fields
  <2> HIDE DEF x
  <2>2. x \in X <=> EnumDue(x, s, t)
    BY <2>1, DueOfKind DEF EnumChangeKinds
  <2>3. EnumDue(x, s, t) <=> e \in Enums(t) \ Enums(s) /\ v = t.enums[e]
    BY <2>1, Fields DEF EnumDue
  <2> QED BY <2>2, <2>3 DEF x
<1>2. \A e, v : AddEnumVariant(e, v) \in X <=>
          /\ e \in Enums(s) \cap Enums(t)
          /\ \E k \in DOMAIN t.enums[e] \ DOMAIN s.enums[e] : v = t.enums[e][k]
  <2> SUFFICES ASSUME NEW e, NEW v
               PROVE  AddEnumVariant(e, v) \in X <=>
                        /\ e \in Enums(s) \cap Enums(t)
                        /\ \E k \in DOMAIN t.enums[e] \ DOMAIN s.enums[e] : v = t.enums[e][k]
    OBVIOUS
  <2> DEFINE x == AddEnumVariant(e, v)
  <2>1. x.change = "AddEnumVariant" /\ x.enum = e /\ x.variant = v /\ x = AddEnumVariant(e, v)
    BY Fields
  <2> HIDE DEF x
  <2>2. x \in X <=> EnumDue(x, s, t)
    BY <2>1, DueOfKind DEF EnumChangeKinds
  <2>3. EnumDue(x, s, t) <=>
          /\ e \in Enums(s) \cap Enums(t)
          /\ \E k \in DOMAIN t.enums[e] \ DOMAIN s.enums[e] : v = t.enums[e][k]
    BY <2>1, Fields DEF EnumDue
  <2> QED BY <2>2, <2>3 DEF x
<1>3. \A e : DropEnum(e) \in X <=> e \in Enums(s) \ Enums(t)
  <2> SUFFICES ASSUME NEW e PROVE DropEnum(e) \in X <=> e \in Enums(s) \ Enums(t)
    OBVIOUS
  <2> DEFINE x == DropEnum(e)
  <2>1. x.change = "DropEnum" /\ x.enum = e /\ x = DropEnum(e)
    BY Fields
  <2> HIDE DEF x
  <2>2. x \in X <=> EnumDue(x, s, t)
    BY <2>1, DueOfKind DEF EnumChangeKinds
  <2>3. EnumDue(x, s, t) <=> e \in Enums(s) \ Enums(t)
    BY <2>1, Fields DEF EnumDue
  <2> QED BY <2>2, <2>3 DEF x
<1>4. ASSUME NEW e \in Enums(s) \cap Enums(t)
      PROVE  Len(s.enums[e]) <= Len(t.enums[e]) /\ \A k \in 1..Len(s.enums[e]) : s.enums[e][k] = t.enums[e][k]
  <2> DEFINE from == s.enums[e]
             to == t.enums[e]
             m == Len(from)
             n == Len(to)
  <2>1. from \in Seq(ElementsOf(from)) /\ to \in Seq(ElementsOf(to)) /\ IsPrefix(from, to)
    BY DEF IsSchema, EnumsGrow
  <2> HIDE DEF from, to
  <2>2. m <= n /\ SubSeq(from, 1, m) = SubSeq(to, 1, m)
    BY <2>1 DEF IsPrefix
  <2>3. m \in Nat /\ n \in Nat
    BY <2>1
  <2>4. SubSeq(from, 1, m) = [i \in 1..m |-> from[i]]
    BY <2>1
  <2>5. SubSeq(to, 1, m) = [i \in 1..m |-> to[i]]
    BY <2>1, <2>2, <2>3
  <2>6. \A k \in 1..m : from[k] = to[k]
    BY <2>2, <2>4, <2>5
  <2> QED BY <2>2, <2>6 DEF from, to
<1> QED BY <1>1, <1>2, <1>3, <1>4 DEF EnumAccount

LEMMA AccountOfForeign ==
  ASSUME NEW X, NEW s, NEW t, AreDue(X, s, t)
  PROVE  ForeignAccount(X, s, t)
<1>1. \A u, f : DropForeignKey(u, f) \in X <=> f \in Unmatched(ForeignOf(s, u), ForeignOf(t, u))
  <2> SUFFICES ASSUME NEW u, NEW f
               PROVE  DropForeignKey(u, f) \in X <=> f \in Unmatched(ForeignOf(s, u), ForeignOf(t, u))
    OBVIOUS
  <2> DEFINE x == DropForeignKey(u, f)
  <2>1. x.change = "DropForeignKey" /\ x.table = u /\ x.name = f /\ x = DropForeignKey(u, f)
    BY Fields
  <2> HIDE DEF x
  <2>2. x \in X <=> ForeignDue(x, s, t)
    BY <2>1, DueOfKind DEF ForeignKinds
  <2>3. u \notin Tables(s) => Unmatched(ForeignOf(s, u), ForeignOf(t, u)) = {}
    BY EmptyMap DEF Unmatched, ForeignOf
  <2>4. ForeignDue(x, s, t) <=> u \in Tables(s) /\ f \in Unmatched(ForeignOf(s, u), ForeignOf(t, u))
    BY <2>1, Fields DEF ForeignDue
  <2> QED BY <2>2, <2>3, <2>4 DEF x
<1>2. \A u, f, d : AddForeignKey(u, f, d) \in X <=>
          f \in Unmatched(ForeignOf(t, u), ForeignOf(s, u)) /\ d = ForeignOf(t, u)[f]
  <2> SUFFICES ASSUME NEW u, NEW f, NEW d
               PROVE  AddForeignKey(u, f, d) \in X <=>
                        f \in Unmatched(ForeignOf(t, u), ForeignOf(s, u)) /\ d = ForeignOf(t, u)[f]
    OBVIOUS
  <2> DEFINE x == AddForeignKey(u, f, d)
  <2>1. x.change = "AddForeignKey" /\ x.table = u /\ x.name = f /\ x.foreign = d /\ x = AddForeignKey(u, f, d)
    BY Fields
  <2> HIDE DEF x
  <2>2. x \in X <=> ForeignDue(x, s, t)
    BY <2>1, DueOfKind DEF ForeignKinds
  <2>3. u \notin Tables(t) => Unmatched(ForeignOf(t, u), ForeignOf(s, u)) = {}
    BY EmptyMap DEF Unmatched, ForeignOf
  <2>4. ForeignDue(x, s, t) <=>
          u \in Tables(t) /\ f \in Unmatched(ForeignOf(t, u), ForeignOf(s, u)) /\ d = ForeignOf(t, u)[f]
    BY <2>1, Fields DEF ForeignDue
  <2> QED BY <2>2, <2>3, <2>4 DEF x
<1> QED BY <1>1, <1>2 DEF ForeignAccount

LEMMA AccountOfTables ==
  ASSUME NEW X, NEW s, NEW t, AreDue(X, s, t)
  PROVE  TableAccount(X, s, t)
<1>1. \A u, v : RenameTable(u, v) \notin X
  <2> SUFFICES ASSUME NEW u, NEW v, RenameTable(u, v) \in X PROVE FALSE
    OBVIOUS
  <2> DEFINE x == RenameTable(u, v)
  <2>1. x.change = "RenameTable" /\ x \in X
    BY Fields
  <2> HIDE DEF x
  <2>2. IsTablesChange(x, s, t)
    BY <2>1, DueOfKind DEF TableKinds
  <2> QED BY <2>1, <2>2, TablesChangeFields DEF ColumnKinds, FlagKinds
<1>2. \A u : DropTable(u) \in X <=> u \in Tables(s) \ Tables(t)
  <2> SUFFICES ASSUME NEW u PROVE DropTable(u) \in X <=> u \in Tables(s) \ Tables(t)
    OBVIOUS
  <2> DEFINE x == DropTable(u)
  <2>1. x.change = "DropTable" /\ x.table = u /\ x = DropTable(u)
    BY Fields
  <2> HIDE DEF x
  <2>2. x \in X <=> IsTablesChange(x, s, t)
    BY <2>1, DueOfKind DEF TableKinds
  <2>3. IsTablesChange(x, s, t) => u \in Tables(s) \ Tables(t)
    BY <2>1, TablesChangeFields, Fields DEF ColumnKinds, FlagKinds
  <2>4. u \in Tables(s) \ Tables(t) => IsTablesChange(x, s, t)
    BY <2>1 DEF IsTablesChange
  <2> QED BY <2>2, <2>3, <2>4 DEF x
<1>3. \A u, d : CreateTable(u, d) \in X <=> u \in Tables(t) \ Tables(s) /\ d = Bare(t.tables[u])
  <2> SUFFICES ASSUME NEW u, NEW d
               PROVE  CreateTable(u, d) \in X <=> u \in Tables(t) \ Tables(s) /\ d = Bare(t.tables[u])
    OBVIOUS
  <2> DEFINE x == CreateTable(u, d)
  <2>1. x.change = "CreateTable" /\ x.table = u /\ x.def = d /\ x = CreateTable(u, d)
    BY Fields
  <2> HIDE DEF x
  <2>2. x \in X <=> IsTablesChange(x, s, t)
    BY <2>1, DueOfKind DEF TableKinds
  <2>3. IsTablesChange(x, s, t) => u \in Tables(t) \ Tables(s) /\ d = Bare(t.tables[u])
    BY <2>1, TablesChangeFields, Fields DEF ColumnKinds, FlagKinds
  <2>4. u \in Tables(t) \ Tables(s) /\ d = Bare(t.tables[u]) => IsTablesChange(x, s, t)
    BY <2>1 DEF IsTablesChange
  <2> QED BY <2>2, <2>3, <2>4 DEF x
<1> QED BY <1>1, <1>2, <1>3 DEF TableAccount

\* The changes of the columns and the key of table u.
LEMMA DueOfTable ==
  ASSUME NEW X, NEW s, NEW t, AreDue(X, s, t), NEW x, NEW u, x.table = u,
         x.change \in ColumnKinds \cup {"SetPrimaryKey"}, NEW from, NEW to, from = s.tables[u], to = t.tables[u]
  PROVE  x \in X <=> u \in Common(s, t) /\ IsTableChange(x, u, from, to)
<1>1. x \in X <=> IsTablesChange(x, s, t)
  BY DueOfKind
<1>2. IsTablesChange(x, s, t) => u \in Common(s, t) /\ IsTableChange(x, u, from, to)
  BY TablesChangeFields DEF ColumnKinds, FlagKinds
<1>3. u \in Common(s, t) /\ IsTableChange(x, u, from, to) => IsTablesChange(x, s, t)
  BY DEF IsTablesChange
<1> QED BY <1>1, <1>2, <1>3

LEMMA TableChangeOfKind ==
  ASSUME NEW x, NEW u, NEW from, NEW to
  PROVE  /\ x.change = "AddColumn" => (IsTableChange(x, u, from, to) <=>
              \E c \in DOMAIN to.columns \ DOMAIN from.columns : x = AddColumn(u, c, to.columns[c]))
         /\ x.change \in AlterKinds => (IsTableChange(x, u, from, to) <=>
              \E c \in DOMAIN from.columns \cap DOMAIN to.columns : IsAlteration(x, u, c, from.columns[c], to.columns[c]))
         /\ x.change = "DropColumn" => (IsTableChange(x, u, from, to) <=>
              \E c \in DOMAIN from.columns \ DOMAIN to.columns : x = DropColumn(u, c))
         /\ x.change = "SetPrimaryKey" => (IsTableChange(x, u, from, to) <=>
              from.key # to.key /\ x = SetPrimaryKey(u, from.key, to.key))
         /\ x.change = "RenameColumn" => ~IsTableChange(x, u, from, to)
<1>1. \A c : IsAlteration(x, u, c, from.columns[c], to.columns[c]) => x.change \in AlterKinds
  BY Fields DEF IsAlteration, AlterKinds, FlagKinds
<1>2. \A c, d : x = AddColumn(u, c, d) => x.change = "AddColumn"
  BY Fields
<1>3. \A c : x = DropColumn(u, c) => x.change = "DropColumn"
  BY Fields
<1>4. \A p, q : x = SetPrimaryKey(u, p, q) => x.change = "SetPrimaryKey"
  BY Fields
<1>5. "AddColumn" \notin AlterKinds /\ "DropColumn" \notin AlterKinds /\ "SetPrimaryKey" \notin AlterKinds
      /\ "RenameColumn" \notin AlterKinds
  BY DEF AlterKinds, FlagKinds
<1> DEFINE A == \E c \in DOMAIN to.columns \ DOMAIN from.columns : x = AddColumn(u, c, to.columns[c])
           B == \E c \in DOMAIN from.columns \cap DOMAIN to.columns : IsAlteration(x, u, c, from.columns[c], to.columns[c])
           C == \E c \in DOMAIN from.columns \ DOMAIN to.columns : x = DropColumn(u, c)
           D == from.key # to.key /\ x = SetPrimaryKey(u, from.key, to.key)
<1>6. (A => x.change = "AddColumn") /\ (B => x.change \in AlterKinds) /\ (C => x.change = "DropColumn")
      /\ (D => x.change = "SetPrimaryKey")
  BY <1>1, <1>2, <1>3, <1>4
<1>7. IsTableChange(x, u, from, to) <=> A \/ B \/ C \/ D
  BY DEF IsTableChange
<1> HIDE DEF A, B, C, D
<1>8. /\ x.change = "AddColumn" => (IsTableChange(x, u, from, to) <=> A)
      /\ x.change \in AlterKinds => (IsTableChange(x, u, from, to) <=> B)
      /\ x.change = "DropColumn" => (IsTableChange(x, u, from, to) <=> C)
      /\ x.change = "SetPrimaryKey" => (IsTableChange(x, u, from, to) <=> D)
      /\ x.change = "RenameColumn" => ~IsTableChange(x, u, from, to)
  BY <1>5, <1>6, <1>7
<1> QED BY <1>8 DEF A, B, C, D

LEMMA ColumnsOfTables ==
  ASSUME NEW X, NEW u, NEW from, NEW to, NEW a, NEW b, a = from.columns, b = to.columns,
         \A x : x.change \in ColumnKinds /\ x.table = u => (x \in X <=> IsTableChange(x, u, from, to))
  PROVE  ColumnsDue(X, u, a, b)
<1>1. \A c, d : RenameColumn(u, c, d) \notin X
  <2> SUFFICES ASSUME NEW c, NEW d, RenameColumn(u, c, d) \in X PROVE FALSE
    OBVIOUS
  <2> DEFINE x == RenameColumn(u, c, d)
  <2>1. x.change = "RenameColumn" /\ x.table = u /\ x \in X
    BY Fields
  <2> HIDE DEF x
  <2> QED BY <2>1, TableChangeOfKind DEF ColumnKinds
<1>2. \A c, d : AddColumn(u, c, d) \in X <=> c \in DOMAIN b \ DOMAIN a /\ d = b[c]
  <2> SUFFICES ASSUME NEW c, NEW d PROVE AddColumn(u, c, d) \in X <=> c \in DOMAIN b \ DOMAIN a /\ d = b[c]
    OBVIOUS
  <2> DEFINE x == AddColumn(u, c, d)
  <2>1. x.change = "AddColumn" /\ x.table = u /\ x.name = c /\ x.column = d /\ x = AddColumn(u, c, d)
    BY Fields
  <2> HIDE DEF x
  <2>2. x \in X <=> \E e \in DOMAIN b \ DOMAIN a : x = AddColumn(u, e, b[e])
    BY <2>1, TableChangeOfKind DEF ColumnKinds
  <2> QED BY <2>1, <2>2, Fields DEF x
<1>3. \A c : DropColumn(u, c) \in X <=> c \in DOMAIN a \ DOMAIN b
  <2> SUFFICES ASSUME NEW c PROVE DropColumn(u, c) \in X <=> c \in DOMAIN a \ DOMAIN b
    OBVIOUS
  <2> DEFINE x == DropColumn(u, c)
  <2>1. x.change = "DropColumn" /\ x.table = u /\ x.name = c /\ x = DropColumn(u, c)
    BY Fields
  <2> HIDE DEF x
  <2>2. x \in X <=> \E e \in DOMAIN a \ DOMAIN b : x = DropColumn(u, e)
    BY <2>1, TableChangeOfKind DEF ColumnKinds
  <2> QED BY <2>1, <2>2, Fields DEF x
<1>4. ASSUME NEW x, x.change \in AlterKinds, x.table = u
      PROVE  x \in X <=> \E c \in DOMAIN a \cap DOMAIN b : IsAlteration(x, u, c, a[c], b[c])
  BY <1>4, TableChangeOfKind DEF AlterKinds, ColumnKinds
<1>5. \A c, p, q : AlterColumnType(u, c, p, q) \in X <=>
          c \in DOMAIN a \cap DOMAIN b /\ p = a[c].type /\ q = b[c].type /\ p # q
  <2> SUFFICES ASSUME NEW c, NEW p, NEW q
               PROVE  AlterColumnType(u, c, p, q) \in X <=>
                        c \in DOMAIN a \cap DOMAIN b /\ p = a[c].type /\ q = b[c].type /\ p # q
    OBVIOUS
  <2> DEFINE x == AlterColumnType(u, c, p, q)
  <2>1. x.change = "AlterColumnType" /\ x.table = u /\ x.name = c /\ x.from = p /\ x.to = q /\ x = AlterColumnType(u, c, p, q)
    BY Fields
  <2> HIDE DEF x
  <2>2. x \in X <=> \E e \in DOMAIN a \cap DOMAIN b : IsAlteration(x, u, e, a[e], b[e])
    BY <1>4, <2>1 DEF AlterKinds
  <2>3. \A e : IsAlteration(x, u, e, a[e], b[e]) <=> e = c /\ p = a[c].type /\ q = b[c].type /\ p # q
    BY <2>1, Fields DEF IsAlteration
  <2> QED BY <2>2, <2>3 DEF x
<1>6. \A c, q : SetNullable(u, c, q) \in X <=> c \in DOMAIN a \cap DOMAIN b /\ q = b[c].nullable /\ a[c].nullable # q
  <2> SUFFICES ASSUME NEW c, NEW q
               PROVE  SetNullable(u, c, q) \in X <=> c \in DOMAIN a \cap DOMAIN b /\ q = b[c].nullable /\ a[c].nullable # q
    OBVIOUS
  <2> DEFINE x == SetNullable(u, c, q)
  <2>1. x.change = "SetNullable" /\ x.table = u /\ x.name = c /\ x.to = q /\ x = SetNullable(u, c, q)
    BY Fields
  <2> HIDE DEF x
  <2>2. x \in X <=> \E e \in DOMAIN a \cap DOMAIN b : IsAlteration(x, u, e, a[e], b[e])
    BY <1>4, <2>1 DEF AlterKinds, FlagKinds
  <2>3. \A e : IsAlteration(x, u, e, a[e], b[e]) <=> e = c /\ q = b[c].nullable /\ a[c].nullable # q
    BY <2>1, Fields DEF IsAlteration
  <2> QED BY <2>2, <2>3 DEF x
<1>7. \A c, q : SetUnique(u, c, q) \in X <=> c \in DOMAIN a \cap DOMAIN b /\ q = b[c].unique /\ a[c].unique # q
  <2> SUFFICES ASSUME NEW c, NEW q
               PROVE  SetUnique(u, c, q) \in X <=> c \in DOMAIN a \cap DOMAIN b /\ q = b[c].unique /\ a[c].unique # q
    OBVIOUS
  <2> DEFINE x == SetUnique(u, c, q)
  <2>1. x.change = "SetUnique" /\ x.table = u /\ x.name = c /\ x.to = q /\ x = SetUnique(u, c, q)
    BY Fields
  <2> HIDE DEF x
  <2>2. x \in X <=> \E e \in DOMAIN a \cap DOMAIN b : IsAlteration(x, u, e, a[e], b[e])
    BY <1>4, <2>1 DEF AlterKinds, FlagKinds
  <2>3. \A e : IsAlteration(x, u, e, a[e], b[e]) <=> e = c /\ q = b[c].unique /\ a[c].unique # q
    BY <2>1, Fields DEF IsAlteration
  <2> QED BY <2>2, <2>3 DEF x
<1>8. \A c, q : SetAutoIncrement(u, c, q) \in X <=> c \in DOMAIN a \cap DOMAIN b /\ q = b[c].auto /\ a[c].auto # q
  <2> SUFFICES ASSUME NEW c, NEW q
               PROVE  SetAutoIncrement(u, c, q) \in X <=> c \in DOMAIN a \cap DOMAIN b /\ q = b[c].auto /\ a[c].auto # q
    OBVIOUS
  <2> DEFINE x == SetAutoIncrement(u, c, q)
  <2>1. x.change = "SetAutoIncrement" /\ x.table = u /\ x.name = c /\ x.to = q /\ x = SetAutoIncrement(u, c, q)
    BY Fields
  <2> HIDE DEF x
  <2>2. x \in X <=> \E e \in DOMAIN a \cap DOMAIN b : IsAlteration(x, u, e, a[e], b[e])
    BY <1>4, <2>1 DEF AlterKinds, FlagKinds
  <2>3. \A e : IsAlteration(x, u, e, a[e], b[e]) <=> e = c /\ q = b[c].auto /\ a[c].auto # q
    BY <2>1, Fields DEF IsAlteration
  <2> QED BY <2>2, <2>3 DEF x
<1> QED BY <1>1, <1>2, <1>3, <1>5, <1>6, <1>7, <1>8 DEF ColumnsDue

\* Without renames a change of the key expects the key as it is.
LEMMA KeyWithoutRenames ==
  ASSUME NEW X, NEW u, NEW k, NEW p, \A c, d : RenameColumn(u, c, d) \notin X, k = [i \in DOMAIN k |-> k[i]]
  PROVE  IsKeyAfter(X, u, k, p) <=> p = k
<1>1. \A c, d : Follows(X, u, c, d) <=> d = c
  BY DEF Follows
<1>2. IsKeyAfter(X, u, k, p) => p = k
  <2> SUFFICES ASSUME IsKeyAfter(X, u, k, p) PROVE p = k
    OBVIOUS
  <2>1. p = [i \in DOMAIN k |-> p[i]] /\ \A i \in DOMAIN k : p[i] = k[i]
    BY <1>1 DEF IsKeyAfter
  <2> QED BY <2>1
<1>3. p = k => IsKeyAfter(X, u, k, p)
  BY <1>1 DEF IsKeyAfter
<1> QED BY <1>2, <1>3

LEMMA DueAccount ==
  ASSUME NEW X, NEW s, NEW t, IsSchema(s), IsSchema(t), EnumsGrow(s, t), AreDue(X, s, t)
  PROVE  Account(X, s, t)
<1>1. ASSUME NEW x \in X PROVE IsChange(x)
  <2>1. IsDue(x, s, t)
    BY DEF AreDue
  <2>2. CASE EnumDue(x, s, t)
    BY <2>2, Fields DEF EnumDue, IsChange
  <2>3. CASE ForeignDue(x, s, t)
    BY <2>3, Fields DEF ForeignDue, IsChange
  <2>4. CASE IsTablesChange(x, s, t)
    <3>1. CASE \E u : x = DropTable(u)
      BY <3>1, Fields DEF IsChange
    <3>2. CASE \E u, d : x = CreateTable(u, d)
      BY <3>2, Fields DEF IsChange
    <3>3. CASE \E u \in Common(s, t) : IsTableChange(x, u, s.tables[u], t.tables[u])
      <4>1. PICK u : IsTableChange(x, u, s.tables[u], t.tables[u])
        BY <3>3
      <4> DEFINE from == s.tables[u]
                 to == t.tables[u]
      <4>2. IsTableChange(x, u, from, to)
        BY <4>1
      <4> HIDE DEF from, to
      <4>3. CASE \E c : IsAlteration(x, u, c, from.columns[c], to.columns[c])
        BY <4>3, Fields DEF IsAlteration, IsChange
      <4>4. CASE \E c, d : x = AddColumn(u, c, d)
        BY <4>4, Fields DEF IsChange
      <4>5. CASE \E c : x = DropColumn(u, c)
        BY <4>5, Fields DEF IsChange
      <4>6. CASE \E p, q : x = SetPrimaryKey(u, p, q)
        BY <4>6, Fields DEF IsChange
      <4> QED BY <4>2, <4>3, <4>4, <4>5, <4>6 DEF IsTableChange
    <3> QED BY <2>4, <3>1, <3>2, <3>3 DEF IsTablesChange
  <2> QED BY <2>1, <2>2, <2>3, <2>4 DEF IsDue
<1>2. ASSUME NEW u PROVE ColumnsDue(X, u, ColumnsOf(s, t, u), ColumnsOf(t, s, u))
  <2> DEFINE f == s.tables[u]
             g == t.tables[u]
  <2>1. CASE u \in Common(s, t)
    <3>1. ColumnsOf(s, t, u) = f.columns /\ ColumnsOf(t, s, u) = g.columns
      BY <2>1 DEF ColumnsOf, Common
    <3>2. \A x : x.change \in ColumnKinds /\ x.table = u => (x \in X <=> IsTableChange(x, u, f, g))
      BY <2>1, DueOfTable
    <3> HIDE DEF f, g
    <3> QED BY <3>1, <3>2, ColumnsOfTables
  <2>2. CASE u \notin Common(s, t)
    <3>1. ColumnsOf(s, t, u) = <<>> /\ ColumnsOf(t, s, u) = <<>> /\ DOMAIN <<>> = {}
      BY <2>2 DEF ColumnsOf, Common
    <3>2. \A x : x.change \in ColumnKinds /\ x.table = u => x \notin X
      BY <2>2, DueOfTable
    <3> QED BY <3>1, <3>2, Fields DEF ColumnsDue, ColumnKinds, FlagKinds
  <2> QED BY <2>1, <2>2
<1>3. \A u, c, d : RenameColumn(u, c, d) \notin X
  <2> SUFFICES ASSUME NEW u, NEW c, NEW d, RenameColumn(u, c, d) \in X PROVE FALSE
    OBVIOUS
  <2> DEFINE x == RenameColumn(u, c, d)
             f == s.tables[u]
             g == t.tables[u]
  <2>1. x.change = "RenameColumn" /\ x.table = u /\ x \in X
    BY Fields
  <2> HIDE DEF x
  <2>2. IsTableChange(x, u, f, g)
    BY <2>1, DueOfTable DEF ColumnKinds
  <2> HIDE DEF f, g
  <2> QED BY <2>1, <2>2, TableChangeOfKind
<1>4. ASSUME NEW u PROVE KeyDue(X, u, KeyOf(s, t, u), KeyOf(t, s, u))
  <2> DEFINE k == KeyOf(s, t, u)
             l == KeyOf(t, s, u)
  <2>1. k = [i \in DOMAIN k |-> k[i]]
    <3>1. CASE u \in Common(s, t)
      BY <3>1 DEF KeyOf, Common, IsSchema, IsTable
    <3>2. CASE u \notin Common(s, t)
      BY <3>2 DEF KeyOf
    <3> QED BY <3>1, <3>2
  <2> SUFFICES ASSUME NEW p, NEW q
               PROVE  SetPrimaryKey(u, p, q) \in X <=> IsKeyAfter(X, u, k, p) /\ q = l /\ p # q
    BY DEF KeyDue
  <2>2. IsKeyAfter(X, u, k, p) <=> p = k
    <3> HIDE DEF k
    <3> QED BY <1>3, <2>1, KeyWithoutRenames
  <2> DEFINE x == SetPrimaryKey(u, p, q)
             f == s.tables[u]
             g == t.tables[u]
  <2>3. x.change = "SetPrimaryKey" /\ x.table = u /\ x.from = p /\ x.to = q /\ x = SetPrimaryKey(u, p, q)
    BY Fields
  <2> HIDE DEF x
  <2>4. x \in X <=> u \in Common(s, t) /\ IsTableChange(x, u, f, g)
    BY <2>3, DueOfTable
  <2>5. u \in Common(s, t) => k = f.key /\ l = g.key
    BY DEF KeyOf, Common
  <2>6. u \notin Common(s, t) => k = l
    BY DEF KeyOf, Common
  <2> HIDE DEF f, g, k, l
  <2>7. IsTableChange(x, u, f, g) <=> f.key # g.key /\ x = SetPrimaryKey(u, f.key, g.key)
    BY <2>3, TableChangeOfKind
  <2>8. x = SetPrimaryKey(u, f.key, g.key) <=> p = f.key /\ q = g.key
    BY <2>3, Fields
  <2>9. x \in X <=> p = k /\ q = l /\ p # q
    BY <2>4, <2>5, <2>6, <2>7, <2>8
  <2> QED BY <2>2, <2>9 DEF x
<1> QED BY <1>1, <1>2, <1>4, AccountOfEnums, AccountOfForeign, AccountOfTables DEF Account, ColumnAccount, KeyAccount

\* Maps with the same names and values are equal.
LEMMA SameMaps ==
  ASSUME NEW m, NEW n, IsMap(m), IsMap(n), DOMAIN m = DOMAIN n, \A x \in DOMAIN m : m[x] = n[x]
  PROVE  m = n
BY DEF IsMap

\* When nothing is left to change, the schema is the target.
LEMMA NothingLeft ==
  ASSUME NEW s, NEW t, NEW X, X = {}, Good(X, s, t)
  PROVE  s = t
<1>1. IsSchema(s) /\ IsSchema(t) /\ EnumAccount(X, s, t) /\ ForeignAccount(X, s, t)
  BY DEF Good, Valid, Account
<1>2. /\ Tables(s) = Tables(t)
      /\ \A u \in Tables(t) : s.tables[u].columns = t.tables[u].columns /\ s.tables[u].key = t.tables[u].key
  BY PastTables
<1>3. Enums(s) = Enums(t)
  BY <1>1 DEF EnumAccount
<1>4. ASSUME NEW e \in Enums(s) PROVE s.enums[e] = t.enums[e]
  <2> DEFINE from == s.enums[e]
             to == t.enums[e]
             m == Len(from)
             n == Len(to)
  <2>1. from \in Seq(ElementsOf(from)) /\ to \in Seq(ElementsOf(to))
    BY <1>1, <1>3 DEF IsSchema
  <2>2. m <= n /\ \A k \in 1..m : from[k] = to[k]
    BY <1>1, <1>3 DEF EnumAccount
  <2>3. DOMAIN to \ DOMAIN from = {}
    <3> SUFFICES ASSUME NEW k \in DOMAIN to \ DOMAIN from PROVE FALSE
      OBVIOUS
    <3>1. AddEnumVariant(e, to[k]) \in X
      BY <1>1, <1>3, ZenonT(60) DEF EnumAccount
    <3> QED BY <3>1
  <2> HIDE DEF from, to
  <2>4. m \in Nat /\ n \in Nat /\ DOMAIN from = 1..m /\ DOMAIN to = 1..n
        /\ from = [i \in 1..m |-> from[i]] /\ to = [i \in 1..n |-> to[i]]
    BY <2>1
  <2>5. m = n
    <3> SUFFICES ASSUME m # n PROVE FALSE
      OBVIOUS
    <3> HIDE DEF m, n
    <3>1. n \in DOMAIN to /\ n \notin DOMAIN from
      BY <2>2, <2>4
    <3> QED BY <2>3, <3>1
  <2>6. from = to
    <3> HIDE DEF m, n
    <3> QED BY <2>2, <2>4, <2>5
  <2> QED BY <2>6 DEF from, to
<1>5. ASSUME NEW u \in Tables(s) PROVE s.tables[u] = t.tables[u]
  <2> DEFINE d == s.tables[u]
             e == t.tables[u]
  <2>1. IsTable(d) /\ IsTable(e)
    BY <1>1, <1>2 DEF IsSchema
  <2>2. ForeignOf(s, u) = d.foreign /\ ForeignOf(t, u) = e.foreign
    BY <1>2 DEF ForeignOf
  <2>3. Unmatched(d.foreign, e.foreign) = {} /\ Unmatched(e.foreign, d.foreign) = {}
    BY <1>1, <2>2 DEF ForeignAccount
  <2>4. d.columns = e.columns /\ d.key = e.key
    BY <1>2
  <2> HIDE DEF d, e
  <2>5. d.foreign = e.foreign
    <3>1. DOMAIN d.foreign = DOMAIN e.foreign /\ \A f \in DOMAIN d.foreign : d.foreign[f] = e.foreign[f]
      BY <2>3 DEF Unmatched
    <3>2. IsMap(d.foreign) /\ IsMap(e.foreign)
      BY <2>1 DEF IsTable
    <3> DEFINE F == d.foreign
               G == e.foreign
    <3>3. IsMap(F) /\ IsMap(G) /\ DOMAIN F = DOMAIN G /\ \A f \in DOMAIN F : F[f] = G[f]
      BY <3>1, <3>2
    <3> HIDE DEF F, G
    <3>4. F = G
      BY <3>3, SameMaps
    <3> QED BY <3>4 DEF F, G
  <2>6. d = [columns |-> d.columns, key |-> d.key, foreign |-> d.foreign]
        /\ e = [columns |-> e.columns, key |-> e.key, foreign |-> e.foreign]
    BY <2>1 DEF IsTable
  <2>7. d = e
    BY <2>4, <2>5, <2>6
  <2> QED BY <2>7 DEF d, e
<1>6. s.tables = t.tables
  <2> DEFINE m == s.tables
             n == t.tables
  <2>1. IsMap(m) /\ IsMap(n) /\ DOMAIN m = DOMAIN n /\ \A x \in DOMAIN m : m[x] = n[x]
    BY <1>1, <1>2, <1>5 DEF IsSchema, Tables
  <2> HIDE DEF m, n
  <2>2. m = n
    BY <2>1, SameMaps
  <2> QED BY <2>2 DEF m, n
<1>7. s.enums = t.enums
  <2> DEFINE m == s.enums
             n == t.enums
  <2>1. IsMap(m) /\ IsMap(n) /\ DOMAIN m = DOMAIN n /\ \A x \in DOMAIN m : m[x] = n[x]
    BY <1>1, <1>3, <1>4 DEF IsSchema, Enums
  <2> HIDE DEF m, n
  <2>2. m = n
    BY <2>1, SameMaps
  <2> QED BY <2>2 DEF m, n
<1>8. s = [tables |-> s.tables, enums |-> s.enums] /\ t = [tables |-> t.tables, enums |-> t.enums]
  BY <1>1 DEF IsSchema
<1> QED BY <1>6, <1>7, <1>8

\* `diff' finds nothing between a schema and itself.
LEMMA NothingBetween ==
  ASSUME NEW t, NEW x
  PROVE  ~IsDue(x, t, t)
<1>1. ~EnumDue(x, t, t)
  BY DEF EnumDue
<1>2. \A u : Unmatched(ForeignOf(t, u), ForeignOf(t, u)) = {}
  BY DEF Unmatched
<1>3. ~ForeignDue(x, t, t)
  BY <1>2 DEF ForeignDue
<1>4. ~IsTablesChange(x, t, t)
  <2> SUFFICES ASSUME NEW u, IsTableChange(x, u, t.tables[u], t.tables[u]) PROVE FALSE
    BY DEF IsTablesChange
  <2> DEFINE d == t.tables[u]
  <2>1. IsTableChange(x, u, d, d)
    OBVIOUS
  <2> HIDE DEF d
  <2>2. \A c : ~IsAlteration(x, u, c, d.columns[c], d.columns[c])
    BY DEF IsAlteration
  <2> QED BY <2>1, <2>2 DEF IsTableChange
<1> QED BY <1>1, <1>3, <1>4 DEF IsDue

LEMMA GrowthAccounted ==
  ASSUME NEW X, NEW s, NEW t, Good(X, s, t)
  PROVE  EnumsGrow(s, t)
<1> SUFFICES ASSUME NEW e \in Enums(s) \cap Enums(t) PROVE IsPrefix(s.enums[e], t.enums[e])
  BY DEF EnumsGrow
<1> DEFINE from == s.enums[e]
           to == t.enums[e]
           m == Len(from)
           n == Len(to)
<1>1. from \in Seq(ElementsOf(from)) /\ to \in Seq(ElementsOf(to))
  BY DEF Good, Valid, IsSchema
<1>2. m <= n /\ \A k \in 1..m : from[k] = to[k]
  BY DEF Good, Account, EnumAccount
<1> HIDE DEF from, to
<1>3. m \in Nat /\ n \in Nat
  BY <1>1
<1>4. SubSeq(from, 1, m) = [i \in 1..m |-> from[i]]
  BY <1>1
<1>5. SubSeq(to, 1, m) = [i \in 1..m |-> to[i]]
  BY <1>1, <1>2, <1>3
<1>6. SubSeq(from, 1, m) = SubSeq(to, 1, m)
  BY <1>2, <1>4, <1>5
<1>7. IsPrefix(from, to)
  BY <1>2, <1>6 DEF IsPrefix
<1> QED BY <1>7 DEF from, to

-----------------------------------------------------------------------------
\* What comes first in a list that is in its order, and what is left of it.
LEMMA FirstOfList ==
  ASSUME NEW p, NEW t, NEW h, NEW q, p # <<>>, IsList(p), Arranged(p, t), h = Head(p), q = Tail(p)
  PROVE  First(h, Range(p), t) /\ Range(q) = Range(p) \ {h} /\ IsList(q) /\ Arranged(q, t)
<1> DEFINE S == Range(p)
           n == Len(p)
<1>1. p \in Seq(S) /\ n \in Nat /\ DOMAIN p = 1..n
  BY DEF IsList
<1>2. n >= 1 /\ h = p[1] /\ q \in Seq(S) /\ Len(q) = n - 1 /\ DOMAIN q = 1..(n - 1)
      /\ \A i \in 1..(n - 1) : q[i] = p[i + 1]
  <2> HIDE DEF S
  <2>1. n # 0
    BY <1>1
  <2> QED BY <1>1, <2>1
<1>3. \A x \in S : x = h \/ \E i \in 1..(n - 1) : x = q[i] /\ x = p[i + 1]
  <2> SUFFICES ASSUME NEW x \in S, x # h PROVE \E i \in 1..(n - 1) : x = q[i] /\ x = p[i + 1]
    OBVIOUS
  <2>1. PICK i \in 1..n : x = p[i]
    BY <1>1 DEF Range
  <2>2. i # 1
    BY <1>2, <2>1
  <2>3. i - 1 \in 1..(n - 1) /\ (i - 1) + 1 = i
    BY <1>1, <2>2
  <2>4. x = q[i - 1]
    BY <1>2, <2>1, <2>3
  <2> QED BY <2>1, <2>3, <2>4
<1>4. h \in S /\ \A i \in 1..(n - 1) : p[i + 1] \in S
  <2>1. 1 \in DOMAIN p /\ \A i \in 1..(n - 1) : i + 1 \in DOMAIN p
    BY <1>1, <1>2
  <2> QED BY <1>2, <2>1 DEF Range
<1>5. \A i \in 1..(n - 1) : Before(h, p[i + 1], t)
  <2> SUFFICES ASSUME NEW i \in 1..(n - 1) PROVE Before(h, p[i + 1], t)
    OBVIOUS
  <2>1. 1 \in DOMAIN p /\ i + 1 \in DOMAIN p /\ 1 < i + 1
    BY <1>1, <1>2
  <2> QED BY <1>2, <2>1 DEF Arranged
<1>6. First(h, S, t)
  BY <1>3, <1>4, <1>5 DEF First
<1>7. \A i \in 1..(n - 1) : q[i] # h
  BY <1>2, <1>5 DEF Before
<1>8. Range(q) = S \ {h}
  <2>1. \A x : x \in Range(q) <=> \E i \in 1..(n - 1) : x = q[i]
    BY <1>2 DEF Range
  <2> HIDE DEF S
  <2>2. \A x \in Range(q) : x \in S /\ x # h
    BY <1>2, <1>4, <1>7, <2>1
  <2>3. \A x \in S : x # h => x \in Range(q)
    BY <1>3, <2>1
  <2> QED BY <2>2, <2>3
<1>9. Arranged(q, t)
  <2> SUFFICES ASSUME NEW i \in DOMAIN q, NEW j \in DOMAIN q, i < j PROVE Before(q[i], q[j], t)
    BY DEF Arranged
  <2>1. i + 1 \in DOMAIN p /\ j + 1 \in DOMAIN p /\ i + 1 < j + 1
    BY <1>1, <1>2
  <2>2. Before(p[i + 1], p[j + 1], t)
    BY <2>1 DEF Arranged
  <2> QED BY <1>2, <2>2
<1>10. IsList(q)
  <2> HIDE DEF S
  <2> QED BY <1>2, ListOver
<1> QED BY <1>6, <1>8, <1>9, <1>10

LEMMA EmptyRange ==
  ASSUME NEW p, IsList(p)
  PROVE  Range(p) = {} <=> p = <<>>
<1>1. p = <<>> => Range(p) = {}
  BY EmptyList
<1>2. ASSUME p # <<>> PROVE Range(p) # {}
  <2>1. 1 \in DOMAIN p
    <3> DEFINE S == Range(p)
    <3>1. p \in Seq(S)
      BY DEF IsList
    <3> HIDE DEF S
    <3> QED BY <1>2, <3>1
  <2> QED BY <2>1 DEF Range
<1> QED BY <1>1, <1>2

-----------------------------------------------------------------------------
(* Confirming a rename.                                                    *)

LEMMA RemovedAt ==
  ASSUME NEW S, NEW s \in Seq(S), NEW n, n = Len(s), NEW k \in 1..n, NEW r, r = RemoveAt(s, k)
  PROVE  r \in Seq(S) /\ Len(r) = n - 1 /\ \A j \in 1..(n - 1) : r[j] = s[IF j < k THEN j ELSE j + 1]
<1> DEFINE a == SubSeq(s, 1, k - 1)
           b == SubSeq(s, k + 1, n)
<1>1. n \in Nat /\ k \in Nat /\ 1 <= k /\ k <= n /\ DOMAIN s = 1..n
  OBVIOUS
<1>2. a \in Seq(S) /\ Len(a) = k - 1 /\ \A j \in 1..(k - 1) : a[j] = s[j]
  <2>1. k - 1 \in Nat /\ k - 1 <= n
    BY <1>1
  <2> DEFINE m == k - 1
  <2>2. m \in Nat /\ m <= Len(s)
    BY <2>1
  <2> HIDE DEF m
  <2>3. SubSeq(s, 1, m) = [i \in 1..m |-> s[i]] /\ SubSeq(s, 1, m) \in Seq(S)
    BY <2>2
  <2> QED BY <2>2, <2>3 DEF m
<1>3. b \in Seq(S) /\ Len(b) = n - k /\ \A j \in 1..(n - k) : b[j] = s[k + j]
  <2>1. b = [i \in 1..(n - k) |-> s[k + i]]
    BY <1>1
  <2>2. \A i \in 1..(n - k) : s[k + i] \in S
    BY <1>1
  <2> HIDE DEF b
  <2>3. b \in [1..(n - k) -> S] /\ n - k \in Nat
    BY <1>1, <2>1, <2>2
  <2> QED BY <2>1, <2>3, IsSequence
<1>4. r = a \o b
  BY DEF RemoveAt
<1> HIDE DEF a, b
<1>5. r \in Seq(S) /\ Len(r) = n - 1
  <2>1. r \in Seq(S) /\ Len(r) = Len(a) + Len(b)
    <3>1. a \in Seq(S) /\ b \in Seq(S)
      BY <1>2, <1>3
    <3>2. a \o b \in Seq(S) /\ Len(a \o b) = Len(a) + Len(b)
      BY <3>1, JoinedRange
    <3> QED BY <1>4, <3>2
  <2>2. (k - 1) + (n - k) = n - 1
    BY <1>1
  <2> QED BY <1>2, <1>3, <2>1, <2>2
<1>6. ASSUME NEW j \in 1..(n - 1) PROVE r[j] = s[IF j < k THEN j ELSE j + 1]
  <2>1. CASE j < k
    <3>1. j \in 1..(k - 1)
      BY <1>1, <2>1
    <3>2. r[j] = a[j]
      BY <1>1, <1>2, <1>3, <1>4, <3>1
    <3> QED BY <1>2, <2>1, <3>1, <3>2
  <2>2. CASE ~(j < k)
    <3>1. j - (k - 1) \in 1..(n - k) /\ k + (j - (k - 1)) = j + 1
      BY <1>1, <2>2
    <3>2. r[j] = b[j - (k - 1)]
      BY <1>1, <1>2, <1>3, <1>4, <2>2
    <3> QED BY <1>3, <2>2, <3>1, <3>2
  <2> QED BY <2>1, <2>2
<1> QED BY <1>5, <1>6

\* What takes the place of x and y, whichever comes first.
Replaces(Y, X, x, y, z) == \A w : w \in Y <=> (w \in X /\ w # x /\ w # y) \/ w = z

LEMMA PairRewritten ==
  ASSUME NEW p, NEW t, IsList(p), Arranged(p, t), NEW i \in DOMAIN p, NEW k \in DOMAIN p,
         NEW x, NEW y, NEW z, x = p[i], y = p[k], x # y, z \notin Range(p),
         \A w \in Range(p) : Before(w, x, t) /\ Before(w, y, t) => Before(w, z, t),
         \A w \in Range(p) : Before(x, w, t) \/ Before(y, w, t) => Before(z, w, t),
         NEW r, r = RewritePair(p, i, k, z)
  PROVE  IsList(r) /\ Arranged(r, t) /\ Replaces(Range(r), Range(p), x, y, z)
<1> DEFINE S == Range(p) \cup {z}
           n == Len(p)
           a == IF i < k THEN i ELSE k
           b == IF i < k THEN k ELSE i
           q == [p EXCEPT ![a] = z]
           at == [j \in 1..(n - 1) |-> IF j < b THEN j ELSE j + 1]
<1>1. p \in Seq(S) /\ n \in Nat /\ DOMAIN p = 1..n
  BY ListIn
<1>2. i \in 1..n /\ k \in 1..n /\ i # k
  BY <1>1
<1>3. a \in 1..n /\ b \in 1..n /\ a < b /\ {a, b} = {i, k}
  BY <1>1, <1>2
<1>4. r = RemoveAt(q, b)
  BY DEF RewritePair, ReplaceAt
<1>5. /\ z \in S /\ Range(p) \subseteq S /\ \A w \in S : w \in Range(p) \/ w = z
  OBVIOUS
<1> HIDE DEF a, b, S, q
<1>6. q \in Seq(S) /\ DOMAIN q = 1..n /\ Len(q) = n /\ q[a] = z /\ \A j \in 1..n : j # a => q[j] = p[j]
  BY <1>1, <1>3, <1>5, SlotSet DEF q
<1> HIDE DEF n
<1>7. r \in Seq(S) /\ Len(r) = n - 1 /\ \A j \in 1..(n - 1) : r[j] = q[IF j < b THEN j ELSE j + 1]
  BY <1>3, <1>4, <1>6, RemovedAt
<1>8. DOMAIN r = 1..(n - 1) /\ \A j \in 1..(n - 1) : at[j] \in 1..n /\ at[j] # b /\ r[j] = q[at[j]]
  BY <1>1, <1>3, <1>7
<1>9. \A j, l \in 1..(n - 1) : j < l => at[j] < at[l]
  BY <1>1, <1>3
<1>10. \A m \in 1..n : m # b => \E j \in 1..(n - 1) : at[j] = m
  <2> SUFFICES ASSUME NEW m \in 1..n, m # b PROVE \E j \in 1..(n - 1) : at[j] = m
    OBVIOUS
  <2>1. CASE m < b
    <3>1. m \in 1..(n - 1) /\ at[m] = m
      BY <1>1, <1>3, <2>1
    <3> QED BY <3>1
  <2>2. CASE m > b
    <3>1. m - 1 \in 1..(n - 1) /\ at[m - 1] = m
      BY <1>1, <1>3, <2>2
    <3> QED BY <3>1
  <2> QED BY <1>1, <1>3, <2>1, <2>2
<1> HIDE DEF at
<1>11. {p[a], p[b]} = {x, y} /\ p[a] \in Range(p) /\ p[b] \in Range(p)
  <2>1. (a = i /\ b = k) \/ (a = k /\ b = i)
    BY DEF a, b
  <2> QED BY <1>1, <1>3, <2>1 DEF Range
<1>12. \A j, l \in 1..n : p[j] = p[l] => j = l
  <2> SUFFICES ASSUME NEW j \in 1..n, NEW l \in 1..n, j # l PROVE p[j] # p[l]
    OBVIOUS
  <2>1. j < l \/ l < j
    OBVIOUS
  <2> QED BY <1>1, <2>1 DEF Arranged, Before
<1>13. ASSUME NEW w PROVE w \in Range(r) <=> (w \in Range(p) /\ w # x /\ w # y) \/ w = z
  <2>1. w \in Range(r) <=> \E m \in 1..n : m # b /\ w = q[m]
    <3>1. w \in Range(r) <=> \E j \in 1..(n - 1) : w = r[j]
      BY <1>8 DEF Range
    <3>2. (\E j \in 1..(n - 1) : w = r[j]) => \E m \in 1..n : m # b /\ w = q[m]
      BY <1>8
    <3>3. (\E m \in 1..n : m # b /\ w = q[m]) => \E j \in 1..(n - 1) : w = r[j]
      BY <1>8, <1>10
    <3> QED BY <3>1, <3>2, <3>3
  <2>2. (\E m \in 1..n : m # b /\ w = q[m]) <=> w = z \/ \E m \in 1..n : m # a /\ m # b /\ w = p[m]
    BY <1>3, <1>6
  <2>3. (\E m \in 1..n : m # a /\ m # b /\ w = p[m]) <=> w \in Range(p) /\ w # p[a] /\ w # p[b]
    <3>1. w \in Range(p) <=> \E m \in 1..n : w = p[m]
      BY <1>1 DEF Range
    <3> QED BY <1>3, <1>12, <3>1
  <2>4. w # p[a] /\ w # p[b] <=> w # x /\ w # y
    BY <1>11
  <2> QED BY <2>1, <2>2, <2>3, <2>4
<1>14. ASSUME NEW j \in 1..n, NEW l \in 1..n, j < l, j # b, l # b PROVE Before(q[j], q[l], t)
  <2>1. \A m, o \in 1..n : m < o => Before(p[m], p[o], t)
    BY <1>1 DEF Arranged
  <2>2. p[j] \in Range(p) /\ p[l] \in Range(p)
    BY <1>1 DEF Range
  <2>3. CASE j # a /\ l # a
    BY <1>6, <1>14, <2>1, <2>3
  <2>4. CASE l = a
    <3>1. Before(p[j], p[a], t) /\ Before(p[j], p[b], t)
      BY <1>3, <1>14, <2>1, <2>4
    <3>2. Before(p[j], x, t) /\ Before(p[j], y, t)
      BY <1>11, <3>1
    <3>3. Before(p[j], z, t)
      BY <2>2, <3>2
    <3>4. q[j] = p[j] /\ q[l] = z
      BY <1>6, <1>14, <2>4
    <3> QED BY <3>3, <3>4
  <2>5. CASE j = a
    <3>1. Before(p[a], p[l], t)
      BY <1>14, <2>1, <2>5
    <3>2. Before(x, p[l], t) \/ Before(y, p[l], t)
      BY <1>11, <3>1
    <3>3. Before(z, p[l], t)
      BY <2>2, <3>2
    <3>4. q[j] = z /\ q[l] = p[l]
      BY <1>6, <1>14, <2>5
    <3> QED BY <3>3, <3>4
  <2> QED BY <2>3, <2>4, <2>5
<1>15. Arranged(r, t)
  <2> SUFFICES ASSUME NEW j \in 1..(n - 1), NEW l \in 1..(n - 1), j < l PROVE Before(r[j], r[l], t)
    BY <1>8 DEF Arranged
  <2> QED BY <1>8, <1>9, <1>14
<1>16. IsList(r)
  BY <1>7, ListOver
<1> QED BY <1>13, <1>15, <1>16 DEF Replaces

-----------------------------------------------------------------------------
\* A key with one name for another.
Renamed(k, c, d) == [i \in DOMAIN k |-> IF k[i] = c THEN d ELSE k[i]]

IsKeyChange(x, u) == x.change = "SetPrimaryKey" /\ x.table = u

IsRekeyed(Y, X, u, c, d) ==
  \A y : y \in Y <=>
    \/ y \in X /\ ~IsKeyChange(y, u)
    \/ \E x \in X : /\ IsKeyChange(x, u) /\ Renamed(x.from, c, d) # x.to
                    /\ y = SetPrimaryKey(u, Renamed(x.from, c, d), x.to)

LEMMA RekeyedList ==
  ASSUME NEW p, NEW t, IsList(p), Arranged(p, t), NEW u, NEW c, NEW d, \A x \in Range(p) : IsChange(x),
         \A x, y \in Range(p) : IsKeyChange(x, u) /\ IsKeyChange(y, u) => x = y,
         NEW r, r = Rekeyed(p, u, c, d)
  PROVE  IsList(r) /\ Arranged(r, t) /\ IsRekeyed(Range(r), Range(p), u, c, d)
<1> DEFINE S == Range(p)
           n == Len(p)
           re(x) == IF IsKeyChange(x, u)
                    THEN [x EXCEPT !.from = [i \in DOMAIN x.from |-> IF x.from[i] = c THEN d ELSE x.from[i]]]
                    ELSE x
           gone(x) == IsKeyChange(x, u) /\ x.from = x.to
           g == [x \in S |-> re(x)]
           h == [x \in S |-> ~gone(re(x))]
           ss == [i \in 1..n |-> When(h[p[i]], g[p[i]])]
<1>1. n \in Nat /\ DOMAIN p = 1..n /\ \A i \in 1..n : p[i] \in S
  <2>1. p \in Seq(S)
    BY DEF IsList
  <2> HIDE DEF S
  <2> QED BY <2>1
<1>2. r = FlattenSeq(ss)
  <2>1. r = FlattenSeq([i \in 1..n |-> When(~gone(re(p[i])), re(p[i]))])
    BY DEF Rekeyed, IsKeyChange
  <2>2. ss = [i \in 1..n |-> When(~gone(re(p[i])), re(p[i]))]
    <3>1. \A i \in 1..n : h[p[i]] = ~gone(re(p[i])) /\ g[p[i]] = re(p[i])
      <4> HIDE DEF S, gone, re
      <4> QED BY <1>1
    <3> HIDE DEF g, h, gone, re
    <3> QED BY <3>1
  <2> QED BY <2>1, <2>2
<1>3. ASSUME NEW x \in S, ~IsKeyChange(x, u) PROVE g[x] = x /\ h[x] = TRUE
  BY <1>3
<1>4. ASSUME NEW x \in S, IsKeyChange(x, u)
      PROVE  /\ g[x] = SetPrimaryKey(u, Renamed(x.from, c, d), x.to)
             /\ h[x] <=> Renamed(x.from, c, d) # x.to
  <2>1. x = SetPrimaryKey(u, x.from, x.to)
    BY <1>4, Fields DEF IsChange, IsKeyChange
  <2> DEFINE k == x.from
             l == x.to
             m == Renamed(k, c, d)
  <2>2. x = [change |-> "SetPrimaryKey", table |-> u, from |-> k, to |-> l]
    BY <2>1 DEF SetPrimaryKey
  <2>3. g[x] = [x EXCEPT !.from = m]
    BY <1>4 DEF Renamed
  <2> HIDE DEF k, l, m
  <2>4. [x EXCEPT !.from = m] = [change |-> "SetPrimaryKey", table |-> u, from |-> m, to |-> l]
    BY <2>2
  <2>7. h[x] <=> ~(IsKeyChange(g[x], u) /\ g[x].from = g[x].to)
    OBVIOUS
  <2> HIDE DEF g, h
  <2>5. g[x] = SetPrimaryKey(u, m, l)
    BY <2>3, <2>4 DEF SetPrimaryKey
  <2>6. IsKeyChange(g[x], u) /\ g[x].from = m /\ g[x].to = l
    BY <2>5, Fields DEF IsKeyChange
  <2>8. h[x] <=> m # l
    BY <2>6, <2>7
  <2> QED BY <2>5, <2>8 DEF k, l, m
<1>5. \A x \in S : h[x] \in BOOLEAN
  OBVIOUS
<1>6. DOMAIN ss = 1..n /\ ss = [i \in 1..n |-> ss[i]] /\ \A i \in 1..n : ss[i] = When(h[p[i]], g[p[i]])
  OBVIOUS
<1> HIDE DEF g, h, ss, n
<1>7. ASSUME NEW i \in 1..n
      PROVE  /\ IsList(ss[i]) /\ Arranged(ss[i], t)
             /\ \A y : y \in Range(ss[i]) <=> h[p[i]] /\ y = g[p[i]]
  <2> DEFINE b == h[p[i]]
             x == g[p[i]]
             l == ss[i]
  <2>1. b \in BOOLEAN /\ l = When(b, x)
    BY <1>1, <1>5, <1>6
  <2> HIDE DEF b, x, l
  <2>2. IsList(l) /\ (\A y : y \in Range(l) <=> b /\ y = x) /\ Arranged(l, t)
    BY <2>1, WhenList
  <2> QED BY <2>2 DEF b, x, l
<1>8. ASSUME NEW x \in S, NEW y \in S, Before(x, y, t) PROVE Before(g[x], g[y], t)
  <2>1. \A z \in S : g[z].change = z.change /\ g[z].table = z.table /\ (g[z] = z \/ IsKeyChange(z, u))
    <3> SUFFICES ASSUME NEW z \in S
                 PROVE  g[z].change = z.change /\ g[z].table = z.table /\ (g[z] = z \/ IsKeyChange(z, u))
      OBVIOUS
    <3>1. CASE IsKeyChange(z, u)
      <4> DEFINE k == Renamed(z.from, c, d)
                 l == z.to
      <4>1. g[z] = SetPrimaryKey(u, k, l)
        BY <1>4, <3>1
      <4> HIDE DEF k, l
      <4>2. g[z].change = "SetPrimaryKey" /\ g[z].table = u
        BY <4>1, Fields
      <4> QED BY <3>1, <4>2 DEF IsKeyChange
    <3>2. CASE ~IsKeyChange(z, u)
      BY <1>3, <3>2
    <3> QED BY <3>1, <3>2
  <2>2. \A z \in S : g[z].change = z.change /\ g[z].table = z.table /\ Phase(g[z]) = Phase(z)
    BY <2>1 DEF Phase
  <2>3. g[x] # g[y]
    <3>1. CASE IsKeyChange(x, u) /\ IsKeyChange(y, u)
      BY <1>8, <3>1 DEF Before
    <3>2. CASE ~IsKeyChange(x, u) /\ ~IsKeyChange(y, u)
      BY <1>3, <1>8, <3>2 DEF Before
    <3>3. CASE IsKeyChange(x, u) # IsKeyChange(y, u)
      BY <2>2, <3>3 DEF IsKeyChange
    <3> QED BY <3>1, <3>2, <3>3 DEF IsKeyChange
  <2>4. x.change = "AddEnumVariant" => g[x] = x
    BY <2>1 DEF IsKeyChange
  <2>5. y.change = "AddEnumVariant" => g[y] = y
    BY <2>1 DEF IsKeyChange
  <2> DEFINE v == g[x]
             w == g[y]
  <2>6. /\ v # w /\ v.change = x.change /\ v.table = x.table /\ Phase(v) = Phase(x)
        /\ w.change = y.change /\ w.table = y.table /\ Phase(w) = Phase(y)
        /\ x.change = "AddEnumVariant" => v = x
        /\ y.change = "AddEnumVariant" => w = y
    BY <2>2, <2>3, <2>4, <2>5
  <2> HIDE DEF v, w
  <2>7. Before(v, w, t)
    BY <1>8, <2>6 DEF Before
  <2> QED BY <2>7 DEF v, w
<1>9. ASSUME NEW i \in 1..n, NEW j \in 1..n, i < j PROVE Precedes(ss[i], ss[j], t)
  <2>1. Before(p[i], p[j], t)
    BY <1>1, <1>9 DEF Arranged
  <2>2. Before(g[p[i]], g[p[j]], t)
    BY <1>1, <1>8, <2>1
  <2>3. (\A y \in Range(ss[i]) : y = g[p[i]]) /\ (\A y \in Range(ss[j]) : y = g[p[j]])
    BY <1>7
  <2> QED BY <2>2, <2>3 DEF Precedes
<1>10. IsList(r) /\ Arranged(r, t) /\ Gathers(r, ss, n)
  BY <1>1, <1>2, <1>6, <1>7, <1>9, FlatList
<1>11. ASSUME NEW y
       PROVE  y \in Range(r) <=>
                \/ y \in S /\ ~IsKeyChange(y, u)
                \/ \E x \in S : /\ IsKeyChange(x, u) /\ Renamed(x.from, c, d) # x.to
                                /\ y = SetPrimaryKey(u, Renamed(x.from, c, d), x.to)
  <2>1. y \in Range(r) <=> \E i \in 1..n : h[p[i]] /\ y = g[p[i]]
    BY <1>7, <1>10 DEF Gathers
  <2>2. (\E i \in 1..n : h[p[i]] /\ y = g[p[i]]) <=> \E x \in S : h[x] /\ y = g[x]
    <3>1. \A x : x \in S <=> \E i \in 1..n : x = p[i]
      BY <1>1 DEF Range
    <3> HIDE DEF S
    <3> QED BY <3>1
  <2>3. \A x \in S : (h[x] /\ y = g[x]) <=>
          \/ ~IsKeyChange(x, u) /\ y = x
          \/ /\ IsKeyChange(x, u) /\ Renamed(x.from, c, d) # x.to
             /\ y = SetPrimaryKey(u, Renamed(x.from, c, d), x.to)
    <3> HIDE DEF S
    <3> SUFFICES ASSUME NEW x \in S
                 PROVE  (h[x] /\ y = g[x]) <=>
                          \/ ~IsKeyChange(x, u) /\ y = x
                          \/ /\ IsKeyChange(x, u) /\ Renamed(x.from, c, d) # x.to
                             /\ y = SetPrimaryKey(u, Renamed(x.from, c, d), x.to)
      OBVIOUS
    <3>1. CASE IsKeyChange(x, u)
      BY <1>4, <3>1
    <3>2. CASE ~IsKeyChange(x, u)
      BY <1>3, <3>2
    <3> QED BY <3>1, <3>2
  <2> HIDE DEF S
  <2> QED BY <2>1, <2>2, <2>3
<1> QED BY <1>10, <1>11 DEF IsRekeyed

\* A table renamed instead of dropped and created.
LEMMA TableRenameKept ==
  ASSUME NEW X, NEW Y, NEW s, NEW t, Good(X, s, t), NEW u, NEW v, NEW d, NEW x, NEW y, NEW z,
         x \in X, y \in X, x = DropTable(u), y = CreateTable(v, d), z = RenameTable(u, v), Replaces(Y, X, x, y, z),
         s.tables[u].columns = t.tables[v].columns, s.tables[u].key = t.tables[v].key
  PROVE  Good(Y, s, t)
<1>1. /\ x.change = "DropTable" /\ x.table = u
      /\ y.change = "CreateTable" /\ y.table = v /\ y.def = d
      /\ z.change = "RenameTable" /\ z.table = u /\ z.to = v
  BY Fields
<1>2. \A w : w \in Y <=> (w \in X /\ w # x /\ w # y) \/ w = z
  BY DEF Replaces
<1>3. \A w : w.change \notin TableKinds => (w \in X <=> w \in Y)
  BY <1>1, <1>2 DEF TableKinds
<1>4. EnumAccount(Y, s, t)
  BY <1>3, EnumFrame DEF Good, Account, EnumChangeKinds, TableKinds
<1>5. ForeignAccount(Y, s, t)
  BY <1>3, ForeignFrame DEF Good, Account, ForeignKinds, TableKinds
<1>6. ASSUME NEW w PROVE ColumnsDue(Y, w, ColumnsOf(s, t, w), ColumnsOf(t, s, w))
  <2>1. ColumnsDue(X, w, ColumnsOf(s, t, w), ColumnsOf(t, s, w))
    BY DEF Good, Account, ColumnAccount
  <2>2. \A e : e.change \in ColumnKinds /\ e.table = w => (e \in X <=> e \in Y)
    BY <1>3 DEF ColumnKinds, FlagKinds, TableKinds
  <2> QED BY <2>1, <2>2, ColumnFrame
<1>7. ASSUME NEW w PROVE KeyDue(Y, w, KeyOf(s, t, w), KeyOf(t, s, w))
  <2>1. KeyDue(X, w, KeyOf(s, t, w), KeyOf(t, s, w))
    BY DEF Good, Account, KeyAccount
  <2>2. \A e : e.change \in {"SetPrimaryKey", "RenameColumn"} /\ e.table = w => (e \in X <=> e \in Y)
    BY <1>3 DEF TableKinds
  <2> QED BY <2>1, <2>2, KeyFrame
<1>8. TableAccount(X, s, t)
  BY DEF Good, Account
<1>9. /\ u \in Tables(s) \ Tables(t) /\ \A w : RenameTable(u, w) \notin X
      /\ v \in Tables(t) \ Tables(s) /\ \A w : RenameTable(w, v) \notin X
      /\ d = Bare(t.tables[v])
  BY <1>8 DEF TableAccount
<1>10. \A e, w : RenameTable(e, w) \in Y <=> RenameTable(e, w) \in X \/ (e = u /\ w = v)
  BY <1>1, <1>2, Fields
<1>11. \A e : DropTable(e) \in Y <=> DropTable(e) \in X /\ e # u
  BY <1>1, <1>2, Fields
<1>12. \A e, g : CreateTable(e, g) \in Y <=> CreateTable(e, g) \in X /\ e # v
  <2>1. \A g : CreateTable(v, g) \in X => g = d
    BY <1>8, <1>9 DEF TableAccount
  <2> QED BY <1>1, <1>2, <2>1, Fields
<1>13. TableAccount(Y, s, t)
  BY <1>8, <1>9, <1>10, <1>11, <1>12 DEF TableAccount
<1>14. IsChange(z)
  BY <1>1 DEF IsChange
<1>15. \A w \in Y : IsChange(w)
  BY <1>2, <1>14 DEF Good, Account
<1> QED BY <1>4, <1>5, <1>6, <1>7, <1>13, <1>15 DEF Good, Account, ColumnAccount, KeyAccount

LEMMA RekeyedOthers ==
  ASSUME NEW X, NEW W, NEW Y, NEW u, NEW c, NEW d, IsRekeyed(Y, W, u, c, d)
  PROVE  /\ \A y : ~IsKeyChange(y, u) => (y \in Y <=> y \in W)
         /\ \A p, q : SetPrimaryKey(u, p, q) \in Y <=>
              \E x \in W : IsKeyChange(x, u) /\ x.to = q /\ Renamed(x.from, c, d) = p /\ p # q
<1>1. \A p, q : IsKeyChange(SetPrimaryKey(u, p, q), u)
  BY Fields DEF IsKeyChange
<1>2. \A y : ~IsKeyChange(y, u) => (y \in Y <=> y \in W)
  BY <1>1 DEF IsRekeyed
<1>3. ASSUME NEW p, NEW q
      PROVE  SetPrimaryKey(u, p, q) \in Y <=>
               \E x \in W : IsKeyChange(x, u) /\ x.to = q /\ Renamed(x.from, c, d) = p /\ p # q
  <2> DEFINE y == SetPrimaryKey(u, p, q)
  <2>1. y.from = p /\ y.to = q /\ IsKeyChange(y, u) /\ y = SetPrimaryKey(u, p, q)
    BY Fields DEF IsKeyChange
  <2> HIDE DEF y
  <2>2. y \in Y <=> \E x \in W : /\ IsKeyChange(x, u) /\ Renamed(x.from, c, d) # x.to
                                 /\ y = SetPrimaryKey(u, Renamed(x.from, c, d), x.to)
    BY <2>1 DEF IsRekeyed
  <2>3. \A k, l : y = SetPrimaryKey(u, k, l) <=> k = p /\ l = q
    BY <2>1, Fields
  <2>4. y \in Y <=> \E x \in W : IsKeyChange(x, u) /\ x.to = q /\ Renamed(x.from, c, d) = p /\ p # q
    <3>1. ASSUME NEW x \in W
          PROVE  (Renamed(x.from, c, d) # x.to /\ y = SetPrimaryKey(u, Renamed(x.from, c, d), x.to))
                    <=> (x.to = q /\ Renamed(x.from, c, d) = p /\ p # q)
      BY <2>3
    <3> QED BY <2>2, <3>1
  <2> QED BY <2>1, <2>4
<1> QED BY <1>2, <1>3

\* The renames of table u with that of c to d among them.
AlsoRenames(Y, X, u, c, d) ==
  \A e, g : RenameColumn(u, e, g) \in Y <=> RenameColumn(u, e, g) \in X \/ (e = c /\ g = d)

\* Before and after the rename a key has its columns in the same places.
LEMMA KeyAfterRename ==
  ASSUME NEW X, NEW Y, NEW u, NEW c, NEW d, NEW k, NEW p, AlsoRenames(Y, X, u, c, d),
         \A e : RenameColumn(u, c, e) \notin X, \A e : RenameColumn(u, e, c) \notin X
  PROVE  IsKeyAfter(X, u, k, p) => IsKeyAfter(Y, u, k, Renamed(p, c, d))
<1> SUFFICES ASSUME IsKeyAfter(X, u, k, p) PROVE IsKeyAfter(Y, u, k, Renamed(p, c, d))
  OBVIOUS
<1> DEFINE r == Renamed(p, c, d)
<1>1. DOMAIN p = DOMAIN k /\ p = [i \in DOMAIN k |-> p[i]] /\ \A i \in DOMAIN k : Follows(X, u, k[i], p[i])
  BY DEF IsKeyAfter
<1>2. r = [i \in DOMAIN k |-> r[i]] /\ \A i \in DOMAIN k : r[i] = IF p[i] = c THEN d ELSE p[i]
  BY <1>1 DEF Renamed
<1> HIDE DEF r
<1>3. ASSUME NEW i \in DOMAIN k PROVE Follows(Y, u, k[i], r[i])
  <2>1. Follows(X, u, k[i], p[i])
    BY <1>1
  <2>2. CASE k[i] = c
    <3>1. p[i] = c
      BY <2>1, <2>2 DEF Follows
    <3>2. r[i] = d
      BY <1>2, <3>1
    <3> QED BY <2>2, <3>2 DEF Follows, AlsoRenames
  <2>3. CASE k[i] # c
    <3>1. p[i] # c
      BY <2>1, <2>3 DEF Follows
    <3>2. r[i] = p[i]
      BY <1>2, <3>1
    <3> QED BY <2>1, <2>3, <3>2 DEF Follows, AlsoRenames
  <2> QED BY <2>2, <2>3
<1>4. IsKeyAfter(Y, u, k, r)
  BY <1>2, <1>3 DEF IsKeyAfter
<1> QED BY <1>4 DEF r

LEMMA KeyBeforeRename ==
  ASSUME NEW X, NEW Y, NEW u, NEW c, NEW d, NEW k, NEW r, AlsoRenames(Y, X, u, c, d), c # d,
         \A e : RenameColumn(u, c, e) \notin X, \A e : RenameColumn(u, e, c) \notin X,
         IsKeyAfter(Y, u, k, r)
  PROVE  \E p : IsKeyAfter(X, u, k, p) /\ Renamed(p, c, d) = r /\ ((\A i \in DOMAIN p : p[i] # c) => p = r)
<1> DEFINE p == [i \in DOMAIN k |-> IF k[i] = c THEN c ELSE r[i]]
<1>1. r = [i \in DOMAIN k |-> r[i]] /\ \A i \in DOMAIN k : Follows(Y, u, k[i], r[i])
  BY DEF IsKeyAfter
<1>2. DOMAIN p = DOMAIN k /\ p = [i \in DOMAIN k |-> p[i]] /\ \A i \in DOMAIN k : p[i] = IF k[i] = c THEN c ELSE r[i]
  OBVIOUS
<1> HIDE DEF p
<1>3. ASSUME NEW i \in DOMAIN k
      PROVE  Follows(X, u, k[i], p[i]) /\ (p[i] = c <=> k[i] = c) /\ (k[i] = c => r[i] = d)
  <2>1. Follows(Y, u, k[i], r[i])
    BY <1>1
  <2>2. CASE k[i] = c
    <3>1. p[i] = c
      BY <1>2, <2>2
    <3>2. RenameColumn(u, c, d) \in Y
      BY DEF AlsoRenames
    <3>3. RenameColumn(u, c, r[i]) \in Y
      BY <2>1, <2>2, <3>2 DEF Follows
    <3>4. r[i] = d
      BY <3>3 DEF AlsoRenames
    <3> QED BY <2>2, <3>1, <3>4 DEF Follows
  <2>3. CASE k[i] # c
    <3>1. p[i] = r[i]
      BY <1>2, <2>3
    <3>2. Follows(X, u, k[i], r[i])
      BY <2>1, <2>3 DEF Follows, AlsoRenames
    <3>3. r[i] # c
      BY <2>3, <3>2 DEF Follows
    <3> QED BY <2>3, <3>1, <3>2, <3>3
  <2> QED BY <2>2, <2>3
<1>4. IsKeyAfter(X, u, k, p)
  BY <1>2, <1>3 DEF IsKeyAfter
<1>5. Renamed(p, c, d) = r
  <2>1. Renamed(p, c, d) = [i \in DOMAIN k |-> IF p[i] = c THEN d ELSE p[i]]
    BY <1>2 DEF Renamed
  <2>2. \A i \in DOMAIN k : (IF p[i] = c THEN d ELSE p[i]) = r[i]
    BY <1>2, <1>3
  <2> QED BY <1>1, <2>1, <2>2
<1>6. (\A i \in DOMAIN p : p[i] # c) => p = r
  <2> SUFFICES ASSUME \A i \in DOMAIN p : p[i] # c PROVE p = r
    OBVIOUS
  <2>1. \A i \in DOMAIN k : p[i] = r[i]
    BY <1>2, <1>3
  <2> QED BY <1>1, <1>2, <2>1
<1> QED BY <1>4, <1>5, <1>6

\* The key of a table that gets the name d for its column c.
LEMMA KeyRenameKept ==
  ASSUME NEW X, NEW Y, NEW u, NEW c, NEW d, NEW k, NEW l, AlsoRenames(Y, X, u, c, d), c # d,
         \A e : RenameColumn(u, c, e) \notin X, \A e : RenameColumn(u, e, c) \notin X,
         \A i \in DOMAIN l : l[i] # c, KeyDue(X, u, k, l),
         \A p, q : SetPrimaryKey(u, p, q) \in Y <=>
            \E o : SetPrimaryKey(u, o, q) \in X /\ Renamed(o, c, d) = p /\ p # q
  PROVE  KeyDue(Y, u, k, l)
<1> SUFFICES ASSUME NEW p, NEW q
             PROVE  SetPrimaryKey(u, p, q) \in Y <=> IsKeyAfter(Y, u, k, p) /\ q = l /\ p # q
  BY DEF KeyDue
<1>1. ASSUME SetPrimaryKey(u, p, q) \in Y PROVE IsKeyAfter(Y, u, k, p) /\ q = l /\ p # q
  <2>1. PICK o : SetPrimaryKey(u, o, q) \in X /\ Renamed(o, c, d) = p /\ p # q
    BY <1>1
  <2>2. IsKeyAfter(X, u, k, o) /\ q = l
    BY <2>1 DEF KeyDue
  <2>3. IsKeyAfter(Y, u, k, Renamed(o, c, d))
    BY <2>2, KeyAfterRename
  <2> QED BY <2>1, <2>2, <2>3
<1>2. ASSUME IsKeyAfter(Y, u, k, p), q = l, p # q PROVE SetPrimaryKey(u, p, q) \in Y
  <2>1. PICK o : IsKeyAfter(X, u, k, o) /\ Renamed(o, c, d) = p /\ ((\A i \in DOMAIN o : o[i] # c) => o = p)
    BY <1>2, KeyBeforeRename
  <2>2. o # q
    BY <1>2, <2>1
  <2>3. SetPrimaryKey(u, o, q) \in X
    BY <1>2, <2>1, <2>2 DEF KeyDue
  <2> QED BY <1>2, <2>1, <2>3
<1> QED BY <1>1, <1>2

\* A column renamed instead of dropped and added, and the change of its table's key adapted.
LEMMA ColumnRenameKept ==
  ASSUME NEW X, NEW W, NEW Y, NEW s, NEW t, Good(X, s, t), NEW u, NEW c, NEW d, NEW col, NEW x, NEW y, NEW z,
         x \in X, y \in X, x = DropColumn(u, c), y = AddColumn(u, d, col), z = RenameColumn(u, c, d),
         Replaces(W, X, x, y, z), IsRekeyed(Y, W, u, c, d),
         s.tables[u].columns[c] = t.tables[u].columns[d]
  PROVE  Good(Y, s, t)
<1> DEFINE a == s.tables[u].columns
           b == t.tables[u].columns
           k == s.tables[u].key
           l == t.tables[u].key
<1>1. /\ x.change = "DropColumn" /\ x.table = u /\ x.name = c
      /\ y.change = "AddColumn" /\ y.table = u /\ y.name = d /\ y.column = col
      /\ z.change = "RenameColumn" /\ z.table = u /\ z.name = c /\ z.to = d
  BY Fields
<1>2. \A w : w \in W <=> (w \in X /\ w # x /\ w # y) \/ w = z
  BY DEF Replaces
<1>3. \A w : w.change \notin {"DropColumn", "AddColumn", "RenameColumn"} \/ w.table # u => (w \in X <=> w \in W)
  BY <1>1, <1>2
<1>4. \A w : ~IsKeyChange(w, u) => (w \in Y <=> w \in W)
  BY RekeyedOthers
<1>5. \A w : w.change \notin {"DropColumn", "AddColumn", "RenameColumn", "SetPrimaryKey"} \/ w.table # u =>
         (w \in X <=> w \in Y)
  BY <1>3, <1>4 DEF IsKeyChange
<1>6. EnumAccount(Y, s, t)
  BY <1>5, EnumFrame DEF Good, Account, EnumChangeKinds
<1>7. ForeignAccount(Y, s, t)
  BY <1>5, ForeignFrame DEF Good, Account, ForeignKinds
<1>8. TableAccount(Y, s, t)
  <2>1. \A w : w.change \in TableKinds => (w \in X <=> w \in Y)
    BY <1>5 DEF TableKinds
  <2>2. TableAccount(X, s, t)
    BY DEF Good, Account
  <2> QED BY <2>1, <2>2, TableFrame
<1>9. u \in Common(s, t)
  BY <1>1, InCommon DEF Good, ColumnKinds
<1>10. ColumnsDue(X, u, a, b) /\ KeyDue(X, u, k, l)
  BY <1>9, ShareTable
<1>11. \A i \in DOMAIN l : l[i] \in DOMAIN b
  BY <1>9 DEF Good, Valid, KeysAreColumns, ElementsOf, Common
<1>12. a[c] = b[d]
  OBVIOUS
<1>13. /\ ColumnsOf(s, t, u) = a /\ ColumnsOf(t, s, u) = b
       /\ KeyOf(s, t, u) = k /\ KeyOf(t, s, u) = l
  BY <1>9 DEF ColumnsOf, KeyOf, Common
<1> HIDE DEF a, b, k, l
<1>14. /\ c \in DOMAIN a \ DOMAIN b /\ \A e : RenameColumn(u, c, e) \notin X
       /\ d \in DOMAIN b \ DOMAIN a /\ col = b[d] /\ \A e : RenameColumn(u, e, d) \notin X
  BY <1>10 DEF ColumnsDue
<1>15. AlsoRenames(Y, X, u, c, d)
  <2>1. \A e, g : ~IsKeyChange(RenameColumn(u, e, g), u)
    BY Fields DEF IsKeyChange
  <2> QED BY <1>1, <1>2, <1>4, <2>1, Fields DEF AlsoRenames
<1>16. ColumnsDue(Y, u, a, b)
  <2>1. \A e, g : AddColumn(u, e, g) \in Y <=> AddColumn(u, e, g) \in X /\ e # d
    <3>1. \A g : AddColumn(u, d, g) \in X => g = col
      BY <1>10, <1>14 DEF ColumnsDue
    <3>2. \A e, g : ~IsKeyChange(AddColumn(u, e, g), u)
      BY Fields DEF IsKeyChange
    <3> QED BY <1>1, <1>2, <1>4, <3>1, <3>2, Fields
  <2>2. \A e : DropColumn(u, e) \in Y <=> DropColumn(u, e) \in X /\ e # c
    <3>1. \A e : ~IsKeyChange(DropColumn(u, e), u)
      BY Fields DEF IsKeyChange
    <3> QED BY <1>1, <1>2, <1>4, <3>1, Fields
  <2>3. /\ \A e, p, q : AlterColumnType(u, e, p, q) \in Y <=> AlterColumnType(u, e, p, q) \in X
        /\ \A e, q : SetNullable(u, e, q) \in Y <=> SetNullable(u, e, q) \in X
        /\ \A e, q : SetUnique(u, e, q) \in Y <=> SetUnique(u, e, q) \in X
        /\ \A e, q : SetAutoIncrement(u, e, q) \in Y <=> SetAutoIncrement(u, e, q) \in X
    BY <1>5, Fields
  <2> DEFINE add(V, e, g) == AddColumn(u, e, g) \in V
             ren(V, e, g) == RenameColumn(u, e, g) \in V
             drop(V, e) == DropColumn(u, e) \in V
  <2>4. /\ \A e, g : add(X, e, g) <=> e \in DOMAIN b \ DOMAIN a /\ g = b[e] /\ \A o : ~ren(X, o, e)
        /\ \A e : drop(X, e) <=> e \in DOMAIN a \ DOMAIN b /\ \A o : ~ren(X, e, o)
        /\ \A e, g : ren(X, e, g) => e \in DOMAIN a \ DOMAIN b /\ g \in DOMAIN b \ DOMAIN a /\ a[e] = b[g]
        /\ \A e, g, o : ren(X, e, g) /\ ren(X, e, o) => g = o
        /\ \A e, g, o : ren(X, e, g) /\ ren(X, o, g) => e = o
    BY <1>10 DEF ColumnsDue
  <2>5. /\ \A e, g : add(Y, e, g) <=> add(X, e, g) /\ e # d
        /\ \A e : drop(Y, e) <=> drop(X, e) /\ e # c
        /\ \A e, g : ren(Y, e, g) <=> ren(X, e, g) \/ (e = c /\ g = d)
        /\ \A e : ~ren(X, c, e) /\ ~ren(X, e, d)
    BY <1>14, <1>15, <2>1, <2>2 DEF AlsoRenames
  <2> HIDE DEF add, ren, drop
  <2>6. \A e, g : add(Y, e, g) <=> e \in DOMAIN b \ DOMAIN a /\ g = b[e] /\ \A o : ~ren(Y, o, e)
    BY <1>14, <2>4, <2>5
  <2>7. \A e : drop(Y, e) <=> e \in DOMAIN a \ DOMAIN b /\ \A o : ~ren(Y, e, o)
    BY <1>14, <2>4, <2>5
  <2>8. \A e, g : ren(Y, e, g) => e \in DOMAIN a \ DOMAIN b /\ g \in DOMAIN b \ DOMAIN a /\ a[e] = b[g]
    BY <1>12, <1>14, <2>4, <2>5
  <2>9. /\ \A e, g, o : ren(Y, e, g) /\ ren(Y, e, o) => g = o
        /\ \A e, g, o : ren(Y, e, g) /\ ren(Y, o, g) => e = o
    BY <2>4, <2>5
  <2> QED BY <1>10, <2>3, <2>6, <2>7, <2>8, <2>9 DEF ColumnsDue, add, ren, drop
<1>17. KeyDue(Y, u, k, l)
  <2>1. c # d /\ \A e : RenameColumn(u, e, c) \notin X
    BY <1>10, <1>14 DEF ColumnsDue
  <2>2. \A i \in DOMAIN l : l[i] # c
    BY <1>11, <1>14
  <2>3. ASSUME NEW p, NEW q
        PROVE  SetPrimaryKey(u, p, q) \in Y <=>
                 \E o : SetPrimaryKey(u, o, q) \in X /\ Renamed(o, c, d) = p /\ p # q
    <3>1. SetPrimaryKey(u, p, q) \in Y <=>
            \E w \in W : IsKeyChange(w, u) /\ w.to = q /\ Renamed(w.from, c, d) = p /\ p # q
      BY RekeyedOthers
    <3>2. ASSUME NEW w \in W, IsKeyChange(w, u) PROVE w \in X /\ w = SetPrimaryKey(u, w.from, w.to)
      <4>1. w \in X
        BY <1>3, <3>2 DEF IsKeyChange
      <4>2. IsChange(w)
        BY <4>1 DEF Good, Account
      <4> QED BY <3>2, <4>1, <4>2, Fields DEF IsChange, IsKeyChange
    <3>3. ASSUME NEW o, SetPrimaryKey(u, o, q) \in X
          PROVE  \E w \in W : IsKeyChange(w, u) /\ w.to = q /\ w.from = o
      <4> DEFINE w == SetPrimaryKey(u, o, q)
      <4>1. w.change = "SetPrimaryKey" /\ w.table = u /\ w.from = o /\ w.to = q /\ w \in X
        BY <3>3, Fields
      <4> HIDE DEF w
      <4>2. w \in W
        BY <1>3, <4>1
      <4> QED BY <4>1, <4>2 DEF IsKeyChange
    <3>4. ASSUME SetPrimaryKey(u, p, q) \in Y
          PROVE  \E o : SetPrimaryKey(u, o, q) \in X /\ Renamed(o, c, d) = p /\ p # q
      BY <3>1, <3>2, <3>4
    <3>5. ASSUME NEW o, SetPrimaryKey(u, o, q) \in X, Renamed(o, c, d) = p, p # q
          PROVE  SetPrimaryKey(u, p, q) \in Y
      BY <3>1, <3>3, <3>5
    <3> QED BY <3>4, <3>5
  <2> QED BY <1>10, <1>14, <1>15, <2>1, <2>2, <2>3, KeyRenameKept
<1>18. ASSUME NEW w PROVE ColumnsDue(Y, w, ColumnsOf(s, t, w), ColumnsOf(t, s, w))
  <2>1. CASE w = u
    BY <1>13, <1>16, <2>1
  <2>2. CASE w # u
    <3>1. ColumnsDue(X, w, ColumnsOf(s, t, w), ColumnsOf(t, s, w))
      BY DEF Good, Account, ColumnAccount
    <3>2. \A e : e.change \in ColumnKinds /\ e.table = w => (e \in X <=> e \in Y)
      BY <1>5, <2>2
    <3> QED BY <3>1, <3>2, ColumnFrame
  <2> QED BY <2>1, <2>2
<1>19. ASSUME NEW w PROVE KeyDue(Y, w, KeyOf(s, t, w), KeyOf(t, s, w))
  <2>1. CASE w = u
    BY <1>13, <1>17, <2>1
  <2>2. CASE w # u
    <3>1. KeyDue(X, w, KeyOf(s, t, w), KeyOf(t, s, w))
      BY DEF Good, Account, KeyAccount
    <3>2. \A e : e.change \in {"SetPrimaryKey", "RenameColumn"} /\ e.table = w => (e \in X <=> e \in Y)
      BY <1>5, <2>2
    <3> QED BY <3>1, <3>2, KeyFrame
  <2> QED BY <2>1, <2>2
<1>20. \A w \in Y : IsChange(w)
  <2>1. IsChange(z)
    BY <1>1 DEF IsChange
  <2>2. \A p, q : IsChange(SetPrimaryKey(u, p, q))
    BY Fields DEF IsChange
  <2>3. \A w \in W : IsChange(w)
    BY <1>2, <2>1 DEF Good, Account
  <2> QED BY <2>2, <2>3 DEF IsRekeyed
<1> QED BY <1>6, <1>7, <1>8, <1>18, <1>19, <1>20 DEF Good, Account, ColumnAccount, KeyAccount

\* What a candidate promises.
LEMMA CandidateMeans ==
  ASSUME NEW s, NEW t, NEW c \in Candidates(s, t)
  PROVE  \/ /\ c.rename = "table"
            /\ s.tables[c.from].columns = t.tables[c.to].columns /\ s.tables[c.from].key = t.tables[c.to].key
         \/ /\ c.rename = "column"
            /\ s.tables[c.table].columns[c.from] = t.tables[c.table].columns[c.to]
<1> DEFINE A == {TableRename(e[1], e[2]) : e \in
                   {p \in (Tables(s) \ Tables(t)) \X (Tables(t) \ Tables(s)) :
                      SameTableShape(p[1], s.tables[p[1]], p[2], t.tables[p[2]])}}
           B == UNION {LET from == s.tables[u].columns
                           to == t.tables[u].columns
                       IN  {ColumnRename(u, e[1], e[2]) : e \in
                              {p \in (DOMAIN from \ DOMAIN to) \X (DOMAIN to \ DOMAIN from) : from[p[1]] = to[p[2]]}} :
                       u \in Tables(s) \cap Tables(t)}
<1>1. c \in A \/ c \in B
  BY DEF Candidates
<1>2. CASE c \in A
  <2>1. PICK e \in (Tables(s) \ Tables(t)) \X (Tables(t) \ Tables(s)) :
          c = TableRename(e[1], e[2]) /\ SameTableShape(e[1], s.tables[e[1]], e[2], t.tables[e[2]])
    BY <1>2
  <2>2. c.rename = "table" /\ c.from = e[1] /\ c.to = e[2]
    BY <2>1, SMTT(40) DEF TableRename
  <2>3. s.tables[e[1]].columns = t.tables[e[2]].columns /\ s.tables[e[1]].key = t.tables[e[2]].key
    BY <2>1 DEF SameTableShape
  <2> QED BY <2>2, <2>3
<1>3. CASE c \in B
  <2>1. PICK u \in Tables(s) \cap Tables(t) :
          \E e : c = ColumnRename(u, e[1], e[2]) /\ s.tables[u].columns[e[1]] = t.tables[u].columns[e[2]]
    BY <1>3
  <2>2. PICK e : c = ColumnRename(u, e[1], e[2]) /\ s.tables[u].columns[e[1]] = t.tables[u].columns[e[2]]
    BY <2>1
  <2>3. c.rename = "column" /\ c.table = u /\ c.from = e[1] /\ c.to = e[2]
    BY <2>2 DEF ColumnRename
  <2> QED BY <2>2, <2>3
<1> QED BY <1>1, <1>2, <1>3

\* A table's key changes at most once.
LEMMA OneKeyChange ==
  ASSUME NEW X, NEW s, NEW t, Good(X, s, t), NEW u, NEW x \in X, NEW y \in X, IsKeyChange(x, u), IsKeyChange(y, u)
  PROVE  x = y
<1> DEFINE a == s.tables[u].columns
           b == t.tables[u].columns
           k == s.tables[u].key
           l == t.tables[u].key
           p == x.from
           q == y.from
<1>1. u \in Common(s, t)
  BY InCommon DEF Good, IsKeyChange
<1>2. x = SetPrimaryKey(u, p, x.to) /\ y = SetPrimaryKey(u, q, y.to)
  BY Fields DEF Good, Account, IsChange, IsKeyChange
<1>3. ColumnsDue(X, u, a, b) /\ KeyDue(X, u, k, l)
  BY <1>1, ShareTable
<1> HIDE DEF a, b, k, l, p, q
<1>4. IsKeyAfter(X, u, k, p) /\ IsKeyAfter(X, u, k, q) /\ x.to = l /\ y.to = l
  <2>1. SetPrimaryKey(u, p, x.to) \in X /\ SetPrimaryKey(u, q, y.to) \in X
    BY <1>2
  <2> QED BY <1>3, <2>1 DEF KeyDue
<1>5. \A c, d, e : Follows(X, u, c, d) /\ Follows(X, u, c, e) => d = e
  BY <1>3 DEF Follows, ColumnsDue
<1>6. \A i \in DOMAIN k : p[i] = q[i]
  BY <1>4, <1>5 DEF IsKeyAfter
<1>7. p = [i \in DOMAIN k |-> p[i]] /\ q = [i \in DOMAIN k |-> q[i]]
  BY <1>4 DEF IsKeyAfter
<1>8. p = q
  BY <1>6, <1>7
<1> QED BY <1>2, <1>4, <1>8

\* The pair of a candidate in a plan, and the place of the rename in its order.
LEMMA RenameInOrder ==
  ASSUME NEW x, NEW y, NEW z, NEW w, NEW t, w # z,
         \/ x.change = "DropTable" /\ y.change = "CreateTable" /\ z.change = "RenameTable"
         \/ x.change = "DropColumn" /\ y.change = "AddColumn" /\ z.change = "RenameColumn" /\ y.table = z.table
  PROVE  /\ Before(w, x, t) /\ Before(w, y, t) => Before(w, z, t)
         /\ Before(x, w, t) \/ Before(y, w, t) => Before(z, w, t)
<1>1. Phase(x) = 3 /\ Phase(y) = 3 /\ Phase(z) = 3
  BY Phases DEF TableKinds, ColumnKinds
<1>2. Before(w, x, t) /\ Before(w, y, t) => Before(w, z, t)
  BY <1>1 DEF Before
<1>3. Before(x, w, t) \/ Before(y, w, t) => Before(z, w, t)
  BY <1>1 DEF Before
<1> QED BY <1>2, <1>3

\* A plan with a rename confirmed is still a plan for the same target.
LEMMA ConfirmedKept ==
  ASSUME NEW p, NEW s, NEW t, NEW c \in Candidates(s, t), IsList(p), Arranged(p, t), Good(Range(p), s, t),
         Confirmable(p, c), NEW n, n = Confirmed(p, c)
  PROVE  IsList(n) /\ Arranged(n, t) /\ Good(Range(n), s, t)
<1> DEFINE i == CHOOSE j \in DOMAIN p : IsDrop(p[j], c)
           k == CHOOSE j \in DOMAIN p : IsAdd(p[j], c)
           x == p[i]
           y == p[k]
           X == Range(p)
<1>1. i \in DOMAIN p /\ IsDrop(x, c) /\ k \in DOMAIN p /\ IsAdd(y, c)
  BY DEF Confirmable
<1>2. x \in X /\ y \in X
  BY <1>1 DEF Range
<1>3. Good(X, s, t) /\ IsList(p) /\ Arranged(p, t) /\ X = Range(p)
  OBVIOUS
<1>4. IsChange(y)
  BY <1>2 DEF Good, Account
<1>5. CASE c.rename = "table"
  <2> DEFINE u == c.from
             v == c.to
             d == y.def
             z == RenameTable(u, v)
  <2>1. x = DropTable(u) /\ y.change = "CreateTable" /\ y.table = v
    BY <1>1, <1>5 DEF IsDrop, IsAdd
  <2>2. n = RewritePair(p, i, k, z)
    BY <1>5 DEF Confirmed
  <2>3. s.tables[u].columns = t.tables[v].columns /\ s.tables[u].key = t.tables[v].key
    BY <1>5, CandidateMeans
  <2>5. x = p[i] /\ y = p[k] /\ z = RenameTable(u, v)
    OBVIOUS
  <2> HIDE DEF i, k, x, y, u, v, d, z, X
  <2>4. y = CreateTable(v, d)
    BY <1>4, <2>1, Fields DEF IsChange, d
  <2>6. x.change = "DropTable" /\ z.change = "RenameTable" /\ x # y
    <3>1. x.change = "DropTable"
      BY <2>1, Fields
    <3>2. z.change = "RenameTable"
      BY <2>5, Fields
    <3> QED BY <2>1, <3>1, <3>2
  <2>7. z \notin X
    <3>1. TableAccount(X, s, t) /\ DropTable(u) \in X
      BY <1>2, <1>3, <2>1 DEF Good, Account
    <3> QED BY <2>5, <3>1 DEF TableAccount
  <2>8. /\ \A w \in Range(p) : Before(w, x, t) /\ Before(w, y, t) => Before(w, z, t)
        /\ \A w \in Range(p) : Before(x, w, t) \/ Before(y, w, t) => Before(z, w, t)
    <3>1. SUFFICES ASSUME NEW w \in Range(p)
          PROVE  /\ Before(w, x, t) /\ Before(w, y, t) => Before(w, z, t)
                 /\ Before(x, w, t) \/ Before(y, w, t) => Before(z, w, t)
      OBVIOUS
    <3>2. w # z
      BY <1>3, <2>7
    <3> QED BY <2>1, <2>6, <3>2, RenameInOrder
  <2>9. z \notin Range(p)
    BY <1>3, <2>7
  <2>10. IsList(n) /\ Arranged(n, t) /\ Replaces(Range(n), Range(p), x, y, z)
    BY <1>1, <1>3, <2>2, <2>5, <2>6, <2>8, <2>9, PairRewritten
  <2> DEFINE Y == Range(n)
  <2>11. Replaces(Y, X, x, y, z)
    BY <1>3, <2>10
  <2> HIDE DEF Y
  <2>12. Good(Y, s, t)
    BY <1>2, <1>3, <2>1, <2>3, <2>4, <2>5, <2>11, TableRenameKept
  <2> QED BY <2>10, <2>12 DEF Y
<1>6. CASE c.rename = "column"
  <2> DEFINE u == c.table
             a == c.from
             b == c.to
             col == y.column
             z == RenameColumn(u, a, b)
             m == RewritePair(p, i, k, z)
  <2>1. x = DropColumn(u, a) /\ y.change = "AddColumn" /\ y.table = u /\ y.name = b
    BY <1>1, <1>6 DEF IsDrop, IsAdd
  <2>2. n = Rekeyed(m, u, a, b)
    BY <1>6 DEF Confirmed
  <2>3. s.tables[u].columns[a] = t.tables[u].columns[b]
    BY <1>6, CandidateMeans
  <2>5. x = p[i] /\ y = p[k] /\ z = RenameColumn(u, a, b) /\ m = RewritePair(p, i, k, z)
    OBVIOUS
  <2> HIDE DEF i, k, x, y, u, a, b, col, z, m, X
  <2>4. y = AddColumn(u, b, col)
    BY <1>4, <2>1, Fields DEF IsChange, col
  <2>6. x.change = "DropColumn" /\ x.table = u /\ z.change = "RenameColumn" /\ z.table = u /\ x # y
    <3>1. x.change = "DropColumn" /\ x.table = u
      BY <2>1, Fields
    <3>2. z.change = "RenameColumn" /\ z.table = u
      BY <2>5, Fields
    <3> QED BY <2>1, <3>1, <3>2
  <2>7. z \notin X
    <3>1. u \in Common(s, t)
      BY <1>2, <1>3, <2>6, InCommon DEF Good, ColumnKinds
    <3> DEFINE e == s.tables[u].columns
               f == t.tables[u].columns
    <3>2. ColumnsDue(X, u, e, f)
      BY <1>3, <3>1, ShareTable
    <3> HIDE DEF e, f
    <3>3. DropColumn(u, a) \in X
      BY <1>2, <2>1
    <3> QED BY <2>5, <3>2, <3>3 DEF ColumnsDue
  <2>8. /\ \A w \in Range(p) : Before(w, x, t) /\ Before(w, y, t) => Before(w, z, t)
        /\ \A w \in Range(p) : Before(x, w, t) \/ Before(y, w, t) => Before(z, w, t)
    <3>1. SUFFICES ASSUME NEW w \in Range(p)
          PROVE  /\ Before(w, x, t) /\ Before(w, y, t) => Before(w, z, t)
                 /\ Before(x, w, t) \/ Before(y, w, t) => Before(z, w, t)
      OBVIOUS
    <3>2. w # z
      BY <1>3, <2>7
    <3> QED BY <2>1, <2>6, <3>2, RenameInOrder
  <2>9. z \notin Range(p)
    BY <1>3, <2>7
  <2>10. IsList(m) /\ Arranged(m, t) /\ Replaces(Range(m), Range(p), x, y, z)
    BY <1>1, <1>3, <2>5, <2>6, <2>8, <2>9, PairRewritten
  <2> DEFINE W == Range(m)
             Y == Range(n)
  <2>11. Replaces(W, X, x, y, z) /\ W = Range(m)
    BY <1>3, <2>10
  <2> HIDE DEF W
  <2>12. \A w \in W : IsChange(w)
    <3>1. IsChange(z)
      BY <2>5, Fields DEF IsChange
    <3> QED BY <1>3, <2>11, <3>1 DEF Replaces, Good, Account
  <2>13. \A v, w \in W : IsKeyChange(v, u) /\ IsKeyChange(w, u) => v = w
    <3>1. \A v \in W : IsKeyChange(v, u) => v \in X
      BY <2>6, <2>11 DEF Replaces, IsKeyChange
    <3> QED BY <1>3, <3>1, OneKeyChange
  <2>14. IsList(n) /\ Arranged(n, t) /\ IsRekeyed(Range(n), Range(m), u, a, b)
    BY <2>2, <2>10, <2>11, <2>12, <2>13, RekeyedList
  <2>15. IsRekeyed(Y, W, u, a, b)
    BY <2>11, <2>14
  <2> HIDE DEF Y
  <2>16. Good(Y, s, t)
    BY <1>2, <1>3, <2>1, <2>3, <2>4, <2>5, <2>11, <2>15, ColumnRenameKept
  <2> QED BY <2>14, <2>16 DEF Y
<1> QED BY <1>5, <1>6, CandidateMeans

-----------------------------------------------------------------------------
(* Every plan leads to its target.                                         *)

\* Nothing was refused; the plan is in its order and accounts for what tells the schema
\* from the target; renames still to be confirmed are candidates of the two schemas.
EvolutionInv ==
  /\ rejection = "ok"
  /\ IsList(plan) /\ Arranged(plan, target)
  /\ Good(Range(plan), schema, target)
  /\ ~applying => unconfirmed \subseteq Candidates(schema, target)

LEMMA EmptyIsValid == Valid(EmptySchema) /\ Enums(EmptySchema) = {}
<1> DEFINE s == EmptySchema
<1>1. s = [tables |-> s.tables, enums |-> s.enums] /\ s.tables = <<>> /\ s.enums = <<>>
  BY DEF EmptySchema
<1> HIDE DEF s
<1>2. Tables(s) = {} /\ Enums(s) = {}
  BY <1>1, EmptyMap DEF Tables, Enums
<1>3. IsSchema(s)
  BY <1>1, <1>2, EmptyMap DEF IsSchema
<1>4. Valid(s)
  BY <1>2, <1>3 DEF Valid, NoDanglingReference, ReferencesAreUnique, KeysAreColumns, TypesAreKnown
<1> QED BY <1>2, <1>4 DEF s

LEMMA EvolutionStarts == EvolutionInit => EvolutionInv
<1> SUFFICES ASSUME EvolutionInit PROVE EvolutionInv
  OBVIOUS
<1>1. schema = EmptySchema /\ target = EmptySchema /\ plan = <<>> /\ unconfirmed = {} /\ rejection = "ok"
  BY DEF EvolutionInit
<1>2. IsList(plan) /\ Arranged(plan, target) /\ Range(plan) = {}
  BY <1>1, EmptyList
<1> DEFINE s == EmptySchema
           X == Range(plan)
<1>3. Valid(s) /\ Enums(s) = {} /\ X = {}
  BY <1>2, EmptyIsValid
<1>4. schema = s /\ target = s
  BY <1>1
<1> HIDE DEF s, X
<1>5. AreDue(X, s, s)
  BY <1>3, NothingBetween DEF AreDue
<1>6. EnumsGrow(s, s)
  BY <1>3 DEF EnumsGrow
<1>7. Account(X, s, s)
  BY <1>3, <1>5, <1>6, DueAccount DEF Valid
<1>8. Good(X, s, s)
  BY <1>3, <1>7 DEF Good, Valid
<1> QED BY <1>1, <1>2, <1>4, <1>8 DEF EvolutionInv, X

LEMMA EvolutionGoesOn ==
  ASSUME ~Recreating
  PROVE  EvolutionInv /\ [EvolutionNext]_evolutionVars => EvolutionInv'
<1> SUFFICES ASSUME EvolutionInv, [EvolutionNext]_evolutionVars PROVE EvolutionInv'
  OBVIOUS
<1> USE DEF EvolutionInv
<1>1. ASSUME NEW family \in Families, NEW t \in family, Retarget(t) PROVE EvolutionInv'
  <2>1. /\ schema' = schema /\ target' = t /\ plan' = Changes(schema, t) /\ rejection' = "ok"
        /\ unconfirmed' = Candidates(schema, t) /\ EnumsGrow(schema, t)
    BY <1>1 DEF Retarget
  <2>2. Valid(t) /\ IsSchema(t)
    BY FamiliesAssumption DEF Valid
  <2>3. IsSchema(schema) /\ TypesAreKnown(schema) /\ 0 \notin Enums(schema)
    BY DEF Good
  <2> DEFINE p == plan'
             s == schema
             X == Range(p)
  <2>4. p = Changes(s, t) /\ EnumsGrow(s, t) /\ IsSchema(s)
    BY <2>1, <2>3
  <2> HIDE DEF p, s
  <2>5. IsList(p) /\ Arranged(p, t) /\ AreDue(X, s, t)
    BY <2>2, <2>4, ChangesList
  <2> HIDE DEF X
  <2>6. Account(X, s, t)
    BY <2>2, <2>4, <2>5, DueAccount
  <2>7. Good(X, s, t)
    BY <2>2, <2>3, <2>4, <2>6 DEF Good, s
  <2> QED BY <2>1, <2>5, <2>7 DEF X, p, s
<1>2. ASSUME NEW c \in unconfirmed, Confirm(c) PROVE EvolutionInv'
  <2>1. /\ ~applying /\ Confirmable(plan, c) /\ plan' = Confirmed(plan, c) /\ unconfirmed' = unconfirmed \ {c}
        /\ schema' = schema /\ target' = target /\ applying' = applying /\ rejection' = rejection
    BY <1>2 DEF Confirm
  <2>2. c \in Candidates(schema, target) /\ unconfirmed \subseteq Candidates(schema, target)
    BY <2>1
  <2> DEFINE n == plan'
  <2>3. n = Confirmed(plan, c)
    BY <2>1
  <2> HIDE DEF n
  <2>4. IsList(n) /\ Arranged(n, target) /\ Good(Range(n), schema, target)
    BY <2>1, <2>2, <2>3, ConfirmedKept
  <2> QED BY <2>1, <2>2, <2>4 DEF n
<1>3. ASSUME ApplyNext PROVE EvolutionInv'
  <2> DEFINE h == Head(plan)
             q == Tail(plan)
             result == Apply(schema, h)
  <2>1. plan # <<>> /\ applying' = TRUE /\ target' = target /\ schema' = result.schema /\ rejection' = result.answer
        /\ plan' = IF result.answer = "ok" THEN q ELSE plan
    BY <1>3 DEF ApplyNext
  <2>2. h = Head(plan) /\ q = Tail(plan)
    OBVIOUS
  <2>3. result = Apply(schema, h)
    OBVIOUS
  <2> HIDE DEF h, q, result
  <2>4. First(h, Range(plan), target) /\ Range(q) = Range(plan) \ {h} /\ IsList(q) /\ Arranged(q, target)
    BY <2>1, <2>2, FirstOfList
  <2>5. Arrives(Range(plan), schema, h, target)
    BY <2>4, FirstArrives
  <2>6. result.answer = "ok" /\ Good(Range(plan) \ {h}, result.schema, target)
    BY <2>3, <2>5 DEF Arrives
  <2> QED BY <2>1, <2>4, <2>6
<1>4. CASE UNCHANGED evolutionVars
  BY <1>4 DEF evolutionVars
<1> QED BY <1>1, <1>2, <1>3, <1>4 DEF EvolutionNext

\* A plan that has been applied to its end accounts for no difference.
LEMMA PlansArrive == EvolutionInv => PlansReachTheirTarget
<1> SUFFICES ASSUME EvolutionInv, plan = <<>> PROVE schema = target
  BY DEF EvolutionInv, PlansReachTheirTarget
<1> DEFINE X == Range(plan)
<1>1. X = {} /\ Good(X, schema, target)
  BY EmptyRange DEF EvolutionInv
<1> HIDE DEF X
<1> QED BY <1>1, NothingLeft

LEMMA DriftSeen == EvolutionInv => DriftIsSeen
<1> SUFFICES ASSUME EvolutionInv PROVE Changes(schema, target) = <<>> <=> schema = target
  BY DEF DriftIsSeen
<1> DEFINE s == schema
           t == target
           p == Changes(s, t)
           X == Range(p)
           Z == Range(plan)
<1>1. Good(Z, s, t)
  BY DEF EvolutionInv
<1>2. IsSchema(s) /\ IsSchema(t) /\ Valid(t) /\ TypesAreKnown(s) /\ 0 \notin Enums(s) /\ p = Changes(s, t) /\ X = Range(p)
  BY <1>1 DEF Good, Valid
<1> HIDE DEF s, t, p, X, Z
<1>3. EnumsGrow(s, t)
  BY <1>1, GrowthAccounted
<1>4. IsList(p) /\ AreDue(X, s, t)
  BY <1>2, <1>3, ChangesList
<1>5. X = {} <=> p = <<>>
  BY <1>2, <1>4, EmptyRange
<1>6. ASSUME X = {} PROVE s = t
  <2>1. Account(X, s, t)
    BY <1>2, <1>3, <1>4, DueAccount
  <2>2. Good(X, s, t)
    BY <1>2, <2>1 DEF Good
  <2> QED BY <1>6, <2>2, NothingLeft
<1>7. ASSUME s = t PROVE X = {}
  BY <1>4, <1>7, NothingBetween DEF AreDue
<1> QED BY <1>2, <1>5, <1>6, <1>7 DEF s, t

\* The invariant holds of every evolution in which enum types only grow.
LEMMA EvolutionSafe ==
  ASSUME ~Recreating
  PROVE  EvolutionSpec => []EvolutionInv
<1>1. EvolutionInit => EvolutionInv
  BY EvolutionStarts
<1>2. EvolutionInv /\ [EvolutionNext]_evolutionVars => EvolutionInv'
  BY EvolutionGoesOn
<1> QED BY <1>1, <1>2, PTL DEF EvolutionSpec

\* Whatever schemas the entities describe, one after another, as long as each is one a
\* database could hold and enum types are not made again: a plan that `diff' makes, with
\* any of its candidate renames confirmed in any order, is applied to its end without a
\* refusal, and the schema it ends in is the one the entities describe.
THEOREM EveryPlanArrives ==
  ASSUME ~Recreating
  PROVE  EvolutionSpec => []PlansReachTheirTarget
<1>1. EvolutionInv => PlansReachTheirTarget
  BY PlansArrive
<1>2. EvolutionSpec => []EvolutionInv
  BY EvolutionSafe
<1> QED BY <1>1, <1>2, PTL

\* At every step of every such plan a column's type is built in or an enum type of the
\* schema: types are created before the columns that have them, and dropped after.
THEOREM TypesOutliveColumns ==
  ASSUME ~Recreating
  PROVE  EvolutionSpec => []TypesExist
<1>1. EvolutionInv => TypesExist
  BY DEF EvolutionInv, Good, TypesExist
<1>2. EvolutionSpec => []EvolutionInv
  BY EvolutionSafe
<1> QED BY <1>1, <1>2, PTL

\* At every step of every such plan `diff' finds no change exactly when the schema is the
\* target: no difference goes unseen, and equal schemas give an empty plan.
THEOREM DriftIsAlwaysSeen ==
  ASSUME ~Recreating
  PROVE  EvolutionSpec => []DriftIsSeen
<1>1. EvolutionInv => DriftIsSeen
  BY DriftSeen
<1>2. EvolutionSpec => []EvolutionInv
  BY EvolutionSafe
<1> QED BY <1>1, <1>2, PTL

=============================================================================
