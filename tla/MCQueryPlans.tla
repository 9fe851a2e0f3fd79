----------------------------- MODULE MCQueryPlans -----------------------------
EXTENDS QueryPlans

-----------------------------------------------------------------------------
(* Entities and rows.                                                        *)

Users == Entity("users", <<Column("id", Int64, FALSE, TRUE, TRUE),
                           Column("age", <<"int32">>, TRUE, FALSE, FALSE),
                           Column("team", <<"int32">>, FALSE, FALSE, FALSE)>>)
Posts == Entity("posts", <<Column("id", Int64, FALSE, FALSE, TRUE),
                           Column("author", Int64, TRUE, FALSE, FALSE)>>)
\* Its kind column is of a named type.
Badges == Entity("badges", <<Column("id", Int64, FALSE, FALSE, TRUE),
                             Column("kind", <<"custom", "badge_kind">>, FALSE, FALSE, FALSE)>>)
\* Nothing identifies a note.
Notes == Entity("notes", <<Column("text", <<"int32">>, TRUE, FALSE, FALSE)>>)
Tables == {Users, Posts, Badges, Notes}
AuthorOf == EntityRelation("author", Posts, Users, 2, 1)
PostsOf == EntityRelation("posts", Users, Posts, 1, 2)
BadgeOf == EntityRelation("badge", Users, Badges, 1, 1)

Row(users, posts, badges) ==
    [users |-> users, posts |-> posts, badges |-> badges, notes |-> <<<<3>>, <<Null>>>>]
\* Ties, NULLs, an author of two posts, a post of nobody; empty tables and a dangling author.
SomeDatabases == {
    Row(<<<<1, 7, 1>>, <<2, Null, 2>>, <<3, 7, 2>>>>, <<<<1, 1>>, <<2, 1>>, <<3, Null>>>>,
        <<<<1, 4>>, <<3, 3>>>>),
    Row(<<<<1, 8, 1>>>>, <<<<2, 5>>, <<3, 1>>>>, <<>>),
    Row(<<>>, <<>>, <<<<2, 3>>>>)}

-----------------------------------------------------------------------------
(* Programs.                                                                 *)

Start(entity) == [start |-> "find", entity |-> entity]
Program(start, entity, row, calls) ==
    [start |-> start, entity |-> entity, row |-> row, calls |-> calls]
Find(entity, calls) == Program("find", entity, <<>>, calls)
WithExpr(name, expr) == [call |-> name, expr |-> expr]
Where(expr) == WithExpr("filter", expr)
OrderedBy(index, direction, nulls) ==
    [call |-> "order_by", key |-> OrderKey(index, direction, nulls)]
Bare(name) == [call |-> name]
Counted(name, count) == [call |-> name, count |-> count]
AsColumns(columns) == [call |-> "select_as", columns |-> columns]
JoinedTo(relation) == [call |-> "also", relation |-> relation]
Grouping(columns, aggregates) ==
    [call |-> "group_by", columns |-> columns, aggregates |-> aggregates]
SetTo(column, value) == [call |-> "set", column |-> column, value |-> value]
Conflict(do, target, update) ==
    [call |-> "on_conflict", conflict |-> [do |-> do, target |-> target, update |-> update]]

\* Every choice of one sequence of calls from each of the sequences of choices.
AllChoices(parts) ==
    Folded(LAMBDA all, part :
                 FlattenSeq([i \in DOMAIN all |-> [j \in DOMAIN part |-> all[i] \o part[j]]]),
             <<<<>>>>, parts)
Finds(entity, parts) ==
    LET all == AllChoices(parts) IN [i \in DOMAIN all |-> Find(entity, all[i])]

Age(op, value) == Compare(Users, op, 2, value)
UserFilters == <<
    <<>>,
    <<Where(Age("GreaterThanOrEqual", 7))>>,
    <<Where(Age("GreaterThanOrEqual", 8))>>,
    <<Where(Not(Age("Equal", 7)))>>,
    <<Where(Or(NullTest("IsNull", 2), Compare(Users, "Equal", 3, 1)))>>,
    <<Where(IsIn(Users, 2, <<7, 9>>)), Where(Between(Users, 1, 2, 3))>>>>
Windows == <<
    <<>>, <<Counted("limit", 1)>>, <<Counted("limit", 2)>>, <<Counted("offset", 1)>>,
    <<Counted("limit", 5), Counted("offset", 1)>>>>
Orders == <<
    <<>>, <<OrderedBy(2, "Ascending", "DialectDefault")>>,
    <<OrderedBy(2, "Descending", "Last"), OrderedBy(1, "Descending", "DialectDefault")>>>>
Plainly == <<<<>>>>
MaybeDistinct == <<<<>>, <<Bare("distinct")>>>>

Reads ==
    Finds(Users, <<UserFilters, Orders, Windows>>)
    \o Finds(Users, <<UserFilters, MaybeDistinct, Windows, <<<<Bare("into_count")>>>>>>)
    \o Finds(Users, <<UserFilters, Windows, <<<<Bare("exists")>>>>>>)
    \o Finds(Users, <<SubSeq(UserFilters, 1, 2), Orders, SubSeq(Windows, 1, 2), MaybeDistinct,
                      <<<<AsColumns(<<3, 2>>)>>>>>>)
    \o Finds(Badges, <<<<<<>>, <<Where(Compare(Badges, "Equal", 2, 3))>>>>,
                       <<<<>>, <<OrderedBy(1, "Descending", "First"), Counted("limit", 1)>>>>>>)

RelatedAge(name, op, value) == WithExpr(name, Age(op, value))
RelatedOrder(index, direction) ==
    [call |-> "order_by_related", key |-> OrderKey(index, direction, "DialectDefault")]
Joins ==
    Finds(Posts, <<<<<<JoinedTo(AuthorOf)>>>>,
                   <<<<>>, <<Where(Compare(Posts, "NotEqual", 1, 3))>>>>,
                   <<<<>>, <<RelatedAge("filter_related", "Equal", 7)>>,
                     <<WithExpr("filter_related", NullTest("IsNull", 2)),
                       Where(Compare(Posts, "GreaterThan", 1, 1))>>>>,
                   <<<<>>, <<RelatedOrder(2, "Descending"), OrderedBy(1, "Descending", "First")>>>>,
                   <<<<>>, <<Counted("limit", 1)>>>>>>)
    \o Finds(Users, <<<<<<JoinedTo(PostsOf)>>>>, SubSeq(UserFilters, 1, 2),
                      <<<<>>, <<RelatedOrder(1, "Ascending")>>>>, MaybeDistinct>>)
    \o Finds(Users, <<<<<<JoinedTo(PostsOf), JoinedTo(PostsOf)>>, <<JoinedTo(PostsOf), JoinedTo(BadgeOf)>>>>,
                      <<<<>>, <<WithExpr("filter_related", Compare(Posts, "Equal", 1, 1))>>>>,
                      <<<<>>, <<WithExpr("filter_related2", NullTest("IsNotNull", 1)),
                                Where(Age("Equal", 7))>>>>>>)

TeamTotals == <<CountRows, Over(Users, "sum", 2), Over(Users, "max", 1)>>
TeamMeans == <<Over(Users, "avg", 3), Over(Users, "min", 2)>>
GroupedBy(columns) ==
    <<<<Grouping(columns, TeamTotals)>>,
      <<Grouping(columns, TeamTotals),
        WithExpr("having", HavingCompare("GreaterThan", Len(columns), TeamTotals, 1, 1))>>,
      <<Grouping(columns, TeamTotals),
        WithExpr("having", HavingNullTest("IsNotNull", Len(columns), 2))>>>>
Groups ==
    Finds(Users, <<SubSeq(UserFilters, 1, 2), GroupedBy(<<3>>) \o GroupedBy(<<2, 3>>),
                   <<<<>>, <<Bare("order_by_keys")>>>>>>)
    \o Finds(Users, <<<<<<Grouping(<<2>>, TeamMeans)>>, <<Grouping(<<3, 3>>, TeamMeans)>>>>,
                      <<<<>>, <<Counted("limit", 1)>>>>>>)
    \o Finds(Badges, <<<<<<Grouping(<<2>>, <<CountRows>>)>>>>>>)

Inserting(entity, rows, calls) ==
    Program("insert", entity, rows[1],
            [i \in 1..(Len(rows) - 1) |-> [call |-> "values", row |-> rows[i + 1]]] \o calls)
PostRows == << <<<<4, 1>>>>, <<<<1, Null>>>>, <<<<4, 1>>, <<4, 2>>>>, <<<<2, 2>>, <<5, Null>>>> >>
Conflicts == <<
    <<>>, <<Conflict("nothing", <<>>, <<>>)>>, <<Conflict("update_inserted", <<>>, <<>>)>>,
    <<Conflict("targeted_ignore", <<1>>, <<>>)>>, <<Conflict("targeted_update", <<1>>, <<2>>)>>,
    <<Conflict("targeted_update", <<1>>, <<>>)>>, <<Conflict("targeted_update", <<1>>, <<1>>)>>>>
MaybeReturning == <<<<>>, <<Bare("returning")>>>>
\* Rows alike of an entity without a key.
AlikeNotes ==
    LET calls == AllChoices(<<SubSeq(Conflicts, 1, 3), MaybeReturning>>)
    IN  [c \in DOMAIN calls |-> Inserting(Notes, <<<<3>>, <<3>>, <<Null>>>>, calls[c])]
\* One value or one row more than can be numbered, just as many, and rows of other widths.
Misfits == <<
    Inserting(Posts, <<<<4, 1>>, <<5, 1>>, <<6, 1>>>>, <<>>),
    Inserting(Notes, <<<<1>>, <<2>>, <<3>>, <<4>>, <<5>>>>, <<>>),
    Inserting(Notes, <<<<1>>, <<2>>, <<3>>, <<4>>>>, <<>>),
    Inserting(Posts, <<<<4, 1>>, <<5>>>>, <<>>), Inserting(Notes, <<<<4, 1>>>>, <<>>)>>
Insertions ==
    LET calls == AllChoices(<<Conflicts, MaybeReturning>>)
        posts == [r \in DOMAIN PostRows |->
                     [c \in DOMAIN calls |-> Inserting(Posts, PostRows[r], calls[c])]]
    IN  FlattenSeq(posts)
        \o [c \in DOMAIN calls |->
               Inserting(Users, <<<<0, 9, 1>>, <<0, Null, 2>>>>, calls[c])]
        \o << Inserting(Badges, <<<<7, 4>>>>, <<Bare("returning")>>) >>
        \o AlikeNotes \o Misfits
Changing(start, entity, parts) ==
    LET all == AllChoices(parts) IN [i \in DOMAIN all |-> Program(start, entity, <<>>, all[i])]
Changes ==
    Changing("update", Users,
             <<<<<<>>, <<SetTo(2, 3)>>, <<SetTo(2, Null)>>, <<SetTo(3, 4), SetTo(2, 5)>>, <<SetTo(3, Null)>>,
                 <<SetTo(3, 4), SetTo(3, 5)>>>>,
               <<<<>>, <<Bare("all_rows")>>, <<Where(Age("Equal", 7))>>>>, MaybeReturning>>)
    \o Changing("update", Users,
             <<<<<<Where(Age("GreaterThan", 7)), SetTo(3, 4), Where(Compare(Users, "Equal", 3, 1)),
                   SetTo(2, 6)>>,
                 <<SetTo(3, 4), SetTo(2, 5), Where(Between(Users, 1, 1, 2)), Where(Between(Users, 1, 2, 3))>>>>>>)
    \o Changing("delete", Posts,
                <<<<<<>>, <<Bare("all_rows")>>, <<Where(NullTest("IsNull", 2))>>,
                    <<Where(IsIn(Posts, 2, <<1, 5>>))>>,
                    <<Where(Between(Posts, 1, 1, 3)), Where(Between(Posts, 1, 2, 4)),
                      Where(Compare(Posts, "NotEqual", 1, 3))>>,
                    <<Where(Between(Posts, 1, 1, 3)), Where(Between(Posts, 1, 2, 4)),
                      Where(Between(Posts, 1, 1, 3))>>>>, MaybeReturning>>)
    \o Changing("update", Badges, <<<<<<SetTo(2, 4), Bare("all_rows"), Bare("returning")>>>>>>)
\* What callers race with: two reads and two changes of one shape each but other values, an
\* insertion and one of its shape that is a mistake, and a query that has no statement.
Shared ==
    LET ageOf(team, age) == Program("update", Users, <<>>,
                                    <<SetTo(2, age), Where(Compare(Users, "Equal", 3, team))>>)
    IN  << Find(Users, <<Where(Age("GreaterThanOrEqual", 7))>>),
           Find(Users, <<Where(Age("GreaterThanOrEqual", 8))>>),
           ageOf(1, 8), ageOf(2, 9),
           Inserting(Users, <<<<0, 9, 1>>>>, <<>>), Inserting(Users, <<<<0, 9, Null>>>>, <<>>),
           Find(Users, <<Grouping(<<3, 3>>, <<CountRows>>)>>) >>
AllPrograms == Shared \o Reads \o Joins \o Groups \o Insertions \o Changes
\* TLC computes a definition of this module once, but what stands for a constant at each use.
AllOfThem == PreparedPrograms
PreparedOnce == AllOfThem

-----------------------------------------------------------------------------
(* What callers set out to run.                                              *)

Solo(calls) == [c \in Callers |-> IF c = CHOOSE d \in Callers : TRUE THEN calls ELSE <<>>]
\* One caller runs a program, then another with an equal shape or none.
AloneScripts ==
    LET alike(all, q) == {p \in DOMAIN all : p # q /\ all[p].shape_name = all[q].shape_name}
        of(all) == UNION {{Solo(<<q>>)} \union {Solo(<<q, p>>) : p \in alike(all, q)} :
                          q \in DOMAIN all}
    IN  Given(Prepared, of)
\* One caller runs two of the shared queries while the other runs one.
TogetherScripts ==
    {[c \in Callers |-> IF c = CHOOSE d \in Callers : TRUE THEN <<p, q>> ELSE <<r>>] :
        p, q, r \in DOMAIN Shared}
AllScripts == AloneScripts \union TogetherScripts
==============================================================================
