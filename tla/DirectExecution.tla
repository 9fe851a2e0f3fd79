--------------------------- MODULE DirectExecution ---------------------------
(***************************************************************************)
(* What the executor promises of the plan cache: every query is run by the   *)
(* statement rendered for it, or refused for what is wrong with it, whatever *)
(* the cache holds and whoever else is using it.                             *)
(***************************************************************************)
EXTENDS QueryIr

CONSTANTS
    Callers,
    Scripts,        \* what each caller may set out to run, one query after another
    Databases,      \* the states of the database at the start
    Replies(_, _)   \* to a query, on a database: [db, reply], each with the database after it

VARIABLES
    script,   \* what is left to run, of each caller
    asked,    \* the query a caller runs or ran last, if any
    answer,   \* its answer, once it has one
    db
vars == <<script, asked, answer, db>>

Init ==
    /\ script \in Scripts
    /\ asked = [c \in Callers |-> None]
    /\ answer = [c \in Callers |-> None]
    /\ db \in Databases

Submit(c) ==
    /\ asked[c] = None \/ answer[c] # None
    /\ script[c] # <<>>
    /\ script' = [script EXCEPT ![c] = Tail(@)]
    /\ asked' = [asked EXCEPT ![c] = Some(Head(script[c]))]
    /\ answer' = [answer EXCEPT ![c] = None]
    /\ UNCHANGED db

\* A query is answered in one step: nothing comes between its statement and its outcome.
Answer(c) ==
    /\ asked[c] # None /\ answer[c] = None
    /\ \E outcome \in Replies(asked[c][1], db) :
          /\ answer' = [answer EXCEPT ![c] = Some(outcome.reply)]
          /\ db' = outcome.db
    /\ UNCHANGED <<script, asked>>

Next == \E c \in Callers : Submit(c) \/ Answer(c)
Spec == Init /\ [][Next]_vars
==============================================================================
