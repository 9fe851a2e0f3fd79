--------------------------- MODULE MigratorProofs ---------------------------
(* Theorems about Migrator, for every set of runners, files and histories.  *)
EXTENDS Migrator, FiniteSetTheorems, TLAPS

(***************************************************************************)
(* Type correctness.                                                       *)
(***************************************************************************)

\* Leading picks a subset, whatever the count.
LEMMA LeadingSubset == ASSUME NEW S, NEW n PROVE Leading(S, n) \subseteq S
BY DEF Leading

\* Newest picks a subset, whatever the count.
LEMMA NewestSubset == ASSUME NEW S, NEW at, NEW n PROVE Newest(S, at, n) \subseteq S
BY DEF Newest

\* An idle call record has its type.
LEMMA IdleType == Idle \in Call
<1>1. -1 \in Versions \cup {-1}
  OBVIOUS
<1> QED BY <1>1, CountAssumption DEF Idle, Call, PCs, Kinds, Results

\* Moving a call to another statement keeps every record's type.
LEMMA GotoType ==
    ASSUME TypeOK, NEW r \in Runners, NEW pc \in PCs, Goto(r, pc)
    PROVE  run' \in [Runners -> Call]
<1> DEFINE c == [run[r] EXCEPT !.pc = pc]
<1>1. run[r] \in Call
  BY DEF TypeOK
<1>2. c \in Call
  BY <1>1 DEF Call
<1>3. run' = [run EXCEPT ![r] = c]
  BY DEF Goto
<1> HIDE DEF c
<1> QED BY <1>2, <1>3 DEF TypeOK

\* Ending a call keeps every record's type.
LEMMA ReturnType ==
    ASSUME TypeOK, NEW r \in Runners, NEW result \in Results, Return(r, result)
    PROVE  run' \in [Runners -> Call]
<1> DEFINE c == [run[r] EXCEPT !.pc = "idle", !.todo = {}, !.deferred = {},
                                !.cur = -1, !.result = result]
<1>1. run[r] \in Call
  BY DEF TypeOK
<1>2. c \in Call
  BY <1>1 DEF Call, PCs
<1>3. run' = [run EXCEPT ![r] = c]
  BY DEF Return
<1> HIDE DEF c
<1> QED BY <1>2, <1>3 DEF TypeOK

\* A stamp is a natural number.
LEMMA StampsNat == ASSUME TypeOK PROVE Stamps \subseteq Nat
BY StampAssumption

\* What a commit does to the database keeps the types of its tables.
LEMMA DurableType ==
    ASSUME TypeOK, NEW r \in Runners, Durable(r), run[r].cur \in Versions
    PROVE  /\ installed' \in BOOLEAN
           /\ history' \in SUBSET Versions
           /\ appliedAt' \in [Versions -> Nat]
           /\ net' \in [Versions -> Int]
           /\ fk' \in [Fks -> {"absent", "notvalid", "valid"}]
           /\ dirty' \in SUBSET Fks
<1>1. run[r] \in Call
  BY DEF TypeOK
<1>2. CASE Reverting(r)
  <2>1. CommitRevert(r) /\ UNCHANGED <<installed, dirty>>
    BY <1>2 DEF Durable
  <2> QED BY <2>1, <1>1 DEF TypeOK, CommitRevert, Call
<1>3. CASE ~Reverting(r)
  <2>1. CommitApply(r) /\ UNCHANGED <<installed, dirty>>
    BY <1>3 DEF Durable
  <2>2. run[r].stamp \in Nat
    BY <1>1 DEF Call
  <2> QED BY <2>1, <2>2, <1>1 DEF TypeOK, CommitApply
<1> QED BY <1>2, <1>3

\* A call inside a transaction, or validating what it staged, works on a version
\* of its work list; only validate reads the catalog.
CallOK(c) ==
    /\ \/ c.pc \in {"steps", "record", "commit"}
       \/ c.pc = "deferred" /\ c.kind # "validate"
       => c.cur \in c.todo
    /\ c.pc = "catalog" => c.kind = "validate"

CallsOK == \A r \in Runners : CallOK(run[r])

\* One call moves to record c; the others stay as they are.
Becomes(r, c) == c \in Call /\ CallOK(c) /\ run' = [run EXCEPT ![r] = c]

\* A call that becomes a well-formed record leaves all calls well formed.
LEMMA BecomesOK ==
    ASSUME TypeOK, CallsOK, NEW r \in Runners, NEW c, Becomes(r, c)
    PROVE  run' \in [Runners -> Call] /\ CallsOK'
BY DEF TypeOK, CallsOK, Becomes

\* The version a transaction works on is one of Versions.
LEMMA CurVersion ==
    ASSUME TypeOK, CallsOK, NEW r \in Runners,
           run[r].pc \in {"steps", "record", "commit"}
    PROVE  run[r].cur \in Versions /\ run[r].cur \in run[r].todo
BY DEF TypeOK, CallsOK, CallOK, Call

\* A call that ends is well formed.
LEMMA ReturnOK ==
    ASSUME TypeOK, CallsOK, NEW r \in Runners, NEW result \in Results, Return(r, result)
    PROVE  run' \in [Runners -> Call] /\ CallsOK'
<1>1. run' \in [Runners -> Call]
  BY ReturnType
<1>2. run'[r].pc = "idle" /\ \A o \in Runners \ {r} : run'[o] = run[o]
  BY DEF Return, TypeOK, Call
<1> QED BY <1>1, <1>2 DEF CallsOK, CallOK

\* A call that leaves the loop's work list alone and enters none of its
\* statements stays well formed.
LEMMA GotoOK ==
    ASSUME TypeOK, CallsOK, NEW r \in Runners, NEW pc \in PCs, Goto(r, pc),
           \/ pc \notin {"steps", "record", "commit", "deferred", "catalog"}
           \/ pc = "record" /\ run[r].pc = "steps"
    PROVE  run' \in [Runners -> Call] /\ CallsOK'
<1>1. run' \in [Runners -> Call]
  BY GotoType
<1>2. /\ run'[r].pc = pc /\ run'[r].cur = run[r].cur /\ run'[r].todo = run[r].todo
      /\ \A o \in Runners \ {r} : run'[o] = run[o]
  BY DEF Goto, TypeOK, Call
<1> QED BY <1>1, <1>2 DEF CallsOK, CallOK

\* A version that leaves the work list leaves a well-formed call.
LEMMA FinishedOK ==
    ASSUME TypeOK, NEW r \in Runners, run[r].cur \in Versions
    PROVE  Finished(r) \in Call /\ CallOK(Finished(r))
<1>1. run[r] \in Call
  BY DEF TypeOK
<1>2. Finished(r) \in Call
  BY <1>1 DEF Call, Finished, PCs
<1>3. Finished(r).pc = "next"
  BY <1>1 DEF Call, Finished
<1> QED BY <1>2, <1>3 DEF CallOK

\* The invariant every later one starts from.
TInv == TypeOK /\ CallsOK

LEMMA InitTInv == Init => TInv
<1> SUFFICES ASSUME Init PROVE TInv
  OBVIOUS
<1>1. TypeOK
  <2>1. run \in [Runners -> Call]
    BY IdleType DEF Init
  <2>2. appliedAt \in [Versions -> Nat] /\ net \in [Versions -> Int]
    BY DEF Init
  <2> QED BY <2>1, <2>2 DEF Init, TypeOK
<1>2. CallsOK
  BY DEF Init, CallsOK, CallOK, Idle
<1> QED BY <1>1, <1>2 DEF TInv

\* What a runner does to its call keeps every call well formed.
LEMMA RunStepOK ==
    ASSUME TInv, NEW r \in Runners,
           RunnerStep(r) \/ Crash(r) \/ (\E k \in KindsOf[r], c \in Counts : Start(r, k, c))
    PROVE  run' \in [Runners -> Call] /\ CallsOK'
<1> USE DEF TInv
<1>c. run[r] \in Call
  BY DEF TypeOK
<1>1. ASSUME NEW k \in KindsOf[r], NEW c \in Counts, Start(r, k, c)
      PROVE  run' \in [Runners -> Call] /\ CallsOK'
  <2> DEFINE d == [Idle EXCEPT !.pc = IF k = "validate" THEN "catalog" ELSE "install",
                              !.kind = k, !.count = c, !.calls = run[r].calls + 1,
                              !.owed = IF k = "validate" THEN NotValid ELSE {}]
  <2>1. k \in Kinds /\ c \in Nat
    BY KindsAssumption, CountAssumption
  <2>a. run[r].calls + 1 \in Nat
    BY <1>c DEF Call
  <2>b. (IF k = "validate" THEN "catalog" ELSE "install") \in PCs
    BY DEF PCs
  <2>c. (IF k = "validate" THEN NotValid ELSE {}) \in SUBSET Fks
    BY DEF NotValid
  <2>2. d \in Call
    BY <2>1, <2>a, <2>b, <2>c, IdleType DEF Call
  <2>3. d.pc \in {"catalog", "install"} /\ (d.pc = "catalog" => d.kind = "validate")
    BY DEF Idle
  <2>4. run' = [run EXCEPT ![r] = d]
    BY <1>1 DEF Start
  <2>5. Becomes(r, d)
    BY <2>2, <2>3, <2>4 DEF Becomes, CallOK
  <2> HIDE DEF d
  <2> QED BY <2>5, BecomesOK
<1>2. CASE HistoryExists(r)
  BY <1>2, GotoOK DEF HistoryExists, AfterInstall, PCs
<1>3. CASE CreateHistory(r)
  <2>1. CASE Goto(r, AfterInstall(r))
    BY <2>1, GotoOK DEF AfterInstall, PCs
  <2>2. CASE Return(r, "database")
    BY <2>2, ReturnOK DEF Results
  <2> QED BY <1>3, <2>1, <2>2 DEF CreateHistory
<1>4. CASE UnknownVersion(r)
  BY <1>4, ReturnOK DEF UnknownVersion, Results
<1>5. ASSUME NEW allow \in BOOLEAN, Review(r, allow)
      PROVE  run' \in [Runners -> Call] /\ CallsOK'
  <2> DEFINE planned == Leading(Pending(r), run[r].count)
             d == [run[r] EXCEPT !.pc = "read", !.plan = planned]
  <2>1. planned \subseteq Versions
    BY LeadingSubset, SetOfAssumption DEF Pending
  <2> HIDE DEF planned
  <2>2. d \in Call /\ d.pc = "read"
    BY <2>1, <1>c DEF Call, PCs
  <2>3. run' = [run EXCEPT ![r] = d] \/ Return(r, "ok") \/ Return(r, "refused")
    BY <1>5 DEF Review, planned
  <2>4. Becomes(r, d) \/ Return(r, "ok") \/ Return(r, "refused")
    BY <2>2, <2>3 DEF Becomes, CallOK
  <2> HIDE DEF d
  <2> QED BY <2>4, BecomesOK, ReturnOK DEF Results
<1>6. CASE ReadUp(r)
  <2> DEFINE planned == Leading(Pending(r), run[r].count)
             d == [run[r] EXCEPT !.pc = "next", !.todo = planned]
  <2>1. planned \subseteq Versions
    BY LeadingSubset, SetOfAssumption DEF Pending
  <2>2. run' = [run EXCEPT ![r] = d]
    BY <1>6 DEF ReadUp
  <2> HIDE DEF planned
  <2>3. d \in Call /\ d.pc = "next"
    BY <2>1, <1>c DEF Call, PCs
  <2>4. Becomes(r, d)
    BY <2>2, <2>3 DEF Becomes, CallOK
  <2> HIDE DEF d
  <2> QED BY <2>4, BecomesOK
<1>7. CASE ReadVetted(r)
  <2> DEFINE d == [run[r] EXCEPT !.pc = "next", !.todo = run[r].plan]
  <2>1. run' = [run EXCEPT ![r] = d] \/ Return(r, "refused") \/ Return(r, "stale")
    BY <1>7 DEF ReadVetted
  <2>2. d \in Call /\ d.pc = "next"
    BY <1>c DEF Call, PCs
  <2>3. Becomes(r, d) \/ Return(r, "refused") \/ Return(r, "stale")
    BY <2>1, <2>2 DEF Becomes, CallOK
  <2> HIDE DEF d
  <2> QED BY <2>3, BecomesOK, ReturnOK DEF Results
<1>8. CASE ReadDown(r)
  <2> DEFINE newest == Newest(history, appliedAt, run[r].count)
             d == [run[r] EXCEPT !.pc = "next", !.seen = appliedAt, !.todo = newest]
  <2>1. newest \subseteq Versions
    BY NewestSubset DEF TypeOK
  <2>2. run' = [run EXCEPT ![r] = d]
    BY <1>8 DEF ReadDown
  <2> HIDE DEF newest
  <2>3. d \in Call /\ d.pc = "next"
    BY <2>1, <1>c DEF Call, PCs, TypeOK
  <2>4. Becomes(r, d)
    BY <2>2, <2>3 DEF Becomes, CallOK
  <2> HIDE DEF d
  <2> QED BY <2>4, BecomesOK
<1>9. CASE LoopDone(r)
  BY <1>9, ReturnOK DEF LoopDone, Results
<1>10. CASE Begin(r)
  <2>1. PICK v \in Versions :
           /\ IsNext(r, v)
           /\ \/ Return(r, "irreversible")
              \/ Return(r, "render")
              \/ run' = [run EXCEPT ![r] = [run[r] EXCEPT !.pc = "steps", !.cur = v]]
    BY <1>10 DEF Begin
  <2> DEFINE d == [run[r] EXCEPT !.pc = "steps", !.cur = v]
  <2>2. d \in Call /\ d.cur = v /\ d.todo = run[r].todo
    BY <1>c DEF Call, PCs
  <2>3. v \in run[r].todo
    BY <2>1 DEF IsNext
  <2>4. Becomes(r, d) \/ Return(r, "irreversible") \/ Return(r, "render")
    BY <2>1, <2>2, <2>3 DEF Becomes, CallOK
  <2> HIDE DEF d
  <2> QED BY <2>4, BecomesOK, ReturnOK DEF Results
<1>11. CASE Steps(r)
  BY <1>11, GotoOK DEF Steps, PCs
<1>12. CASE InsertHistory(r)
  <2>1. CASE Return(r, "database")
    BY <2>1, ReturnOK DEF Results
  <2>2. ASSUME NEW s \in Stamps,
               run' = [run EXCEPT ![r] = [run[r] EXCEPT !.pc = "commit", !.stamp = s]]
        PROVE  run' \in [Runners -> Call] /\ CallsOK'
    <3> DEFINE d == [run[r] EXCEPT !.pc = "commit", !.stamp = s]
    <3>1. s \in Nat
      BY StampsNat
    <3>2. d \in Call /\ d.cur = run[r].cur /\ d.todo = run[r].todo
      BY <1>c, <3>1 DEF Call, PCs
    <3>3. run[r].cur \in run[r].todo
      BY <1>12, CurVersion DEF InsertHistory
    <3>4. Becomes(r, d)
      BY <2>2, <3>2, <3>3 DEF Becomes, CallOK
    <3> HIDE DEF d
    <3> QED BY <3>4, BecomesOK
  <2> QED BY <1>12, <2>1, <2>2 DEF InsertHistory
<1>13. CASE DeleteHistory(r)
  <2> DEFINE d(hit) == [run[r] EXCEPT !.pc = "commit", !.hit = hit]
  <2>1. run' = [run EXCEPT ![r] = d(TRUE)] \/ run' = [run EXCEPT ![r] = d(FALSE)]
    <3>1. CASE run[r].cur \in history
      BY <1>13, <3>1 DEF DeleteHistory
    <3>2. CASE run[r].cur \notin history
      <4>1. (run[r].cur \in history) = FALSE
        BY <3>2
      <4>2. run' = [run EXCEPT ![r] = d(run[r].cur \in history)]
        BY <1>13 DEF DeleteHistory
      <4> HIDE DEF d
      <4> QED BY <4>1, <4>2, Zenon
    <3> QED BY <3>1, <3>2
  <2>2. d(TRUE) \in Call /\ d(TRUE).cur = run[r].cur /\ d(TRUE).todo = run[r].todo
    BY <1>c DEF Call, PCs
  <2>3. d(FALSE) \in Call /\ d(FALSE).cur = run[r].cur /\ d(FALSE).todo = run[r].todo
    BY <1>c DEF Call, PCs
  <2>4. d(TRUE).pc = "commit" /\ d(FALSE).pc = "commit"
    BY <1>c DEF Call
  <2> HIDE DEF d
  <2>5. run[r].cur \in run[r].todo
    BY <1>13, CurVersion DEF DeleteHistory
  <2>6. Becomes(r, d(TRUE)) \/ Becomes(r, d(FALSE))
    BY <2>1, <2>2, <2>3, <2>4, <2>5 DEF Becomes, CallOK
  <2> QED BY <2>6, BecomesOK
<1>14. CASE Commit(r)
  <2> DEFINE fs == FkOf[run[r].cur]
             d == [run[r] EXCEPT !.pc = "deferred", !.deferred = fs,
                                 !.owed = run[r].owed \cup fs]
  <2>1. run[r].cur \in Versions /\ run[r].cur \in run[r].todo
    BY <1>14, CurVersion DEF Commit, Durable
  <2>2. CASE run' = [run EXCEPT ![r] = d] /\ run[r].kind = "upStaged"
    <3>1. fs \in SUBSET Fks
      BY <2>1, FkAssumption
    <3> HIDE DEF fs
    <3>2. d \in Call /\ d.cur = run[r].cur /\ d.todo = run[r].todo /\ d.pc = "deferred"
      BY <3>1, <1>c DEF Call, PCs
    <3>3. Becomes(r, d)
      BY <2>1, <2>2, <3>2 DEF Becomes, CallOK
    <3> HIDE DEF d
    <3> QED BY <3>3, BecomesOK
  <2>3. CASE run' = [run EXCEPT ![r] = Finished(r)]
    BY <2>1, <2>3, FinishedOK, BecomesOK DEF Becomes
  <2> QED BY <1>14, <2>2, <2>3 DEF Commit
<1>15. CASE CommitUnheard(r)
  BY <1>15, ReturnOK DEF CommitUnheard, Results
<1>16. CASE ReadCatalog(r)
  <2> DEFINE d == [run[r] EXCEPT !.pc = "deferred", !.deferred = NotValid]
  <2>1. run' = [run EXCEPT ![r] = d]
    BY <1>16 DEF ReadCatalog
  <2>2. d \in Call /\ d.kind = run[r].kind /\ d.pc = "deferred"
    BY <1>c DEF Call, PCs, NotValid
  <2>3. run[r].kind = "validate"
    BY <1>16 DEF ReadCatalog, CallsOK, CallOK
  <2>4. Becomes(r, d)
    BY <2>1, <2>2, <2>3 DEF Becomes, CallOK
  <2> HIDE DEF d
  <2> QED BY <2>4, BecomesOK
<1>17. ASSUME NEW f \in Fks, Validate(r, f) \/ FailValidation(r, f)
       PROVE  run' \in [Runners -> Call] /\ CallsOK'
  <2> DEFINE d == [run[r] EXCEPT !.deferred = run[r].deferred \ {f}]
             e == [run[r] EXCEPT !.deferred = run[r].deferred \ {f},
                                 !.failures = run[r].failures \cup {f}]
  <2>1. run' = [run EXCEPT ![r] = d] \/ run' = [run EXCEPT ![r] = e]
    BY <1>17 DEF Validate, FailValidation
  <2>2. /\ d \in Call /\ d.kind = run[r].kind /\ d.pc = run[r].pc
        /\ d.cur = run[r].cur /\ d.todo = run[r].todo
    BY <1>c DEF Call
  <2>3. /\ e \in Call /\ e.kind = run[r].kind /\ e.pc = run[r].pc
        /\ e.cur = run[r].cur /\ e.todo = run[r].todo
    BY <1>c DEF Call
  <2>4. Becomes(r, d) \/ Becomes(r, e)
    BY <2>1, <2>2, <2>3 DEF Becomes, CallsOK, CallOK
  <2> HIDE DEF d, e
  <2> QED BY <2>4, BecomesOK
<1>18. CASE ValidationDone(r)
  <2>1. CASE Return(r, "validation") \/ Return(r, "ok")
    BY <2>1, ReturnOK DEF Results
  <2>2. CASE run' = [run EXCEPT ![r] = Finished(r)] /\ run[r].kind # "validate"
    <3>1. Finished(r) \in Call /\ CallOK(Finished(r))
      <4>1. run[r].cur \in Versions
        BY <1>18, <2>2, <1>c DEF ValidationDone, CallsOK, CallOK, Call
      <4> QED BY <4>1, FinishedOK
    <3> QED BY <2>2, <3>1, BecomesOK DEF Becomes
  <2> QED BY <1>18, <2>1, <2>2 DEF ValidationDone
<1>19. CASE DatabaseError(r) \/ Crash(r)
  BY <1>19, ReturnOK DEF DatabaseError, Crash, Results
<1> QED
  BY <1>1, <1>2, <1>3, <1>4, <1>5, <1>6, <1>7, <1>8, <1>9, <1>10, <1>11, <1>12,
     <1>13, <1>14, <1>15, <1>16, <1>17, <1>18, <1>19 DEF RunnerStep

\* What any action of a runner does to the database keeps its types.
LEMMA DatabaseTypeStep ==
    ASSUME TInv, NEW r \in Runners, RunnerStep(r)
    PROVE  /\ installed' \in BOOLEAN
           /\ history' \in SUBSET Versions
           /\ appliedAt' \in [Versions -> Nat]
           /\ net' \in [Versions -> Int]
           /\ fk' \in [Fks -> {"absent", "notvalid", "valid"}]
           /\ dirty' \in SUBSET Fks
<1> USE DEF TInv
<1>1. CASE CreateHistory(r)
  BY <1>1 DEF CreateHistory, TypeOK
<1>2. CASE Commit(r) \/ CommitUnheard(r)
  <2>1. Durable(r)
    BY <1>2 DEF Commit, CommitUnheard
  <2>2. run[r].cur \in Versions
    BY <2>1, CurVersion DEF Durable
  <2> QED BY <2>1, <2>2, DurableType
<1>3. CASE \E f \in Fks : Validate(r, f)
  BY <1>3 DEF Validate, TypeOK
<1>4. CASE UNCHANGED dbVars
  BY <1>4 DEF dbVars, TypeOK
<1> QED
  BY <1>1, <1>2, <1>3, <1>4 DEF RunnerStep, HistoryExists, UnknownVersion,
     Review, ReadUp, ReadVetted, ReadDown, LoopDone, Begin, Steps, InsertHistory, DeleteHistory,
     ReadCatalog, FailValidation, ValidationDone, DatabaseError

LEMMA NextTInv == TInv /\ [Next]_vars => TInv'
<1> SUFFICES ASSUME TInv, [Next]_vars PROVE TInv'
  OBVIOUS
<1>1. CASE UNCHANGED vars
  BY <1>1 DEF vars, dbVars, TInv, TypeOK, CallsOK
<1>2. ASSUME NEW r \in Runners, RunnerStep(r)
      PROVE  TInv'
  BY <1>2, RunStepOK, DatabaseTypeStep DEF TInv, TypeOK
<1>3. ASSUME NEW r \in Runners,
             Crash(r) \/ (\E k \in KindsOf[r], c \in Counts : Start(r, k, c))
      PROVE  TInv'
  <2>1. run' \in [Runners -> Call] /\ CallsOK'
    BY <1>3, RunStepOK
  <2>2. UNCHANGED dbVars
    BY <1>3 DEF Crash, Start
  <2> QED BY <2>1, <2>2 DEF TInv, TypeOK, dbVars
<1>4. ASSUME NEW f \in Fks, WriteRows(f) \/ RepairRows(f)
      PROVE  TInv'
  BY <1>4 DEF WriteRows, RepairRows, TInv, TypeOK, CallsOK
<1> QED BY <1>1, <1>2, <1>3, <1>4 DEF Next

LEMMA TInvHolds == Spec => []TInv
BY InitTInv, NextTInv, PTL DEF Spec

\* The history table, the schema and every call in progress have their types
\* whatever the runners do.
THEOREM TypeCorrect == Spec => []TypeOK
<1>1. TInv => TypeOK
  BY DEF TInv
<1> QED BY <1>1, TInvHolds, PTL

(***************************************************************************)
(* What a step does to the calls and the history, in the few shapes the    *)
(* invariants below distinguish.                                           *)
(***************************************************************************)

Quiet == UNCHANGED <<history, net>>

Ends(r) == run'[r].pc = "idle" /\ run'[r].todo = {}

Starts(r) ==
    /\ run'[r].pc \in {"install", "catalog"}
    /\ run'[r].kind \in KindsOf[r]
    /\ run'[r].todo = {}

\* The same call at another statement, its work untouched.
Keeps(r) ==
    /\ run[r].pc # "idle"
    /\ run'[r].kind = run[r].kind
    /\ run'[r].todo = run[r].todo

Moves(r) ==
    /\ Keeps(r)
    /\ run'[r].cur = run[r].cur
    /\ run'[r].pc \notin {"idle", "steps", "commit"}
    /\ run'[r].pc = "record" => run[r].pc = "steps"
    /\ run'[r].pc = "deferred" /\ run[r].kind # "validate" => run[r].pc = "deferred"

\* A staged migration is committed; its validation comes next.
Stages(r) ==
    /\ Keeps(r)
    /\ run[r].kind = "upStaged"
    /\ run[r].pc = "commit"
    /\ run'[r].pc = "deferred"
    /\ run'[r].cur = run[r].cur

Picks(r) ==
    /\ Keeps(r)
    /\ run[r].pc = "next"
    /\ run'[r].pc = "steps"
    /\ IsNext(r, run'[r].cur)

Plans(r) ==
    /\ run[r].pc # "idle"
    /\ run'[r].kind = run[r].kind
    /\ run'[r].pc = "next"
    /\ \/ /\ run[r].kind # "down"
          /\ \E n \in Nat : run'[r].todo = Leading(Pending(r), n)
       \/ /\ run[r].kind = "down"
          /\ run'[r].todo \subseteq history

Inserts(r) ==
    /\ Keeps(r)
    /\ run[r].pc = "record"
    /\ run'[r].pc = "commit"
    /\ run'[r].cur = run[r].cur
    /\ run[r].kind # "down"
    /\ run[r].cur \notin history
    /\ \A o \in Runners \ {r} : ~HoldsRow(o, run[r].cur)

Deletes(r) ==
    /\ Keeps(r)
    /\ run[r].pc = "record"
    /\ run'[r].pc = "commit"
    /\ run'[r].cur = run[r].cur
    /\ run[r].kind = "down"
    /\ run[r].cur \in history => run'[r].hit

Finishes(r) ==
    /\ run[r].pc \in {"commit", "deferred"}
    /\ run[r].pc = "deferred" => run[r].kind # "validate"
    /\ run'[r].kind = run[r].kind
    /\ run'[r].pc = "next"
    /\ run'[r].todo = run[r].todo \ {run[r].cur}

Shape(r) ==
    /\ \A o \in Runners \ {r} : run'[o] = run[o]
    /\ \/ Ends(r) /\ (Quiet \/ Durable(r))
       \/ Quiet /\ (Starts(r) \/ Moves(r) \/ Picks(r) \/ Plans(r) \/ Inserts(r) \/ Deletes(r))
       \/ Quiet /\ Finishes(r) /\ run[r].pc = "deferred"
       \/ Durable(r) /\ Finishes(r)
       \/ Durable(r) /\ Stages(r)

LEMMA ReturnShape ==
    ASSUME TInv, NEW r \in Runners, NEW result, Return(r, result)
    PROVE  Ends(r) /\ \A o \in Runners \ {r} : run'[o] = run[o]
<1>1. run[r] \in Call /\ run \in [Runners -> Call]
  BY DEF TInv, TypeOK
<1> QED BY <1>1 DEF Return, Ends, Call

LEMMA FinishedShape ==
    ASSUME TInv, NEW r \in Runners, run' = [run EXCEPT ![r] = Finished(r)],
           run[r].pc \in {"commit", "deferred"},
           run[r].pc = "deferred" => run[r].kind # "validate"
    PROVE  Finishes(r) /\ \A o \in Runners \ {r} : run'[o] = run[o]
<1>1. run[r] \in Call /\ run \in [Runners -> Call]
  BY DEF TInv, TypeOK
<1> QED BY <1>1 DEF Finishes, Finished, Call

\* Every step of a runner, a crash and the start of a call has one of the shapes.
LEMMA StepShape ==
    ASSUME TInv, NEW r \in Runners,
           RunnerStep(r) \/ Crash(r) \/ (\E k \in KindsOf[r], c \in Counts : Start(r, k, c))
    PROVE  Shape(r)
<1>c. run[r] \in Call /\ run \in [Runners -> Call]
  BY DEF TInv, TypeOK
<1>1. ASSUME NEW k \in KindsOf[r], NEW c \in Counts, Start(r, k, c)
      PROVE  Shape(r)
  <2>1. Starts(r) /\ \A o \in Runners \ {r} : run'[o] = run[o]
    BY <1>1, <1>c, IdleType DEF Start, Starts, Idle, Call
  <2> QED BY <1>1, <2>1 DEF Start, dbVars, Shape, Quiet
<1>2. ASSUME NEW pc \in PCs, Goto(r, pc), pc \notin {"idle", "steps", "commit", "deferred"},
             pc = "record" => run[r].pc = "steps", run[r].pc # "idle"
      PROVE  Moves(r) /\ \A o \in Runners \ {r} : run'[o] = run[o]
  BY <1>2, <1>c DEF Goto, Moves, Keeps, Call
<1>3. CASE HistoryExists(r)
  BY <1>3, <1>2 DEF HistoryExists, AfterInstall, PCs, dbVars, Shape, Quiet
<1>4. CASE CreateHistory(r)
  BY <1>4, <1>2, ReturnShape DEF CreateHistory, AfterInstall, PCs, Shape, Quiet
<1>5. CASE \/ UnknownVersion(r) \/ LoopDone(r) \/ DatabaseError(r) \/ Crash(r)
  BY <1>5, ReturnShape
     DEF UnknownVersion, LoopDone, DatabaseError, Crash, dbVars, Shape, Quiet
<1>6. ASSUME NEW allow \in BOOLEAN, Review(r, allow)
      PROVE  Shape(r)
  <2> DEFINE planned == Leading(Pending(r), run[r].count)
  <2>1. \/ Return(r, "ok") \/ Return(r, "refused")
        \/ run' = [run EXCEPT ![r] = [run[r] EXCEPT !.pc = "read", !.plan = planned]]
    BY <1>6 DEF Review
  <2> HIDE DEF planned
  <2>2. \/ Ends(r) /\ \A o \in Runners \ {r} : run'[o] = run[o]
        \/ Moves(r) /\ \A o \in Runners \ {r} : run'[o] = run[o]
    <3>1. run[r].pc = "review"
      BY <1>6 DEF Review
    <3>2. CASE Return(r, "ok") \/ Return(r, "refused")
      BY <3>2, ReturnShape
    <3>3. CASE run' = [run EXCEPT ![r] = [run[r] EXCEPT !.pc = "read", !.plan = planned]]
      BY <3>1, <3>3, <1>c DEF Moves, Keeps, Call
    <3> QED BY <2>1, <3>2, <3>3
  <2> QED BY <1>6, <2>2 DEF Review, dbVars, Shape, Quiet
<1>7. CASE ReadUp(r)
  <2> DEFINE planned == Leading(Pending(r), run[r].count)
  <2>1. run' = [run EXCEPT ![r] = [run[r] EXCEPT !.pc = "next", !.todo = planned]]
    BY <1>7 DEF ReadUp
  <2>2. \E n \in Nat : planned = Leading(Pending(r), n)
    BY <1>c DEF Call
  <2> HIDE DEF planned
  <2>3. Plans(r) /\ \A o \in Runners \ {r} : run'[o] = run[o]
    BY <1>7, <2>1, <2>2, <1>c DEF ReadUp, Plans, Call
  <2> QED BY <1>7, <2>3 DEF ReadUp, dbVars, Shape, Quiet
<1>8. CASE ReadVetted(r)
  <2> DEFINE planned == run[r].plan
  <2>1. CASE Return(r, "refused") \/ Return(r, "stale")
    BY <1>8, <2>1, ReturnShape DEF ReadVetted, dbVars, Shape, Quiet
  <2>2. CASE /\ planned = Leading(Pending(r), Cardinality(planned))
             /\ run' = [run EXCEPT ![r] = [run[r] EXCEPT !.pc = "next", !.todo = planned]]
    <3>1. Cardinality(planned) \in Nat
      BY <1>c, VersionsAssumption, FS_Subset, FS_CardinalityType DEF Call
    <3>2. \E n \in Nat : planned = Leading(Pending(r), n)
      BY <3>1, <2>2
    <3>3. run[r].kind # "down"
      BY <1>8 DEF ReadVetted, Vetted
    <3>4. run[r].pc = "read"
      BY <1>8 DEF ReadVetted
    <3> HIDE DEF planned
    <3>5. Plans(r) /\ \A o \in Runners \ {r} : run'[o] = run[o]
      BY <2>2, <3>2, <3>3, <3>4, <1>c DEF Plans, Call
    <3> QED BY <1>8, <3>5 DEF ReadVetted, dbVars, Shape, Quiet
  <2> QED BY <1>8, <2>1, <2>2 DEF ReadVetted
<1>9. CASE ReadDown(r)
  <2> DEFINE newest == Newest(history, appliedAt, run[r].count)
  <2>1. newest \subseteq history
    BY NewestSubset
  <2>2. run' = [run EXCEPT ![r] = [run[r] EXCEPT !.pc = "next", !.seen = appliedAt,
                                                 !.todo = newest]]
    BY <1>9 DEF ReadDown
  <2> HIDE DEF newest
  <2>a. run[r].pc = "read" /\ run[r].kind = "down"
    BY <1>9 DEF ReadDown, Reverting
  <2>b. run'[r].pc = "next" /\ run'[r].kind = run[r].kind /\ run'[r].todo = newest
    BY <2>2, <1>c DEF Call
  <2>3. Plans(r) /\ \A o \in Runners \ {r} : run'[o] = run[o]
    BY <2>1, <2>2, <2>a, <2>b, <1>c DEF Plans
  <2> QED BY <1>9, <2>3 DEF ReadDown, dbVars, Shape, Quiet
<1>10. CASE Begin(r)
  <2>1. PICK v \in Versions :
           /\ IsNext(r, v)
           /\ \/ Return(r, "irreversible")
              \/ Return(r, "render")
              \/ run' = [run EXCEPT ![r] = [run[r] EXCEPT !.pc = "steps", !.cur = v]]
    BY <1>10 DEF Begin
  <2>2. CASE Return(r, "irreversible") \/ Return(r, "render")
    BY <1>10, <2>2, ReturnShape DEF Begin, dbVars, Shape, Quiet
  <2>3. CASE run' = [run EXCEPT ![r] = [run[r] EXCEPT !.pc = "steps", !.cur = v]]
    <3>1. run[r].pc = "next"
      BY <1>10 DEF Begin
    <3>2. run'[r].cur = v /\ run'[r].pc = "steps" /\ Keeps(r)
      BY <2>3, <3>1, <1>c DEF Keeps, Call
    <3>3. Picks(r) /\ \A o \in Runners \ {r} : run'[o] = run[o]
      BY <2>1, <2>3, <3>1, <3>2, <1>c DEF Picks
    <3> QED BY <1>10, <3>3 DEF Begin, dbVars, Shape, Quiet
  <2> QED BY <2>1, <2>2, <2>3
<1>11. CASE Steps(r)
  BY <1>11, <1>2 DEF Steps, PCs, dbVars, Shape, Quiet
<1>12. CASE InsertHistory(r)
  <2>1. CASE Return(r, "database")
    BY <1>12, <2>1, ReturnShape DEF InsertHistory, dbVars, Shape, Quiet
  <2>2. ASSUME NEW s \in Stamps, run[r].cur \notin history,
               run' = [run EXCEPT ![r] = [run[r] EXCEPT !.pc = "commit", !.stamp = s]]
        PROVE  Shape(r)
    <3>1. Inserts(r) /\ \A o \in Runners \ {r} : run'[o] = run[o]
      BY <1>12, <2>2, <1>c DEF InsertHistory, Reverting, Inserts, Keeps, Call
    <3> QED BY <1>12, <3>1 DEF InsertHistory, dbVars, Shape, Quiet
  <2> QED BY <1>12, <2>1, <2>2 DEF InsertHistory
<1>13. CASE DeleteHistory(r)
  <2> DEFINE d(hit) == [run[r] EXCEPT !.pc = "commit", !.hit = hit]
  <2>1. run' = [run EXCEPT ![r] = d(run[r].cur \in history)]
    BY <1>13 DEF DeleteHistory
  <2>2. run[r].pc = "record" /\ run[r].kind = "down"
    BY <1>13 DEF DeleteHistory, Reverting
  <2>3. PICK h : h = (run[r].cur \in history)
    OBVIOUS
  <2>4. run' = [run EXCEPT ![r] = d(h)] /\ (run[r].cur \in history => h)
    BY <2>1, <2>3, Zenon
  <2>5. Deletes(r) /\ \A o \in Runners \ {r} : run'[o] = run[o]
    BY <2>2, <2>4, <1>c DEF Deletes, Keeps, Call
  <2> QED BY <1>13, <2>5 DEF DeleteHistory, dbVars, Shape, Quiet
<1>14. CASE Commit(r)
  <2> DEFINE fs == FkOf[run[r].cur]
  <2>0. run[r].pc = "commit"
    BY <1>14 DEF Commit, Durable
  <2>1. CASE /\ run[r].kind = "upStaged"
             /\ run' = [run EXCEPT ![r] = [run[r] EXCEPT !.pc = "deferred", !.deferred = fs,
                                                      !.owed = run[r].owed \cup fs]]
    <3> HIDE DEF fs
    <3>1. Stages(r) /\ \A o \in Runners \ {r} : run'[o] = run[o]
      BY <2>0, <2>1, <1>c DEF Stages, Keeps, Call
    <3> QED BY <1>14, <2>1, <3>1 DEF Commit, Shape
  <2>2. CASE run' = [run EXCEPT ![r] = Finished(r)]
    <3>1. Finishes(r) /\ \A o \in Runners \ {r} : run'[o] = run[o]
      BY <2>0, <2>2, FinishedShape
    <3> QED BY <1>14, <3>1 DEF Commit, Shape
  <2> QED BY <1>14, <2>1, <2>2 DEF Commit
<1>15. CASE CommitUnheard(r)
  BY <1>15, ReturnShape DEF CommitUnheard, Shape
<1>16. CASE ReadCatalog(r)
  <2> DEFINE fs == NotValid
  <2>1. run' = [run EXCEPT ![r] = [run[r] EXCEPT !.pc = "deferred", !.deferred = fs]]
    BY <1>16 DEF ReadCatalog
  <2>2. run[r].kind = "validate" /\ run[r].pc = "catalog"
    BY <1>16 DEF ReadCatalog, TInv, CallsOK, CallOK
  <2> HIDE DEF fs
  <2>3. Moves(r) /\ \A o \in Runners \ {r} : run'[o] = run[o]
    BY <2>1, <2>2, <1>c DEF Moves, Keeps, Call
  <2> QED BY <1>16, <2>3 DEF ReadCatalog, dbVars, Shape, Quiet
<1>17. ASSUME NEW f \in Fks, Validate(r, f) \/ FailValidation(r, f)
       PROVE  Shape(r)
  <2>1. Moves(r) /\ \A o \in Runners \ {r} : run'[o] = run[o]
    BY <1>17, <1>c DEF Validate, FailValidation, Moves, Keeps, Call
  <2> QED BY <1>17, <2>1 DEF Validate, FailValidation, dbVars, Shape, Quiet
<1>18. CASE ValidationDone(r)
  <2>1. CASE Return(r, "validation") \/ Return(r, "ok")
    BY <1>18, <2>1, ReturnShape DEF ValidationDone, dbVars, Shape, Quiet
  <2>2. CASE run' = [run EXCEPT ![r] = Finished(r)] /\ run[r].kind # "validate"
    BY <1>18, <2>2, FinishedShape DEF ValidationDone, dbVars, Shape, Quiet
  <2> QED BY <1>18, <2>1, <2>2 DEF ValidationDone
<1> QED
  BY <1>1, <1>3, <1>4, <1>5, <1>6, <1>7, <1>8, <1>9, <1>10, <1>11, <1>12, <1>13,
     <1>14, <1>15, <1>16, <1>17, <1>18 DEF RunnerStep

(***************************************************************************)
(* The history and the schema agree as long as one runner alone reverts.   *)
(***************************************************************************)

SoleReverter(d) == \A r \in Runners \ {d} : "down" \notin KindsOf[r]

\* A revert in progress works through recorded versions and will affect its row.
RevertOK(c) ==
    c.pc # "idle" /\ c.kind = "down" =>
       c.todo \subseteq history /\ (c.pc = "commit" => c.hit)

\* An apply about to commit holds the only claim to an unrecorded version.
ApplyOK(r) ==
    run[r].pc = "commit" /\ run[r].kind # "down" =>
       /\ run[r].cur \notin history
       /\ \A o \in Runners \ {r} :
             run[o].pc = "commit" /\ run[o].kind # "down" => run[o].cur # run[r].cur

SInv ==
    /\ TInv
    /\ HistoryMatchesSchema
    /\ \A r \in Runners :
          /\ run[r].pc # "idle" => run[r].kind \in KindsOf[r]
          /\ RevertOK(run[r])
          /\ ApplyOK(r)

\* What one commit does to the history and the schema.
LEMMA DurableEffect ==
    ASSUME SInv, NEW r \in Runners, Durable(r)
    PROVE  /\ run[r].cur \in Versions /\ run[r].cur \in run[r].todo
           /\ HistoryMatchesSchema'
           /\ run[r].kind = "down" => history' = history \ {run[r].cur}
           /\ run[r].kind # "down" => history' = history \cup {run[r].cur}
<1> DEFINE v == run[r].cur
<1>1. TypeOK /\ CallsOK /\ HistoryMatchesSchema
  BY DEF SInv, TInv
<1>2. run[r].pc = "commit"
  BY DEF Durable
<1>3. v \in Versions /\ v \in run[r].todo
  BY <1>1, <1>2, CurVersion
<1>4. CASE run[r].kind = "down"
  <2>1. v \in history /\ run[r].hit
    BY <1>2, <1>3, <1>4 DEF SInv, RevertOK
  <2>2. history' = history \ {v} /\ net' = [net EXCEPT ![v] = @ - 1]
    BY <1>4, <2>1 DEF Durable, Reverting, CommitRevert
  <2> QED BY <1>1, <1>3, <1>4, <2>1, <2>2 DEF HistoryMatchesSchema, TypeOK
<1>5. CASE run[r].kind # "down"
  <2>1. v \notin history
    BY <1>2, <1>5 DEF SInv, ApplyOK
  <2>2. history' = history \cup {v} /\ net' = [net EXCEPT ![v] = @ + 1]
    BY <1>5 DEF Durable, Reverting, CommitApply
  <2> QED BY <1>1, <1>3, <1>5, <2>1, <2>2 DEF HistoryMatchesSchema, TypeOK
<1> QED BY <1>4, <1>5

LEMMA SInvRunner ==
    ASSUME SInv, TInv', NEW d, SoleReverter(d), NEW r \in Runners, Shape(r)
    PROVE  SInv'
<1>0. TypeOK /\ TypeOK' /\ HistoryMatchesSchema
  BY DEF SInv, TInv
<1>1. run[r].pc # "idle" /\ run[r].kind = "down" => \A o \in Runners \ {r} :
         run[o].pc # "idle" => run[o].kind # "down"
  BY DEF SInv, SoleReverter
<1>2. \A o \in Runners \ {r} : run'[o] = run[o]
  BY DEF Shape
<1>3. CASE Quiet
  <2>1. history' = history /\ HistoryMatchesSchema'
    BY <1>0, <1>3 DEF Quiet, HistoryMatchesSchema
  <2>2. \/ Ends(r) \/ Starts(r) \/ Moves(r) \/ Picks(r) \/ Plans(r)
        \/ Inserts(r) \/ Deletes(r) \/ Finishes(r) \/ Stages(r)
    BY DEF Shape
  <2>3. run'[r].pc # "idle" => run'[r].kind \in KindsOf[r]
    BY <2>2 DEF SInv, Ends, Starts, Moves, Picks, Plans, Inserts, Deletes, Finishes, Stages, Keeps
  <2>4. RevertOK(run[r])' /\ (run'[r].pc = "commit" => Inserts(r) \/ Deletes(r))
    BY <2>1, <2>2 DEF SInv, RevertOK, Ends, Starts, Moves, Picks, Plans, Inserts,
                      Deletes, Finishes, Stages, Keeps, TInv, CallsOK, CallOK
  <2>5. ASSUME NEW o \in Runners
        PROVE  ApplyOK(o)'
    <3>1. CASE Inserts(r)
      <4>1. \A p \in Runners \ {r} :
               run[p].pc = "commit" /\ run[p].kind # "down" => run[p].cur # run[r].cur
        BY <3>1 DEF Inserts, HoldsRow, Reverting
      <4> QED BY <1>2, <2>1, <3>1, <4>1 DEF Inserts, Keeps, ApplyOK, SInv
    <3>2. CASE ~Inserts(r)
      <4>1. run'[r].pc = "commit" => run'[r].kind = "down"
        BY <2>4, <3>2 DEF Deletes, Keeps
      <4> QED BY <1>2, <2>1, <4>1 DEF ApplyOK, SInv
    <3> QED BY <3>1, <3>2
  <2>6. \A o \in Runners \ {r} : RevertOK(run[o])' /\ (run'[o].pc # "idle" => run'[o].kind \in KindsOf[o])
    BY <1>2, <2>1 DEF SInv, RevertOK
  <2> QED BY <2>1, <2>3, <2>4, <2>5, <2>6 DEF SInv
<1>4. CASE /\ Durable(r)
           /\ Ends(r) \/ Finishes(r) \/ Stages(r)
  <2>0. run[r].pc = "commit" /\ run'[r].pc # "commit"
    BY <1>4 DEF Durable, Ends, Stages, Finishes
  <2>1. /\ HistoryMatchesSchema'
        /\ run[r].kind = "down" => history' = history \ {run[r].cur}
        /\ run[r].kind # "down" => history' = history \cup {run[r].cur}
    BY <1>4, DurableEffect
  <2>2. \/ Ends(r) \/ Finishes(r) \/ Stages(r)
    BY <1>4
  <2>3. run'[r].pc # "idle" => run'[r].kind \in KindsOf[r] /\ run'[r].kind = run[r].kind
    BY <2>0, <2>2 DEF SInv, Ends, Stages, Finishes, Keeps
  <2>4. RevertOK(run[r])'
    BY <2>0, <2>1, <2>2, <2>3 DEF SInv, RevertOK, Ends, Stages, Finishes, Keeps
  <2>5. ASSUME NEW o \in Runners \ {r}
        PROVE  RevertOK(run[o])'
    <3>1. run'[o] = run[o]
      BY <1>2
    <3>2. CASE run[o].pc # "idle" /\ run[o].kind = "down"
      <4>1. run[r].kind # "down"
        BY <1>1, <2>0, <3>2
      <4> QED BY <2>1, <3>1, <4>1 DEF SInv, RevertOK
    <3> QED BY <3>1, <3>2 DEF RevertOK
  <2>6. ASSUME NEW o \in Runners
        PROVE  ApplyOK(o)'
    BY <1>2, <2>0, <2>1 DEF SInv, ApplyOK
  <2> QED BY <1>2, <2>1, <2>3, <2>4, <2>5, <2>6 DEF SInv
<1> QED BY <1>3, <1>4 DEF Shape

LEMMA SInvNext ==
    ASSUME SInv, [Next]_vars, NEW d, SoleReverter(d)
    PROVE  SInv'
<1>0. TInv /\ TInv'
  BY NextTInv DEF SInv
<1>1. CASE UNCHANGED <<run, history, net>>
  BY <1>0, <1>1 DEF SInv, HistoryMatchesSchema, RevertOK, ApplyOK
<1>2. ASSUME NEW r \in Runners,
             RunnerStep(r) \/ Crash(r) \/ (\E k \in KindsOf[r], c \in Counts : Start(r, k, c))
      PROVE  SInv'
  BY <1>0, <1>2, StepShape, SInvRunner
<1> QED BY <1>1, <1>2 DEF Next, vars, dbVars, WriteRows, RepairRows

LEMMA SInvInit == Init => SInv
<1> SUFFICES ASSUME Init PROVE SInv
  OBVIOUS
<1>1. TInv
  BY InitTInv
<1>2. \A r \in Runners : run[r].pc = "idle"
  BY DEF Init, Idle
<1>3. HistoryMatchesSchema
  BY DEF Init, HistoryMatchesSchema
<1> QED BY <1>1, <1>2, <1>3 DEF SInv, RevertOK, ApplyOK

\* However many runners apply at once, crash, or lose an answer, a version is
\* recorded exactly when its steps are in force, if one runner alone reverts.
THEOREM SchemaAgrees ==
    ASSUME NEW d, SoleReverter(d)
    PROVE  Spec => []HistoryMatchesSchema
<1>1. Init => SInv
  BY SInvInit
<1>2. SInv /\ [Next]_vars => SInv'
  BY SInvNext
<1>3. SInv => HistoryMatchesSchema
  BY DEF SInv
<1> QED BY <1>1, <1>2, <1>3, PTL DEF Spec

\* The only runner that reverts never runs the down steps of a version that is
\* not applied.
THEOREM SoleReverterRevertsApplied ==
    ASSUME NEW d, SoleReverter(d)
    PROVE  Spec => RevertsOnlyApplied
<1>1. Init => SInv
  BY SInvInit
<1>2. SInv /\ [Next]_vars => SInv'
  BY SInvNext
<1>3. SInv => \A r \in Runners : Durable(r) /\ Reverting(r) => run[r].cur \in history
  <2> SUFFICES ASSUME SInv, NEW r \in Runners, Durable(r), Reverting(r)
               PROVE  run[r].cur \in history
    OBVIOUS
  <2>1. run[r].cur \in run[r].todo
    BY CurVersion DEF Durable, SInv, TInv
  <2> QED BY <2>1 DEF Durable, Reverting, SInv, RevertOK
<1> QED BY <1>1, <1>2, <1>3, PTL DEF Spec, RevertsOnlyApplied

(***************************************************************************)
(* Versions are applied in order as long as no runner reverts.             *)
(***************************************************************************)

NobodyReverts == \A r \in Runners : "down" \notin KindsOf[r]

\* Whatever runner r has yet to apply, everything below it that r knows is
\* recorded or comes first in the same list.
Closed(r) ==
    \A w \in run[r].todo : \A u \in SetOf[r] : u < w => u \in history \cup run[r].todo

\* The version in a transaction is the lowest of the list; one that is being
\* validated is recorded.
LowestFirst(r) ==
    /\ run[r].pc \in {"steps", "record", "commit"} => \A u \in run[r].todo : run[r].cur <= u
    /\ run[r].pc = "deferred" /\ run[r].kind # "validate" => run[r].cur \in history

LInv ==
    /\ TInv
    /\ \A r \in Runners :
          /\ run[r].pc # "idle" => run[r].kind \in KindsOf[r]
          /\ Closed(r)
          /\ LowestFirst(r)

\* The leading n of a finite set of numbers is closed downwards in it.
LEMMA LeadingClosed ==
    ASSUME NEW S, S \subseteq Nat, IsFiniteSet(S), NEW n \in Nat,
           NEW w \in Leading(S, n), NEW u \in S, u < w
    PROVE  u \in Leading(S, n)
<1> DEFINE below(x) == {y \in S : y < x}
<1>1. below(u) \subseteq below(w)
  <2>1. w \in Nat /\ u \in Nat
    BY LeadingSubset
  <2>2. \A y \in Nat : y < u => y < w
    BY <2>1
  <2> QED BY <2>2
<1>2. IsFiniteSet(below(w)) /\ IsFiniteSet(below(u))
  BY FS_Subset
<1>3. Cardinality(below(u)) <= Cardinality(below(w))
  BY <1>1, <1>2, FS_Subset
<1>4. Cardinality(below(u)) \in Nat /\ Cardinality(below(w)) \in Nat
  BY <1>2, FS_CardinalityType
<1>5. Cardinality(below(w)) < n
  BY DEF Leading
<1>6. Cardinality(below(u)) < n
  BY <1>3, <1>4, <1>5
<1> QED BY <1>6 DEF Leading

\* The pending versions of a runner are finitely many numbers.
LEMMA PendingFinite ==
    ASSUME NEW r \in Runners
    PROVE  Pending(r) \subseteq Nat /\ IsFiniteSet(Pending(r)) /\ SetOf[r] \subseteq Versions
<1>1. Pending(r) \subseteq Versions /\ SetOf[r] \subseteq Versions
  BY SetOfAssumption DEF Pending
<1> QED BY <1>1, VersionsAssumption, FS_Subset

\* When no runner reverts, a commit adds one version to the history.
LEMMA DurableAdds ==
    ASSUME LInv, NobodyReverts, NEW r \in Runners, Durable(r)
    PROVE  /\ run[r].cur \in Versions /\ run[r].cur \in run[r].todo
           /\ history' = history \cup {run[r].cur}
           /\ \A u \in Pending(r) : run[r].cur <= u
<1>1. run[r].pc = "commit" /\ TypeOK /\ CallsOK
  BY DEF Durable, LInv, TInv
<1>2. ~Reverting(r)
  BY <1>1 DEF LInv, NobodyReverts, Reverting
<1>3. run[r].cur \in Versions /\ run[r].cur \in run[r].todo
  BY <1>1, CurVersion
<1>4. history' = history \cup {run[r].cur}
  BY <1>2 DEF Durable, CommitApply
<1>5. ASSUME NEW u \in Pending(r)
      PROVE  run[r].cur <= u
  <2>1. run[r].cur \in Nat /\ u \in Nat
    BY <1>3, PendingFinite, VersionsAssumption
  <2>2. CASE u < run[r].cur
    <3>1. u \in SetOf[r] /\ u \notin history
      BY DEF Pending
    <3>2. u \in run[r].todo
      BY <1>3, <2>2, <3>1 DEF LInv, Closed
    <3> QED BY <1>1, <3>2 DEF LInv, LowestFirst
  <2> QED BY <2>1, <2>2
<1> QED BY <1>3, <1>4, <1>5

LEMMA LInvRunner ==
    ASSUME LInv, TInv', NobodyReverts, NEW r \in Runners, Shape(r)
    PROVE  LInv'
<1>1. \A o \in Runners \ {r} : run'[o] = run[o]
  BY DEF Shape
<1>2. history \subseteq history' /\ (Durable(r) => run[r].cur \in history')
  BY DurableAdds DEF Shape, Quiet
<1>3. ASSUME NEW o \in Runners \ {r}
      PROVE  /\ run'[o].pc # "idle" => run'[o].kind \in KindsOf[o]
             /\ Closed(o)' /\ LowestFirst(o)'
  BY <1>1, <1>2 DEF LInv, Closed, LowestFirst
<1>4. run[r].pc # "idle" => run[r].kind # "down"
  BY DEF LInv, NobodyReverts
<1>5. \/ Ends(r) \/ Starts(r) \/ Moves(r) \/ Picks(r) \/ Plans(r)
      \/ Inserts(r) \/ Deletes(r)
      \/ Durable(r) /\ Stages(r)
      \/ Finishes(r) /\ (run[r].pc = "deferred" \/ Durable(r))
  BY DEF Shape
<1>6. run'[r].pc # "idle" => run'[r].kind \in KindsOf[r]
  BY <1>5 DEF LInv, Ends, Starts, Moves, Picks, Plans, Inserts, Deletes, Finishes, Stages, Keeps
<1>7. Closed(r)'
  <2>1. CASE Ends(r) \/ Starts(r)
    BY <2>1 DEF Ends, Starts, Closed
  <2>2. CASE Moves(r) \/ Picks(r) \/ Inserts(r) \/ Deletes(r) \/ Stages(r)
    BY <2>2, <1>2 DEF Moves, Stages, Picks, Inserts, Deletes, Keeps, Closed, LInv
  <2>3. CASE Plans(r)
    <3>1. PICK n \in Nat : run'[r].todo = Leading(Pending(r), n)
      BY <2>3, <1>4 DEF Plans
    <3>2. ASSUME NEW w \in run'[r].todo, NEW u \in SetOf[r], u < w, u \notin history
          PROVE  u \in run'[r].todo
      <4>1. u \in Pending(r) /\ w \in Leading(Pending(r), n)
        BY <3>1, <3>2 DEF Pending
      <4>2. Pending(r) \subseteq Nat /\ IsFiniteSet(Pending(r))
        BY PendingFinite
      <4>3. u \in Leading(Pending(r), n)
        BY <3>2, <4>1, <4>2, LeadingClosed
      <4> QED BY <3>1, <4>3
    <3> QED BY <3>2, <1>2 DEF Closed
  <2>4. CASE Finishes(r) /\ (run[r].pc = "deferred" \/ Durable(r))
    <3>1. run[r].cur \in history'
      BY <2>4, <1>2 DEF Finishes, LInv, LowestFirst
    <3>2. run'[r].todo = run[r].todo \ {run[r].cur}
      BY <2>4 DEF Finishes
    <3> QED BY <3>1, <3>2, <1>2 DEF Closed, LInv
  <2> QED BY <1>5, <2>1, <2>2, <2>3, <2>4
<1>8. LowestFirst(r)'
  <2>1. CASE Ends(r) \/ Starts(r) \/ Plans(r) \/ Finishes(r)
    BY <2>1 DEF Ends, Starts, Plans, Finishes, LowestFirst
  <2>2. CASE Inserts(r) \/ Deletes(r)
    BY <2>2 DEF Inserts, Deletes, Keeps, LowestFirst, LInv
  <2>3. CASE Moves(r)
    BY <2>3, <1>2 DEF Moves, Keeps, LowestFirst, LInv
  <2>5. CASE Durable(r) /\ Stages(r)
    BY <2>5, <1>2 DEF Stages, LowestFirst
  <2>4. CASE Picks(r)
    <3>1. IsNext(r, run'[r].cur) /\ run'[r].todo = run[r].todo /\ run[r].kind # "down"
      BY <2>4, <1>4 DEF Picks, Keeps
    <3>2. run[r].todo \subseteq Nat
      BY VersionsAssumption DEF LInv, TInv, TypeOK, Call
    <3>3. \A u \in run[r].todo : run'[r].cur <= u
      BY <3>1, <3>2 DEF IsNext
    <3> QED BY <2>4, <3>1, <3>3 DEF Picks, LowestFirst
  <2> QED BY <1>5, <2>1, <2>2, <2>3, <2>4, <2>5
<1> QED BY <1>3, <1>6, <1>7, <1>8 DEF LInv

LEMMA LInvNext ==
    ASSUME LInv, [Next]_vars, NobodyReverts
    PROVE  LInv'
<1>0. TInv /\ TInv'
  BY NextTInv DEF LInv
<1>1. CASE UNCHANGED <<run, history>>
  BY <1>0, <1>1 DEF LInv, Closed, LowestFirst
<1>2. ASSUME NEW r \in Runners,
             RunnerStep(r) \/ Crash(r) \/ (\E k \in KindsOf[r], c \in Counts : Start(r, k, c))
      PROVE  LInv'
  BY <1>0, <1>2, StepShape, LInvRunner
<1> QED BY <1>1, <1>2 DEF Next, vars, dbVars, WriteRows, RepairRows

LEMMA LInvInit == Init => LInv
<1> SUFFICES ASSUME Init PROVE LInv
  OBVIOUS
<1>1. TInv
  BY InitTInv
<1>2. \A r \in Runners : run[r].pc = "idle" /\ run[r].todo = {}
  BY DEF Init, Idle
<1> QED BY <1>1, <1>2 DEF LInv, Closed, LowestFirst

\* Without reverts a runner commits a version only while it is the lowest it has
\* pending, whatever the other runners committed since it read the history.
THEOREM LeadingApplied == NobodyReverts => (Spec => AppliesLeading)
<1> SUFFICES ASSUME NobodyReverts PROVE Spec => AppliesLeading
  OBVIOUS
<1>1. Init => LInv
  BY LInvInit
<1>2. LInv /\ [Next]_vars => LInv'
  BY LInvNext
<1>3. LInv => \A r \in Runners :
                 Durable(r) /\ ~Reverting(r) => \A u \in Pending(r) : run[r].cur <= u
  BY DurableAdds
<1> QED BY <1>1, <1>2, <1>3, PTL DEF Spec, AppliesLeading

\* Without reverts, and when all runners load the same files, the recorded
\* versions never have a gap.
THEOREM NoGapsEver ==
    ASSUME NobodyReverts, SetOf = [r \in Runners |-> Versions]
    PROVE  Spec => []NoGaps
<1>1. Init => LInv /\ NoGaps
  BY LInvInit DEF Init, NoGaps
<1>2. ASSUME LInv, NoGaps, [Next]_vars
      PROVE  LInv' /\ NoGaps'
  <2>1. LInv'
    BY <1>2, LInvNext
  <2>2. history' = history => NoGaps'
    BY <1>2 DEF NoGaps
  <2>3. ASSUME NEW r \in Runners, Durable(r)
        PROVE  NoGaps'
    <3> DEFINE v == run[r].cur
    <3>1. history' = history \cup {v} /\ v \in Versions /\ (\A u \in Pending(r) : v <= u)
      BY <1>2, <2>3, DurableAdds
    <3>2. Pending(r) = Versions \ history
      BY DEF Pending
    <3>3. ASSUME NEW u \in Versions, u < v
          PROVE  u \in history
      <4>1. u \in Nat /\ v \in Nat
        BY <3>1, VersionsAssumption
      <4> QED BY <3>1, <3>2, <3>3, <4>1
    <3> QED BY <1>2, <3>1, <3>3 DEF NoGaps
  <2>4. ASSUME NEW r \in Runners,
               RunnerStep(r) \/ Crash(r) \/ (\E k \in KindsOf[r], c \in Counts : Start(r, k, c))
        PROVE  NoGaps'
    <3>1. Shape(r)
      BY <1>2, <2>4, StepShape DEF LInv
    <3> QED BY <2>2, <2>3, <3>1 DEF Shape, Quiet
  <2> QED BY <1>2, <2>1, <2>2, <2>4 DEF Next, vars, dbVars, WriteRows, RepairRows
<1> QED BY <1>1, <1>2, PTL DEF Spec

(***************************************************************************)
(* What a transaction past its steps knows of the foreign keys it adds: it *)
(* holds them alone, so nothing another runner does concerns them.         *)
(***************************************************************************)

\* A call of validate only reads the catalog and validates.
ValidateOK(c) == c.kind = "validate" => c.pc \in {"idle", "catalog", "deferred"}

\* A transaction past its steps holds its foreign keys alone, and those an apply
\* adds are still absent.
LocksOK(r) ==
    run[r].pc \in {"record", "commit"} =>
       \A f \in FkOf[run[r].cur] :
          /\ \A o \in Runners \ {r} : ~HoldsLock(o, f)
          /\ run[r].kind # "down" => fk[f] = "absent"

FInv ==
    /\ TInv
    /\ \A r \in Runners : ValidateOK(run[r]) /\ LocksOK(r)

\* What a step does to the foreign keys, and to the list of versions to report.
Settles(r) ==
    /\ fk' = fk
    /\ run'[r].pc \notin {"record", "commit", "deferred"}
    /\ ValidateOK(run'[r])
    /\ \/ run'[r].kind = run[r].kind /\ run'[r].done = run[r].done
       \/ run'[r].done = {}

Reads(r) ==
    /\ fk' = fk
    /\ run'[r].pc = "deferred"
    /\ run'[r].kind = "validate"

\* A transaction gets past a statement of its own.
Holds(r) ==
    /\ fk' = fk
    /\ \/ Steps(r) /\ run'[r].pc = "record"
       \/ run[r].pc = "record" /\ run'[r].pc = "commit"
    /\ run[r].kind # "validate"
    /\ run'[r].kind = run[r].kind /\ run'[r].cur = run[r].cur /\ run'[r].done = run[r].done

\* A transaction commits, and its call returns, reports the version or validates.
Releases(r) ==
    /\ Durable(r)
    /\ run'[r].kind = run[r].kind
    /\ \/ run'[r].pc = "idle" /\ run'[r].done = run[r].done
       \/ /\ run[r].kind # "upStaged"
          /\ run'[r].pc = "next" /\ run'[r].done = run[r].done \cup {run[r].cur}
       \/ /\ run'[r].pc = "deferred" /\ run'[r].cur = run[r].cur
          /\ run'[r].deferred = FkOf[run[r].cur] /\ run'[r].done = run[r].done

\* A validation succeeds, or is remembered as failed.
Validates(r) ==
    \E f \in Fks :
       /\ Validate(r, f) \/ FailValidation(r, f)
       /\ run'[r].pc = "deferred" /\ run'[r].kind = run[r].kind
       /\ run'[r].cur = run[r].cur /\ run'[r].done = run[r].done
       /\ run'[r].deferred = run[r].deferred \ {f}
       /\ \/ run'[r].failures # {}
          \/ fk' = [fk EXCEPT ![f] = "valid"] /\ run'[r].failures = run[r].failures

\* All of a staged version's validations succeeded: it is reported.
Reports(r) ==
    /\ fk' = fk
    /\ run[r].pc = "deferred" /\ run[r].deferred = {}
    /\ run[r].failures = {} /\ run[r].kind # "validate"
    /\ run'[r].kind = run[r].kind
    /\ run'[r].pc = "next" /\ run'[r].done = run[r].done \cup {run[r].cur}

FkShape(r) ==
    /\ \A o \in Runners \ {r} : run'[o] = run[o]
    /\ dirty' = dirty
    /\ Settles(r) \/ Reads(r) \/ Holds(r) \/ Releases(r) \/ Validates(r) \/ Reports(r)

\* A call that returns keeps what it has done.
LEMMA ReturnSettles ==
    ASSUME TInv, NEW r \in Runners, NEW result, Return(r, result)
    PROVE  /\ \A o \in Runners \ {r} : run'[o] = run[o]
           /\ run'[r].pc = "idle" /\ run'[r].kind = run[r].kind /\ run'[r].done = run[r].done
<1>1. run[r] \in Call /\ run \in [Runners -> Call]
  BY DEF TInv, TypeOK
<1> QED BY <1>1 DEF Return, Call

\* Every step of a runner has one of the shapes.
LEMMA StepFkShape ==
    ASSUME FInv, NEW r \in Runners,
           RunnerStep(r) \/ Crash(r) \/ (\E k \in KindsOf[r], c \in Counts : Start(r, k, c))
    PROVE  FkShape(r)
<1>c. run[r] \in Call /\ run \in [Runners -> Call] /\ TInv /\ ValidateOK(run[r])
  BY DEF FInv, TInv, TypeOK
<1>e. ASSUME NEW result, Return(r, result), fk' = fk, dirty' = dirty
      PROVE  FkShape(r)
  BY <1>e, <1>c, ReturnSettles DEF FkShape, Settles, ValidateOK
<1>m. ASSUME NEW d, run' = [run EXCEPT ![r] = d], fk' = fk, dirty' = dirty,
             d.pc \in {"create", "review", "read", "next", "steps"},
             d.kind = run[r].kind, d.done = run[r].done, run[r].kind # "validate"
      PROVE  FkShape(r)
  BY <1>m, <1>c DEF FkShape, Settles, ValidateOK
<1>n. run[r].pc \notin {"idle", "catalog", "deferred"} => run[r].kind # "validate"
  BY <1>c DEF ValidateOK
<1>1. ASSUME NEW k \in KindsOf[r], NEW c \in Counts, Start(r, k, c)
      PROVE  FkShape(r)
  <2>1. /\ run'[r].pc \in {"install", "catalog"} /\ run'[r].done = {}
        /\ run'[r].kind = "validate" => run'[r].pc = "catalog"
    BY <1>1, <1>c, IdleType DEF Start, Idle, Call
  <2> QED BY <1>1, <1>c, <2>1 DEF Start, dbVars, FkShape, Settles, ValidateOK
<1>3. CASE HistoryExists(r)
  <2> DEFINE pc == IF installed THEN AfterInstall(r) ELSE "create"
             d == [run[r] EXCEPT !.pc = pc]
  <2>1. run' = [run EXCEPT ![r] = d]
    BY <1>3 DEF HistoryExists, Goto
  <2>2. d.pc \in {"create", "review", "read"} /\ d.kind = run[r].kind /\ d.done = run[r].done
    BY <1>c DEF Call, AfterInstall
  <2> HIDE DEF d
  <2> QED BY <1>3, <2>1, <2>2, <1>m, <1>n DEF HistoryExists, dbVars
<1>4. CASE CreateHistory(r)
  <2>1. CASE Return(r, "database")
    BY <1>4, <2>1, <1>e DEF CreateHistory
  <2>2. CASE Goto(r, AfterInstall(r))
    <3> DEFINE d == [run[r] EXCEPT !.pc = AfterInstall(r)]
    <3>1. run' = [run EXCEPT ![r] = d]
      BY <2>2 DEF Goto
    <3>2. d.pc \in {"create", "review", "read"} /\ d.kind = run[r].kind /\ d.done = run[r].done
      BY <1>c DEF Call, AfterInstall
    <3> HIDE DEF d
    <3> QED BY <1>4, <3>1, <3>2, <1>m, <1>n DEF CreateHistory
  <2> QED BY <1>4, <2>1, <2>2 DEF CreateHistory
<1>5. CASE \/ UnknownVersion(r) \/ LoopDone(r) \/ DatabaseError(r) \/ Crash(r)
  BY <1>5, <1>e DEF UnknownVersion, LoopDone, DatabaseError, Crash, dbVars
<1>6. ASSUME NEW allow \in BOOLEAN, Review(r, allow)
      PROVE  FkShape(r)
  <2> DEFINE d == [run[r] EXCEPT !.pc = "read", !.plan = Leading(Pending(r), run[r].count)]
  <2>1. \/ Return(r, "ok") \/ Return(r, "refused") \/ run' = [run EXCEPT ![r] = d]
    BY <1>6 DEF Review
  <2>2. d.pc = "read" /\ d.kind = run[r].kind /\ d.done = run[r].done
    BY <1>c DEF Call
  <2> HIDE DEF d
  <2> QED BY <1>6, <2>1, <2>2, <1>e, <1>m, <1>n DEF Review, dbVars
<1>7. CASE ReadUp(r)
  <2> DEFINE d == [run[r] EXCEPT !.pc = "next", !.todo = Leading(Pending(r), run[r].count)]
  <2>1. run' = [run EXCEPT ![r] = d]
    BY <1>7 DEF ReadUp
  <2>2. d.pc = "next" /\ d.kind = run[r].kind /\ d.done = run[r].done
    BY <1>c DEF Call
  <2> HIDE DEF d
  <2> QED BY <1>7, <2>1, <2>2, <1>m, <1>n DEF ReadUp, dbVars
<1>8. CASE ReadVetted(r)
  <2> DEFINE d == [run[r] EXCEPT !.pc = "next", !.todo = run[r].plan]
  <2>1. Return(r, "refused") \/ Return(r, "stale") \/ run' = [run EXCEPT ![r] = d]
    BY <1>8 DEF ReadVetted
  <2>2. d.pc = "next" /\ d.kind = run[r].kind /\ d.done = run[r].done
    BY <1>c DEF Call
  <2> HIDE DEF d
  <2> QED BY <1>8, <2>1, <2>2, <1>e, <1>m, <1>n DEF ReadVetted, dbVars
<1>9. CASE ReadDown(r)
  <2> DEFINE d == [run[r] EXCEPT !.pc = "next", !.seen = appliedAt,
                                 !.todo = Newest(history, appliedAt, run[r].count)]
  <2>1. run' = [run EXCEPT ![r] = d]
    BY <1>9 DEF ReadDown
  <2>2. d.pc = "next" /\ d.kind = run[r].kind /\ d.done = run[r].done
    BY <1>c DEF Call
  <2> HIDE DEF d
  <2> QED BY <1>9, <2>1, <2>2, <1>m, <1>n DEF ReadDown, dbVars
<1>10. CASE Begin(r)
  <2>1. PICK v \in Versions :
           \/ Return(r, "irreversible") \/ Return(r, "render")
           \/ run' = [run EXCEPT ![r] = [run[r] EXCEPT !.pc = "steps", !.cur = v]]
    BY <1>10 DEF Begin
  <2> DEFINE d == [run[r] EXCEPT !.pc = "steps", !.cur = v]
  <2>2. d.pc = "steps" /\ d.kind = run[r].kind /\ d.done = run[r].done
    BY <1>c DEF Call
  <2>3. Return(r, "irreversible") \/ Return(r, "render") \/ run' = [run EXCEPT ![r] = d]
    BY <2>1
  <2> HIDE DEF d
  <2> QED BY <1>10, <2>2, <2>3, <1>e, <1>m, <1>n DEF Begin, dbVars
<1>11. CASE Steps(r)
  <2>1. /\ run'[r].pc = "record" /\ run'[r].kind = run[r].kind
        /\ run'[r].cur = run[r].cur /\ run'[r].done = run[r].done
        /\ \A o \in Runners \ {r} : run'[o] = run[o]
    BY <1>11, <1>c DEF Steps, Goto, Call
  <2>2. run[r].pc = "steps" /\ UNCHANGED dbVars
    BY <1>11 DEF Steps
  <2>3. Holds(r)
    BY <1>11, <2>1, <2>2, <1>n DEF Holds, dbVars
  <2> QED BY <2>1, <2>2, <2>3 DEF FkShape, dbVars
<1>12. CASE InsertHistory(r)
  <2>1. CASE Return(r, "database")
    BY <1>12, <2>1, <1>e DEF InsertHistory, dbVars
  <2>2. ASSUME NEW s \in Stamps,
               run' = [run EXCEPT ![r] = [run[r] EXCEPT !.pc = "commit", !.stamp = s]]
        PROVE  FkShape(r)
    <3>1. /\ run'[r].pc = "commit" /\ run'[r].kind = run[r].kind
          /\ run'[r].cur = run[r].cur /\ run'[r].done = run[r].done
          /\ \A o \in Runners \ {r} : run'[o] = run[o]
      BY <2>2, <1>c DEF Call
    <3>2. Holds(r)
      BY <1>12, <3>1, <1>n DEF Holds, InsertHistory, dbVars
    <3> QED BY <1>12, <3>1, <3>2 DEF FkShape, InsertHistory, dbVars
  <2> QED BY <1>12, <2>1, <2>2 DEF InsertHistory
<1>13. CASE DeleteHistory(r)
  <2>1. PICK h : run' = [run EXCEPT ![r] = [run[r] EXCEPT !.pc = "commit", !.hit = h]]
    BY <1>13, Zenon DEF DeleteHistory
  <2>2. /\ run'[r].pc = "commit" /\ run'[r].kind = run[r].kind
        /\ run'[r].cur = run[r].cur /\ run'[r].done = run[r].done
        /\ \A o \in Runners \ {r} : run'[o] = run[o]
    BY <2>1, <1>c DEF Call
  <2>3. Holds(r)
    BY <1>13, <2>2, <1>n DEF Holds, DeleteHistory, dbVars
  <2> QED BY <1>13, <2>2, <2>3 DEF FkShape, DeleteHistory, dbVars
<1>14. CASE Commit(r)
  <2> DEFINE fs == FkOf[run[r].cur]
  <2>1. CASE /\ run[r].kind = "upStaged"
             /\ run' = [run EXCEPT ![r] = [run[r] EXCEPT !.pc = "deferred", !.deferred = fs,
                                                      !.owed = run[r].owed \cup fs]]
    <3> HIDE DEF fs
    <3>1. /\ run'[r].pc = "deferred" /\ run'[r].kind = run[r].kind /\ run'[r].deferred = fs
          /\ run'[r].cur = run[r].cur /\ run'[r].done = run[r].done
          /\ \A o \in Runners \ {r} : run'[o] = run[o]
      BY <2>1, <1>c DEF Call
    <3>2. Releases(r)
      BY <1>14, <3>1 DEF Commit, Releases, fs
    <3> QED BY <1>14, <3>1, <3>2 DEF Commit, Durable, FkShape
  <2>2. CASE run[r].kind # "upStaged" /\ run' = [run EXCEPT ![r] = Finished(r)]
    <3>1. /\ run'[r].pc = "next" /\ run'[r].kind = run[r].kind
          /\ run'[r].done = run[r].done \cup {run[r].cur}
          /\ \A o \in Runners \ {r} : run'[o] = run[o]
      BY <2>2, <1>c DEF Call, Finished
    <3>2. Releases(r)
      BY <1>14, <2>2, <3>1 DEF Commit, Releases
    <3> QED BY <1>14, <3>1, <3>2 DEF Commit, Durable, FkShape
  <2> QED BY <1>14, <2>1, <2>2 DEF Commit
<1>15. CASE CommitUnheard(r)
  <2>1. Releases(r)
    BY <1>15, <1>c, ReturnSettles DEF CommitUnheard, Releases
  <2> QED BY <1>15, <1>c, <2>1, ReturnSettles DEF CommitUnheard, Durable, FkShape
<1>16. CASE ReadCatalog(r)
  <2> DEFINE fs == NotValid
  <2>1. run' = [run EXCEPT ![r] = [run[r] EXCEPT !.pc = "deferred", !.deferred = fs]]
    BY <1>16 DEF ReadCatalog
  <2>2. run[r].kind = "validate"
    BY <1>16, <1>c DEF ReadCatalog, TInv, CallsOK, CallOK
  <2> HIDE DEF fs
  <2>3. /\ run'[r].pc = "deferred" /\ run'[r].kind = "validate"
        /\ \A o \in Runners \ {r} : run'[o] = run[o]
    BY <2>1, <2>2, <1>c DEF Call
  <2> QED BY <1>16, <2>3 DEF ReadCatalog, dbVars, FkShape, Reads
<1>17. ASSUME NEW f \in Fks, Validate(r, f) \/ FailValidation(r, f)
       PROVE  FkShape(r)
  <2> DEFINE rest == run[r].deferred \ {f}
             all == run[r].failures \cup {f}
             d == [run[r] EXCEPT !.deferred = rest]
             e == [run[r] EXCEPT !.deferred = rest, !.failures = all]
  <2>a. all # {}
    OBVIOUS
  <2> HIDE DEF rest, all
  <2>1. /\ d.pc = run[r].pc /\ d.kind = run[r].kind /\ d.cur = run[r].cur
        /\ d.done = run[r].done /\ d.deferred = rest /\ d.failures = run[r].failures
    BY <1>c DEF Call
  <2>2. /\ e.pc = run[r].pc /\ e.kind = run[r].kind /\ e.cur = run[r].cur
        /\ e.done = run[r].done /\ e.deferred = rest /\ e.failures = all
    BY <1>c DEF Call
  <2>3. /\ run[r].pc = "deferred"
        /\ \/ run' = [run EXCEPT ![r] = d] /\ fk' = [fk EXCEPT ![f] = "valid"]
           \/ run' = [run EXCEPT ![r] = e]
    BY <1>17 DEF Validate, FailValidation, rest, all
  <2> HIDE DEF d, e
  <2>4. /\ run'[r].pc = "deferred" /\ run'[r].kind = run[r].kind
        /\ run'[r].cur = run[r].cur /\ run'[r].done = run[r].done
        /\ run'[r].deferred = rest
        /\ \/ run'[r].failures # {}
           \/ fk' = [fk EXCEPT ![f] = "valid"] /\ run'[r].failures = run[r].failures
        /\ \A o \in Runners \ {r} : run'[o] = run[o]
    BY <1>c, <2>a, <2>1, <2>2, <2>3
  <2> QED BY <1>17, <2>4 DEF Validate, FailValidation, dbVars, FkShape, Validates, rest
<1>18. CASE ValidationDone(r)
  <2>1. CASE Return(r, "validation") \/ Return(r, "ok")
    BY <1>18, <2>1, <1>e DEF ValidationDone, dbVars
  <2>2. CASE run' = [run EXCEPT ![r] = Finished(r)] /\ run[r].kind # "validate"
             /\ run[r].failures = {}
    <3>1. /\ run'[r].pc = "next" /\ run'[r].kind = run[r].kind
          /\ run'[r].done = run[r].done \cup {run[r].cur}
          /\ \A o \in Runners \ {r} : run'[o] = run[o]
      BY <2>2, <1>c DEF Call, Finished
    <3> QED BY <1>18, <2>2, <3>1 DEF ValidationDone, dbVars, FkShape, Reports
  <2> QED BY <1>18, <2>1, <2>2 DEF ValidationDone
<1> QED
  BY <1>1, <1>3, <1>4, <1>5, <1>6, <1>7, <1>8, <1>9, <1>10, <1>11, <1>12, <1>13,
     <1>14, <1>15, <1>16, <1>17, <1>18 DEF RunnerStep

\* A constraint that is not yet in the schema is not valid, and every runner but
\* the one that commits still holds what it held.
LEMMA FInvRunner ==
    ASSUME FInv, TInv', NEW r \in Runners, FkShape(r)
    PROVE  FInv'
<1>0. TInv /\ TypeOK /\ CallsOK /\ TypeOK'
  BY DEF FInv, TInv
<1>1. /\ \A o \in Runners \ {r} : run'[o] = run[o]
      /\ dirty' = dirty
  BY DEF FkShape
<1>2. \A o \in Runners \ {r} : \A f : HoldsLock(o, f)' <=> HoldsLock(o, f)
  BY <1>1 DEF HoldsLock
<1>c. \A o \in Runners : run[o].pc \in {"steps", "record", "commit"} => FkOf[run[o].cur] \subseteq Fks
  BY <1>0, CurVersion, FkAssumption
<1>3. ASSUME NEW o \in Runners \ {r}, fk' = fk,
             \A f : HoldsLock(r, f)' => HoldsLock(r, f) \/ ~HoldsLock(o, f)
      PROVE  LocksOK(o)'
  BY <1>1, <1>2, <1>3 DEF FInv, LocksOK, HoldsLock
<1>4. ASSUME run'[r].pc \notin {"record", "commit"}
      PROVE  LocksOK(r)' /\ \A f : ~HoldsLock(r, f)'
  BY <1>4 DEF LocksOK, HoldsLock
<1>5. ValidateOK(run[r])'
  BY <1>0 DEF FkShape, Settles, Reads, Holds, Releases, Validates, Validate, FailValidation, Reports, FInv, ValidateOK, Durable
<1>6. CASE Settles(r) \/ Reads(r) \/ Reports(r)
  <2>1. fk' = fk /\ run'[r].pc \notin {"record", "commit"}
    BY <1>6 DEF Settles, Reads, Reports
  <2>2. \A o \in Runners : LocksOK(o)'
    BY <1>3, <1>4, <2>1
  <2> QED BY <1>1, <1>5, <2>2 DEF FInv
<1>7. CASE Holds(r)
  <2>1. fk' = fk
    BY <1>7 DEF Holds
  <2>2. CASE run[r].pc = "record"
    <3>1. \A f : HoldsLock(r, f)' <=> HoldsLock(r, f)
      BY <1>7, <2>2 DEF Holds, HoldsLock, Steps
    <3>2. LocksOK(r)'
      BY <1>1, <1>2, <1>7, <2>1, <2>2 DEF Holds, FInv, LocksOK
    <3>3. \A o \in Runners : LocksOK(o)'
      BY <1>3, <2>1, <3>1, <3>2
    <3> QED BY <1>1, <1>5, <2>1, <3>3 DEF FInv
  <2>3. CASE Steps(r)
    <3>1. /\ run'[r].pc = "record" /\ run'[r].kind = run[r].kind /\ run'[r].cur = run[r].cur
          /\ run[r].kind # "validate" /\ run[r].pc = "steps"
      BY <1>7, <2>3 DEF Holds, Steps
    <3>2. \A f \in FkOf[run[r].cur] :
             /\ \A o \in Runners \ {r} : ~HoldsLock(o, f)
             /\ run[r].kind # "down" => fk[f] = "absent"
      BY <2>3 DEF Steps, Reverting
    <3>3. LocksOK(r)'
      BY <1>1, <1>2, <2>1, <3>1, <3>2 DEF LocksOK
    <3>4. \A o \in Runners \ {r} : LocksOK(o)'
      BY <1>3, <2>1, <3>1, <3>2 DEF HoldsLock
    <3> QED BY <1>1, <1>5, <2>1, <3>3, <3>4 DEF FInv
  <2> QED BY <1>7, <2>2, <2>3 DEF Holds
<1>8. CASE Releases(r)
  <2> DEFINE v == run[r].cur
  <2>1. run[r].pc = "commit" /\ run'[r].pc \notin {"record", "commit"}
    BY <1>8 DEF Releases, Durable
  <2>2. \A f \in Fks : f \notin FkOf[v] => fk'[f] = fk[f]
    BY <1>8 DEF Releases, Durable, CommitApply, CommitRevert
  <2>3. \A f \in FkOf[v] : HoldsLock(r, f)
    BY <2>1 DEF HoldsLock
  <2>4. ASSUME NEW o \in Runners \ {r}
        PROVE  LocksOK(o)'
    <3>1. \A f \in FkOf[v] : ~HoldsLock(o, f)
      BY <2>1 DEF FInv, LocksOK
    <3>2. run[o].pc \in {"record", "commit"} => \A f \in FkOf[run[o].cur] : fk'[f] = fk[f]
      BY <1>c, <2>2, <3>1 DEF HoldsLock
    <3> QED BY <1>1, <1>2, <1>4, <2>1, <3>2 DEF FInv, LocksOK
  <2> QED BY <1>1, <1>4, <1>5, <2>1, <2>4 DEF FInv
<1>9. CASE Validates(r)
  <2>1. PICK f \in Fks : /\ Validate(r, f) \/ FailValidation(r, f)
                         /\ run'[r].pc = "deferred"
    BY <1>9 DEF Validates
  <2>2. \/ fk' = fk
        \/ fk' = [fk EXCEPT ![f] = "valid"] /\ \A o \in Runners : ~HoldsLock(o, f)
    BY <2>1 DEF Validate, FailValidation, Unlocked, dbVars
  <2>5. ASSUME NEW o \in Runners \ {r}
        PROVE  LocksOK(o)'
    <3>1. run[o].pc \in {"record", "commit"} => \A g \in FkOf[run[o].cur] : fk'[g] = fk[g]
      BY <1>0, <1>c, <2>2 DEF HoldsLock, TypeOK
    <3> QED BY <1>1, <1>2, <1>4, <2>1, <3>1 DEF FInv, LocksOK
  <2> QED BY <1>1, <1>4, <1>5, <2>1, <2>5 DEF FInv
<1> QED BY <1>6, <1>7, <1>8, <1>9 DEF FkShape

LEMMA FInvNext == FInv /\ [Next]_vars => FInv'
<1> SUFFICES ASSUME FInv, [Next]_vars PROVE FInv'
  OBVIOUS
<1>0. TInv /\ TInv'
  BY NextTInv DEF FInv
<1>1. CASE UNCHANGED <<run, fk>>
  BY <1>0, <1>1 DEF FInv, ValidateOK, LocksOK, HoldsLock
<1>2. ASSUME NEW r \in Runners,
             RunnerStep(r) \/ Crash(r) \/ (\E k \in KindsOf[r], c \in Counts : Start(r, k, c))
      PROVE  FInv'
  BY <1>0, <1>2, StepFkShape, FInvRunner
<1> QED BY <1>1, <1>2 DEF Next, vars, dbVars, WriteRows, RepairRows

LEMMA FInvInit == Init => FInv
<1> SUFFICES ASSUME Init PROVE FInv
  OBVIOUS
<1>1. \A r \in Runners : run[r].pc = "idle"
  BY DEF Init, Idle
<1> QED BY InitTInv, <1>1 DEF FInv, ValidateOK, LocksOK

(***************************************************************************)
(* What a call reports as applied is applied, and fully validated, as long *)
(* as nobody reverts it.                                                   *)
(***************************************************************************)

\* What a later validation still has to do: everything a staged call added and has
\* not yet tried is listed, and what it tried without a failure is valid.
StagedOK(r) ==
    run[r].pc = "deferred" /\ run[r].kind # "validate" /\ run[r].failures = {} =>
       \A f \in FkOf[run[r].cur] \ run[r].deferred : fk[f] = "valid"

\* A call under way, or that answered, accounts for each foreign key it is to
\* validate: it is valid, among the failures, or still to be tried.
Accounted(r) ==
    run[r].pc # "idle" \/ run[r].result \in {"ok", "validation"} =>
       \A f \in run[r].owed :
          \/ fk[f] = "valid"
          \/ f \in run[r].failures
          \/ run[r].pc = "deferred" /\ f \in run[r].deferred
          \/ run[r].pc = "catalog" /\ fk[f] = "notvalid"

\* Without reverts, what is in the schema stays there and what is valid stays valid.
FksKept ==
    \A f \in Fks : /\ fk[f] = "valid" => fk'[f] = "valid"
                   /\ fk[f] = "notvalid" => fk'[f] \in {"notvalid", "valid"}

LEMMA AccountedStep ==
    ASSUME TInv, NEW r \in Runners, Accounted(r), FksKept,
           RunnerStep(r) \/ Crash(r) \/ (\E k \in KindsOf[r], c \in Counts : Start(r, k, c))
    PROVE  Accounted(r)'
<1>c. run[r] \in Call /\ run \in [Runners -> Call] /\ run[r].owed \subseteq Fks
  BY DEF TInv, TypeOK, Call
<1>r. ASSUME NEW result, Return(r, result)
      PROVE  /\ run'[r].pc = "idle" /\ run'[r].result = result
             /\ run'[r].owed = run[r].owed /\ run'[r].failures = run[r].failures
  BY <1>r, <1>c DEF Return, Call
<1>e. ASSUME NEW result \in Results \ {"ok", "validation"}, Return(r, result)
      PROVE  Accounted(r)'
  BY <1>e, <1>r DEF Accounted
\* A call that goes on, or answers with nothing left to try, owes what it owed.
<1>m. ASSUME run'[r].owed = run[r].owed, run'[r].failures = run[r].failures,
             run[r].pc \notin {"idle", "catalog"},
             run[r].pc = "deferred" => run[r].deferred = {}
      PROVE  Accounted(r)'
  BY <1>m, <1>c DEF Accounted, FksKept
<1>o. ASSUME NEW result, Return(r, result), run[r].pc \notin {"idle", "catalog"},
             run[r].pc = "deferred" => run[r].deferred = {}
      PROVE  Accounted(r)'
  BY <1>o, <1>r, <1>m
<1>d. ASSUME NEW d, run' = [run EXCEPT ![r] = d], d.owed = run[r].owed,
             d.failures = run[r].failures, run[r].pc \notin {"idle", "catalog"},
             run[r].pc = "deferred" => run[r].deferred = {}
      PROVE  Accounted(r)'
  BY <1>d, <1>c, <1>m
<1>g. ASSUME NEW pc, Goto(r, pc), run[r].pc \notin {"idle", "catalog", "deferred"}
      PROVE  Accounted(r)'
  <2>1. run'[r].owed = run[r].owed /\ run'[r].failures = run[r].failures
    BY <1>g, <1>c DEF Goto, Call
  <2> QED BY <1>g, <2>1, <1>m
<1>1. ASSUME NEW k \in KindsOf[r], NEW c \in Counts, Start(r, k, c)
      PROVE  Accounted(r)'
  <2> DEFINE owed == IF k = "validate" THEN NotValid ELSE {}
             pc == IF k = "validate" THEN "catalog" ELSE "install"
  <2>1. run'[r].pc = pc /\ run'[r].owed = owed
    BY <1>1, <1>c DEF Start, Idle
  <2>2. fk' = fk
    BY <1>1 DEF Start, dbVars
  <2> QED BY <2>1, <2>2 DEF Accounted, NotValid
<1>2. CASE HistoryExists(r) \/ CreateHistory(r) \/ Steps(r)
  BY <1>2, <1>g, <1>e DEF HistoryExists, CreateHistory, Steps, Results
<1>3. CASE UnknownVersion(r) \/ LoopDone(r) \/ CommitUnheard(r) \/ DatabaseError(r) \/ Crash(r)
  BY <1>3, <1>e, <1>o DEF UnknownVersion, LoopDone, CommitUnheard, DatabaseError, Crash, Results
<1>4. ASSUME NEW allow \in BOOLEAN, Review(r, allow)
      PROVE  Accounted(r)'
  <2> DEFINE d == [run[r] EXCEPT !.pc = "read", !.plan = Leading(Pending(r), run[r].count)]
  <2>1. run[r].pc = "review"
        /\ (Return(r, "ok") \/ Return(r, "refused") \/ run' = [run EXCEPT ![r] = d])
    BY <1>4 DEF Review
  <2>2. d.owed = run[r].owed /\ d.failures = run[r].failures
    BY <1>c DEF Call
  <2> HIDE DEF d
  <2> QED BY <2>1, <2>2, <1>o, <1>d
<1>5. CASE ReadUp(r) \/ ReadVetted(r) \/ ReadDown(r)
  <2> DEFINE d(todo) == [run[r] EXCEPT !.pc = "next", !.todo = todo]
             e(todo) == [run[r] EXCEPT !.pc = "next", !.seen = appliedAt, !.todo = todo]
  <2>1. \A todo : d(todo).owed = run[r].owed /\ d(todo).failures = run[r].failures
    BY <1>c DEF Call
  <2>2. \A todo : e(todo).owed = run[r].owed /\ e(todo).failures = run[r].failures
    BY <1>c DEF Call
  <2>3. /\ run[r].pc = "read"
        /\ \/ Return(r, "refused") \/ Return(r, "stale")
           \/ \E todo : run' = [run EXCEPT ![r] = d(todo)]
           \/ \E todo : run' = [run EXCEPT ![r] = e(todo)]
    BY <1>5 DEF ReadUp, ReadVetted, ReadDown
  <2> HIDE DEF d, e
  <2> QED BY <2>1, <2>2, <2>3, <1>o, <1>d
<1>6. CASE Begin(r)
  <2> DEFINE d(v) == [run[r] EXCEPT !.pc = "steps", !.cur = v]
  <2>1. \A v : d(v).owed = run[r].owed /\ d(v).failures = run[r].failures
    BY <1>c DEF Call
  <2>2. /\ run[r].pc = "next"
        /\ \/ Return(r, "irreversible") \/ Return(r, "render")
           \/ \E v : run' = [run EXCEPT ![r] = d(v)]
    BY <1>6 DEF Begin
  <2> HIDE DEF d
  <2> QED BY <2>1, <2>2, <1>o, <1>d
<1>7. CASE InsertHistory(r)
  <2> DEFINE d(s) == [run[r] EXCEPT !.pc = "commit", !.stamp = s]
  <2>1. \A s : d(s).owed = run[r].owed /\ d(s).failures = run[r].failures
    BY <1>c DEF Call
  <2>2. run[r].pc = "record" /\ (Return(r, "database") \/ \E s : run' = [run EXCEPT ![r] = d(s)])
    BY <1>7 DEF InsertHistory
  <2> HIDE DEF d
  <2> QED BY <2>1, <2>2, <1>o, <1>d
<1>8. CASE DeleteHistory(r)
  <2>1. PICK h : run' = [run EXCEPT ![r] = [run[r] EXCEPT !.pc = "commit", !.hit = h]]
    BY <1>8, Zenon DEF DeleteHistory
  <2> DEFINE d == [run[r] EXCEPT !.pc = "commit", !.hit = h]
  <2>2. d.owed = run[r].owed /\ d.failures = run[r].failures
    BY <1>c DEF Call
  <2>3. run[r].pc = "record"
    BY <1>8 DEF DeleteHistory
  <2> HIDE DEF d
  <2> QED BY <2>1, <2>2, <2>3, <1>d DEF d
<1>9. CASE Commit(r)
  <2> DEFINE fs == FkOf[run[r].cur]
             all == run[r].owed \cup fs
             d == [run[r] EXCEPT !.pc = "deferred", !.deferred = fs, !.owed = all]
  <2>1. run[r].pc = "commit"
    BY <1>9 DEF Commit, Durable
  <2>2. CASE run' = [run EXCEPT ![r] = d]
    <3> HIDE DEF fs, all
    <3>1. /\ run'[r].pc = "deferred" /\ run'[r].deferred = fs /\ run'[r].owed = all
          /\ run'[r].failures = run[r].failures
      BY <2>2, <1>c DEF Call
    <3>2. \A f \in run[r].owed : fk'[f] = "valid" \/ f \in run[r].failures
      BY <2>1, <1>c DEF Accounted, FksKept
    <3> QED BY <3>1, <3>2 DEF Accounted, all
  <2>3. CASE run' = [run EXCEPT ![r] = Finished(r)]
    <3>1. Finished(r).owed = run[r].owed /\ Finished(r).failures = run[r].failures
      BY <1>c DEF Finished, Call
    <3> QED BY <2>1, <2>3, <3>1, <1>d
  <2> QED BY <1>9, <2>2, <2>3 DEF Commit
<1>10. CASE ReadCatalog(r)
  <2> DEFINE fs == NotValid
  <2>1. run' = [run EXCEPT ![r] = [run[r] EXCEPT !.pc = "deferred", !.deferred = fs]]
    BY <1>10 DEF ReadCatalog
  <2>2. fk' = fk /\ run[r].pc = "catalog"
    BY <1>10 DEF ReadCatalog, dbVars
  <2> HIDE DEF fs
  <2>3. /\ run'[r].pc = "deferred" /\ run'[r].deferred = fs /\ run'[r].owed = run[r].owed
        /\ run'[r].failures = run[r].failures
    BY <2>1, <1>c DEF Call
  <2> QED BY <2>2, <2>3, <1>c DEF Accounted, NotValid, fs
<1>11. ASSUME NEW f \in Fks, Validate(r, f) \/ FailValidation(r, f)
       PROVE  Accounted(r)'
  <2> DEFINE rest == run[r].deferred \ {f}
             all == run[r].failures \cup {f}
             d == [run[r] EXCEPT !.deferred = rest]
             e == [run[r] EXCEPT !.deferred = rest, !.failures = all]
  <2> HIDE DEF rest, all
  <2>1. d.pc = run[r].pc /\ d.owed = run[r].owed /\ d.deferred = rest /\ d.failures = run[r].failures
    BY <1>c DEF Call
  <2>2. e.pc = run[r].pc /\ e.owed = run[r].owed /\ e.deferred = rest /\ e.failures = all
    BY <1>c DEF Call
  <2>3. /\ run[r].pc = "deferred"
        /\ \/ run' = [run EXCEPT ![r] = d] /\ fk' = [fk EXCEPT ![f] = "valid"]
           \/ run' = [run EXCEPT ![r] = e]
    BY <1>11 DEF Validate, FailValidation, rest, all
  <2>4. fk \in [Fks -> {"absent", "notvalid", "valid"}]
    BY DEF TInv, TypeOK
  <2> HIDE DEF d, e
  <2>5. CASE run' = [run EXCEPT ![r] = d] /\ fk' = [fk EXCEPT ![f] = "valid"]
    <3>1. run'[r] = d /\ fk'[f] = "valid"
      BY <1>c, <2>4, <2>5
    <3> QED BY <1>c, <2>1, <2>3, <3>1 DEF Accounted, FksKept, rest
  <2>6. CASE run' = [run EXCEPT ![r] = e]
    <3>1. run'[r] = e
      BY <1>c, <2>6
    <3> QED BY <1>c, <2>2, <2>3, <3>1 DEF Accounted, FksKept, rest, all
  <2> QED BY <2>3, <2>5, <2>6
<1>12. CASE ValidationDone(r)
  <2>1. run[r].pc = "deferred" /\ run[r].deferred = {}
    BY <1>12 DEF ValidationDone
  <2>2. CASE Return(r, "validation") \/ Return(r, "ok")
    BY <2>1, <2>2, <1>o
  <2>3. CASE run' = [run EXCEPT ![r] = Finished(r)]
    <3>1. Finished(r).owed = run[r].owed /\ Finished(r).failures = run[r].failures
      BY <1>c DEF Finished, Call
    <3> QED BY <2>1, <2>3, <3>1, <1>d
  <2> QED BY <1>12, <2>2, <2>3 DEF ValidationDone
<1> QED
  BY <1>1, <1>2, <1>3, <1>4, <1>5, <1>6, <1>7, <1>8, <1>9, <1>10, <1>11, <1>12 DEF RunnerStep

RInv ==
    /\ FInv
    /\ LInv
    /\ ReportedIsApplied
    /\ \A r \in Runners : StagedOK(r) /\ Accounted(r)

LEMMA RInvRunner ==
    ASSUME RInv, FInv', LInv', NobodyReverts, NEW r \in Runners, FkShape(r), Shape(r),
           RunnerStep(r) \/ Crash(r) \/ (\E k \in KindsOf[r], c \in Counts : Start(r, k, c))
    PROVE  RInv'
<1>0. TypeOK /\ CallsOK /\ TypeOK'
  BY DEF RInv, FInv, TInv
<1>1. \A o \in Runners \ {r} : run'[o] = run[o]
  BY DEF FkShape
<1>2. history \subseteq history' /\ (Durable(r) => run[r].cur \in history')
  BY DurableAdds DEF Shape, Quiet, RInv
<1>3. FksKept
  <2>1. CASE Releases(r)
    <3>1. run[r].pc = "commit" /\ run[r].kind # "down"
      BY <2>1 DEF Releases, Durable, RInv, LInv, NobodyReverts
    <3>2. \A f \in FkOf[run[r].cur] : fk[f] = "absent"
      BY <3>1 DEF RInv, FInv, LocksOK
    <3> QED BY <2>1, <3>1, <3>2 DEF Releases, Durable, Reverting, CommitApply, FksKept
  <2>2. CASE Validates(r)
    BY <2>2, <1>0 DEF Validates, Validate, FailValidation, dbVars, TypeOK, FksKept
  <2>3. CASE Settles(r) \/ Reads(r) \/ Holds(r) \/ Reports(r)
    BY <2>3 DEF Settles, Reads, Holds, Reports, FksKept
  <2> QED BY <2>1, <2>2, <2>3 DEF FkShape
<1>d. \A o \in Runners : run[o].done \subseteq Versions
  BY <1>0 DEF TypeOK, Call
<1>f. \A v \in Versions : FkOf[v] \subseteq Fks
  BY FkAssumption
<1>4. ASSUME NEW o \in Runners, run[o].kind \in {"up", "upVersions", "upStaged"}
      PROVE  run[o].done \subseteq history' /\ \A v \in run[o].done : \A f \in FkOf[v] : fk'[f] = "valid"
  BY <1>2, <1>3, <1>4, <1>d, <1>f DEF RInv, ReportedIsApplied, FksKept
<1>c. run[r].pc = "commit" \/ (run[r].pc = "deferred" /\ run[r].kind # "validate") =>
         run[r].cur \in Versions /\ run[r].cur \in run[r].todo
  BY <1>0 DEF CallsOK, CallOK, TypeOK, Call
<1>5. StagedOK(r)' /\ (run'[r].kind \in {"up", "upVersions", "upStaged"} =>
         run'[r].done \subseteq history' /\ \A v \in run'[r].done : \A f \in FkOf[v] : fk'[f] = "valid")
  <2>1. CASE Settles(r) \/ Holds(r)
    BY <1>4, <2>1 DEF Settles, Holds, StagedOK
  <2>2. CASE Reads(r)
    BY <2>2 DEF Reads, StagedOK
  <2>3. CASE Releases(r)
    <3>1. StagedOK(r)'
      BY <2>3 DEF Releases, StagedOK
    <3>2. CASE run'[r].done = run[r].done
      BY <1>4, <2>3, <3>1, <3>2 DEF Releases
    <3>3. CASE run[r].kind # "upStaged" /\ run'[r].done = run[r].done \cup {run[r].cur}
      <4>1. run[r].cur \in history' /\ run[r].pc = "commit" /\ run[r].kind # "down"
        BY <1>2, <2>3 DEF Releases, Durable, RInv, LInv, NobodyReverts
      <4>a. fk' = [f \in Fks |-> IF f \notin FkOf[run[r].cur] THEN fk[f]
                                 ELSE IF run[r].kind = "upStaged" THEN "notvalid" ELSE "valid"]
        BY <2>3, <4>1 DEF Releases, Durable, Reverting, CommitApply
      <4>2. \A f \in FkOf[run[r].cur] : fk'[f] = "valid"
        BY <1>c, <1>f, <3>3, <4>1, <4>a
      <4> QED BY <1>4, <2>3, <3>1, <3>3, <4>1, <4>2 DEF Releases
    <3> QED BY <2>3, <3>2, <3>3 DEF Releases
  <2>4. CASE Validates(r)
    <3>1. PICK f \in Fks :
             /\ Validate(r, f) \/ FailValidation(r, f)
             /\ run'[r].pc = "deferred" /\ run'[r].kind = run[r].kind
             /\ run'[r].cur = run[r].cur /\ run'[r].done = run[r].done
             /\ run'[r].deferred = run[r].deferred \ {f}
             /\ \/ run'[r].failures # {}
                \/ fk' = [fk EXCEPT ![f] = "valid"] /\ run'[r].failures = run[r].failures
      BY <2>4 DEF Validates
    <3>2. run[r].pc = "deferred"
      BY <3>1 DEF Validate, FailValidation
    <3>3. StagedOK(r)'
      <4> SUFFICES ASSUME run'[r].kind # "validate", run'[r].failures = {},
                          NEW g \in FkOf[run[r].cur] \ run'[r].deferred
                   PROVE  fk'[g] = "valid"
        BY <3>1 DEF StagedOK
      <4>1. g \in Fks
        BY <1>c, <1>f, <3>1, <3>2
      <4>2. fk' = [fk EXCEPT ![f] = "valid"] /\ run[r].failures = {}
        BY <3>1
      <4>3. CASE g = f
        BY <1>0, <4>1, <4>2, <4>3 DEF TypeOK
      <4>4. CASE g # f
        <5>1. fk[g] = "valid"
          BY <3>1, <3>2, <4>2, <4>4 DEF RInv, StagedOK
        <5> QED BY <1>3, <4>1, <5>1 DEF FksKept
      <4> QED BY <4>3, <4>4
    <3> QED BY <1>4, <3>1, <3>3
  <2>5. CASE Reports(r)
    <3>1. run[r].cur \in history
      BY <2>5 DEF Reports, RInv, LInv, LowestFirst
    <3>2. \A f \in FkOf[run[r].cur] : fk[f] = "valid"
      BY <2>5 DEF Reports, RInv, StagedOK
    <3>3. \A f \in FkOf[run[r].cur] : fk'[f] = "valid"
      BY <2>5, <3>2 DEF Reports
    <3>4. run'[r].pc = "next" /\ run'[r].kind = run[r].kind
          /\ run'[r].done = run[r].done \cup {run[r].cur}
      BY <2>5 DEF Reports
    <3> QED BY <1>2, <1>4, <3>1, <3>3, <3>4 DEF StagedOK
  <2> QED BY <2>1, <2>2, <2>3, <2>4, <2>5 DEF FkShape
<1>6. ReportedIsApplied'
  BY <1>1, <1>4, <1>5 DEF ReportedIsApplied
<1>7. ASSUME NEW o \in Runners \ {r}
      PROVE  StagedOK(o)' /\ Accounted(o)'
  <2>1. run[o].pc = "deferred" /\ run[o].kind # "validate" => FkOf[run[o].cur] \subseteq Fks
    BY <1>0, <1>f DEF CallsOK, CallOK, TypeOK, Call
  <2>2. run[o].owed \subseteq Fks
    BY <1>0 DEF TypeOK, Call
  <2>3. StagedOK(o)'
    BY <1>1, <1>3, <2>1 DEF RInv, StagedOK, FksKept
  <2>4. Accounted(o)'
    BY <1>1, <1>3, <2>2 DEF RInv, Accounted, FksKept
  <2> QED BY <2>3, <2>4
<1>8. Accounted(r)'
  BY <1>3, AccountedStep DEF RInv, FInv
<1> QED BY <1>5, <1>6, <1>7, <1>8 DEF RInv

LEMMA RInvNext ==
    ASSUME RInv, [Next]_vars, NobodyReverts
    PROVE  RInv'
<1>0. FInv' /\ LInv'
  BY FInvNext, LInvNext DEF RInv
<1>1. CASE UNCHANGED <<run, history, fk>>
  BY <1>0, <1>1 DEF RInv, ReportedIsApplied, StagedOK, Accounted
<1>2. ASSUME NEW r \in Runners,
             RunnerStep(r) \/ Crash(r) \/ (\E k \in KindsOf[r], c \in Counts : Start(r, k, c))
      PROVE  RInv'
  <2>1. FkShape(r) /\ Shape(r)
    BY <1>2, StepFkShape, StepShape DEF RInv, FInv
  <2> QED BY <1>0, <1>2, <2>1, RInvRunner
<1> QED BY <1>1, <1>2 DEF Next, vars, dbVars, WriteRows, RepairRows

LEMMA RInvInit == Init => RInv
<1> SUFFICES ASSUME Init PROVE RInv
  OBVIOUS
<1>1. \A r \in Runners : run[r].pc = "idle" /\ run[r].done = {} /\ run[r].owed = {}
  BY DEF Init, Idle
<1> QED BY <1>1, FInvInit, LInvInit DEF RInv, ReportedIsApplied, StagedOK, Accounted

\* Without reverts, every version a call reports as applied stays recorded with
\* every constraint it added valid, however many other calls race with it or die.
THEOREM ReportedStaysApplied ==
    ASSUME NobodyReverts
    PROVE  Spec => []ReportedIsApplied
<1>1. RInv /\ [Next]_vars => RInv'
  BY RInvNext
<1>2. RInv => ReportedIsApplied
  BY DEF RInv
<1> QED BY RInvInit, <1>1, <1>2, PTL DEF Spec

\* Without reverts, a staged apply or a validate that answers has left each foreign
\* key it was to validate valid, or named it among its failures.
THEOREM FailuresAreNamed ==
    ASSUME NobodyReverts
    PROVE  Spec => []UnvalidatedIsNamed
<1>1. RInv /\ [Next]_vars => RInv'
  BY RInvNext
<1>2. RInv => UnvalidatedIsNamed
  BY DEF RInv, Accounted, UnvalidatedIsNamed
<1> QED BY RInvInit, <1>1, <1>2, PTL DEF Spec

=============================================================================
