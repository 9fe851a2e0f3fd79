------------------------- MODULE PassManagerProofs -------------------------
(* Theorems about PassManager and AnalysisCache, for every set of analyses,  *)
(* whatever they rest on, and pipelines of any length.                      *)
EXTENDS PassManager, SequenceTheorems, TLAPS

(***************************************************************************)
(* Type correctness.                                                       *)
(***************************************************************************)

Results == SUBSET (Analyses \X Nat)
Entry == [revision: Nat, value: Results]
FrameType == [of: Analyses, todo: Seq(Analyses), value: Results, failed: BOOLEAN]
Answer == [of: Analyses, ok: BOOLEAN, value: Results]
Terminations == {"none", "Completed", "FixedPoint", "IterationLimit", "Failed"}
Report == [first: Nat, last: Nat, iterations: Nat, changed: BOOLEAN,
           runs: Seq(Nat \X Nat), termination: Terminations]

CacheType ==
    /\ revision \in Nat
    /\ facts \in [Analyses -> Nat]
    /\ entries \in [Analyses -> Entry \cup {NoEntry}]
    /\ active \in Seq(FrameType)
    /\ answer \in Answer \cup {NoEntry}

PipeType ==
    /\ policy \in {"None", "InputAndOutput", "AfterEachPass"}
    /\ limit \in Nat \cup {-1}
    /\ valid \in BOOLEAN
    /\ pc \in {"input", "between", "pass", "output", "returned"}
    /\ iteration \in Nat
    /\ index \in Nat
    /\ before \in Nat
    /\ touched \in SUBSET Analyses
    /\ requests \in Nat
    /\ report \in Report
    /\ hooks \in [begun: Nat, ended: Nat, finished: Nat, failed: Nat]

TypeOK == CacheType /\ PipeType

\* What the initial state and each kind of record needs.
LEMMA InitType == Init => TypeOK
<1> SUFFICES ASSUME Init PROVE TypeOK
  OBVIOUS
<1>1. CacheType
  BY DEF Init, CacheType
<1>2. policy \in {"None", "InputAndOutput", "AfterEachPass"} /\ limit \in Nat \cup {-1}
  BY PipelineAssumption DEF Init
<1>3. valid \in BOOLEAN
  BY PipelineAssumption DEF Init
<1>4. report \in Report
  BY DEF Init, Report, Terminations
<1> QED BY <1>1, <1>2, <1>3, <1>4 DEF Init, TypeOK, PipeType

\* The facts a result now is made of.
LEMMA FreshType == ASSUME CacheType, NEW a PROVE Fresh(a) \in Results
BY DEF CacheType, Fresh, Closure, Results

\* A new computation is well formed.
LEMMA FrameTyped == ASSUME CacheType, NEW a \in Analyses PROVE Frame(a) \in FrameType
BY DepsAssumption DEF CacheType, Frame, FrameType, Results

\* Delivering a result keeps the stack and the answer well formed.
LEMMA DeliverType ==
    ASSUME NEW stack \in Seq(FrameType), NEW a \in Analyses, NEW ok \in BOOLEAN,
           NEW value \in Results, answer \in Answer \cup {NoEntry}, Deliver(stack, a, ok, value),
           stack # <<>> => stack[Len(stack)].todo # <<>>
    PROVE  active' \in Seq(FrameType) /\ answer' \in Answer \cup {NoEntry}
<1>1. CASE stack = <<>>
  BY <1>1 DEF Deliver, Answer
<1>2. CASE stack # <<>>
  <2> DEFINE top == stack[Len(stack)]
             new == [of |-> top.of, todo |-> Tail(top.todo), value |-> top.value \cup value,
                     failed |-> ~ok]
  <2>1. top \in FrameType /\ top.todo # <<>>
    BY <1>2
  <2>2. new \in FrameType
    BY <2>1 DEF FrameType, Results
  <2>3. active' = [stack EXCEPT ![Len(stack)] = new] /\ answer' = answer
    BY <1>2 DEF Deliver
  <2> HIDE DEF new
  <2> QED BY <1>2, <2>2, <2>3
<1> QED BY <1>1, <1>2

\* A computation that goes on asks for a next.
Waits(f, a) == ~Fails(f) /\ f.todo # <<>> /\ Head(f.todo) = a

\* Each computation below another is waiting for exactly that one.
StackOK == \A i \in 1..(Len(active) - 1) : Waits(active[i], active[i + 1].of)

\* Delivering a result keeps every waiting computation below the one it waits for.
LEMMA DeliverStack ==
    ASSUME NEW stack \in Seq(FrameType), NEW a, NEW ok, NEW value, Deliver(stack, a, ok, value),
           \A i \in 1..(Len(stack) - 1) : Waits(stack[i], stack[i + 1].of)
    PROVE  StackOK'
<1>1. CASE stack = <<>>
  BY <1>1 DEF Deliver, StackOK
<1>2. CASE stack # <<>>
  <2> DEFINE new == [of |-> stack[Len(stack)].of, todo |-> Tail(stack[Len(stack)].todo),
                     value |-> stack[Len(stack)].value \cup value, failed |-> ~ok]
  <2>1. active' = [stack EXCEPT ![Len(stack)] = new] /\ new.of = stack[Len(stack)].of
    BY <1>2 DEF Deliver
  <2> HIDE DEF new
  <2>2. /\ Len(active') = Len(stack)
        /\ \A i \in 1..(Len(stack) - 1) : active'[i] = stack[i]
        /\ active'[Len(stack)].of = stack[Len(stack)].of
    BY <1>2, <2>1
  <2>3. \A i \in 1..Len(stack) : active'[i].of = stack[i].of
    BY <1>2, <2>2
  <2> QED BY <2>2, <2>3 DEF StackOK
<1> QED BY <1>1, <1>2

\* The stack is empty outside a pass.
TInv == TypeOK /\ StackOK /\ (active # <<>> => pc = "pass")

\* Whoever asks for a has it next on the list.
Asks(a) == active # <<>> => Waits(Top, a)

\* A get keeps the stack well formed.
LEMMA GetTyped ==
    ASSUME TInv, NEW a \in Analyses, Asks(a), Get(a)
    PROVE  /\ active' \in Seq(FrameType) /\ answer' \in Answer \cup {NoEntry} /\ StackOK'
           /\ UNCHANGED <<revision, facts, entries, invalidations>>
<1>0. CacheType /\ StackOK /\ active \in Seq(FrameType)
  BY DEF TInv, TypeOK, CacheType
<1>1. CASE Hit(a) \/ Cycle(a)
  <2>1. PICK ok \in BOOLEAN, value \in Results : Deliver(active, a, ok, value)
    <3>1. Current(a) => entries[a].value \in Results
      BY <1>0 DEF CacheType, Current, Entry
    <3>2. {} \in Results
      BY DEF Results
    <3> QED BY <1>1, <3>1, <3>2 DEF Hit, Cycle
  <2>2. active' \in Seq(FrameType) /\ answer' \in Answer \cup {NoEntry}
    BY <1>0, <2>1, DeliverType DEF CacheType, Asks, Waits, Top
  <2>3. StackOK'
    BY <1>0, <2>1, DeliverStack DEF StackOK
  <2> QED BY <1>1, <2>2, <2>3 DEF Hit, Cycle
<1>2. CASE Miss(a)
  <2>1. Frame(a) \in FrameType /\ Frame(a).of = a
    BY <1>0, FrameTyped DEF Frame
  <2>2. active' = Append(active, Frame(a))
    BY <1>2 DEF Miss
  <2>3. StackOK'
    BY <1>0, <2>1, <2>2 DEF StackOK, Asks, Top
  <2> QED BY <1>0, <1>2, <2>1, <2>2, <2>3 DEF Miss, CacheType
<1> QED BY <1>1, <1>2 DEF Get

\* The stack without the computation that ends, which the one below waits for.
LEMMA BelowTyped ==
    ASSUME TInv, active # <<>>
    PROVE  /\ Below \in Seq(FrameType)
           /\ Len(Below) = Len(active) - 1
           /\ \A i \in 1..Len(Below) : Below[i] = active[i]
           /\ \A i \in 1..(Len(Below) - 1) : Waits(Below[i], Below[i + 1].of)
           /\ Below # <<>> => Waits(Below[Len(Below)], Top.of)
           /\ Top \in FrameType
<1>1. active \in Seq(FrameType) /\ StackOK
  BY DEF TInv, TypeOK, CacheType
<1>2. /\ Below \in Seq(FrameType)
      /\ Len(Below) = Len(active) - 1
      /\ \A i \in 1..Len(Below) : Below[i] = active[i]
  <2> DEFINE n == Len(active) - 1
  <2>1. n \in Nat
    BY <1>1
  <2>2. \A i \in 1..n : active[i] \in FrameType
    BY <1>1
  <2> HIDE DEF n
  <2>3. /\ SubSeq(active, 1, n) \in Seq(FrameType)
        /\ Len(SubSeq(active, 1, n)) = IF 1 <= n THEN n - 1 + 1 ELSE 0
        /\ \A i \in 1..(n - 1 + 1) : SubSeq(active, 1, n)[i] = active[1 + i - 1]
    BY <2>1, <2>2, SubSeqProperties
  <2>4. /\ SubSeq(active, 1, n) \in Seq(FrameType)
        /\ Len(SubSeq(active, 1, n)) = n
        /\ \A i \in 1..n : SubSeq(active, 1, n)[i] = active[i]
    BY <2>1, <2>3
  <2> QED BY <2>4 DEF n, Below
<1> QED BY <1>1, <1>2 DEF StackOK, Top

\* A computation that ends keeps the stack well formed.
LEMMA EndTyped ==
    ASSUME TInv, active # <<>>, NEW ok \in BOOLEAN, NEW value \in Results,
           Deliver(Below, Top.of, ok, value)
    PROVE  active' \in Seq(FrameType) /\ answer' \in Answer \cup {NoEntry} /\ StackOK'
<1>1. /\ Below \in Seq(FrameType) /\ Top.of \in Analyses
      /\ Below # <<>> => Below[Len(Below)].todo # <<>>
      /\ \A i \in 1..(Len(Below) - 1) : Waits(Below[i], Below[i + 1].of)
  BY BelowTyped DEF FrameType, Waits
<1>2. answer \in Answer \cup {NoEntry}
  BY DEF TInv, TypeOK, CacheType
<1>3. active' \in Seq(FrameType) /\ answer' \in Answer \cup {NoEntry}
  BY <1>1, <1>2, DeliverType
<1>4. StackOK'
  BY <1>1, DeliverStack
<1> QED BY <1>3, <1>4

LEMMA CacheStepTyped ==
    ASSUME TInv, CacheStep
    PROVE  /\ active' \in Seq(FrameType) /\ answer' \in Answer \cup {NoEntry} /\ StackOK'
           /\ entries' \in [Analyses -> Entry \cup {NoEntry}]
           /\ UNCHANGED <<revision, facts>>
<1>0. active \in Seq(FrameType) /\ entries \in [Analyses -> Entry \cup {NoEntry}] /\ revision \in Nat
  BY DEF TInv, TypeOK, CacheType
<1>1. CASE AskDependency
  <2>1. active # <<>> /\ ~Fails(Top) /\ Top.todo # <<>> /\ Get(Head(Top.todo))
    BY <1>1 DEF AskDependency
  <2>2. Top \in FrameType
    BY <2>1, BelowTyped
  <2>3. Head(Top.todo) \in Analyses
    BY <2>1, <2>2 DEF FrameType
  <2> QED BY <1>0, <2>1, <2>3, GetTyped DEF Asks, Waits
<1>2. CASE Complete
  <2>1. active # <<>> /\ Deliver(Below, Top.of, TRUE, Top.value)
    BY <1>2 DEF Complete
  <2>2. Top.value \in Results /\ Top.of \in Analyses
    BY <2>1, BelowTyped DEF FrameType
  <2>3. active' \in Seq(FrameType) /\ answer' \in Answer \cup {NoEntry} /\ StackOK'
    BY <2>1, <2>2, EndTyped
  <2>4. entries' \in [Analyses -> Entry \cup {NoEntry}]
    BY <1>0, <1>2, <2>2 DEF Complete, Entry
  <2> QED BY <1>2, <2>3, <2>4 DEF Complete
<1>3. CASE Abandon
  <2>1. active # <<>> /\ Deliver(Below, Top.of, FALSE, {})
    BY <1>3 DEF Abandon
  <2>2. {} \in Results
    BY DEF Results
  <2>3. active' \in Seq(FrameType) /\ answer' \in Answer \cup {NoEntry} /\ StackOK'
    BY <2>1, <2>2, EndTyped
  <2> QED BY <1>0, <1>3, <2>3 DEF Abandon
<1> QED BY <1>1, <1>2, <1>3 DEF CacheStep

\* Discarding and carrying over results keeps the cache well formed.
LEMMA DiscardTyped ==
    ASSUME CacheType, NEW S, Invalidate(S) \/ InvalidateAfterChange(S)
    PROVE  entries' \in [Analyses -> Entry \cup {NoEntry}]
<1>1. CASE Invalidate(S)
  BY <1>1 DEF Invalidate, CacheType
<1>2. CASE InvalidateAfterChange(S)
  <2> SUFFICES ASSUME NEW a \in Analyses, a \in Cached
               PROVE  [revision |-> revision, value |-> entries[a].value] \in Entry
    BY <1>2 DEF InvalidateAfterChange, CacheType, Cached
  <2> QED BY DEF CacheType, Cached, Entry
<1> QED BY <1>1, <1>2

\* Reporting one more run keeps the report well formed.
LEMMA ReportedType ==
    ASSUME report \in Report, revision \in Nat, before \in Nat
    PROVE  [report EXCEPT !.changed = @ \/ (revision # before), !.last = revision,
                          !.runs = Append(@, <<before, revision>>)] \in Report
<1> DEFINE reported == [report EXCEPT !.changed = @ \/ (revision # before), !.last = revision,
                                      !.runs = Append(@, <<before, revision>>)]
<1>1. <<before, revision>> \in Nat \X Nat
  OBVIOUS
<1>2. Append(report.runs, <<before, revision>>) \in Seq(Nat \X Nat)
  BY <1>1, AppendProperties DEF Report
<1>3. PICK c \in BOOLEAN : c = (report.changed \/ (revision # before))
  OBVIOUS
<1>4. reported = [report EXCEPT !.changed = c, !.last = revision,
                                !.runs = Append(report.runs, <<before, revision>>)]
  BY <1>3, Zenon
<1>5. reported \in Report
  <2> HIDE DEF reported
  <2> QED BY <1>2, <1>3, <1>4 DEF Report
<1> QED BY <1>5

\* What a pass and the manager do with the rest.
LEMMA TypedStep ==
    ASSUME TInv, Step
    PROVE  TInv'
<1>0. /\ CacheType /\ PipeType /\ TypeOK /\ StackOK
      /\ report \in Report /\ revision \in Nat /\ before \in Nat
  BY DEF TInv, TypeOK, CacheType, PipeType
<1>r. ASSUME NEW termination \in Terminations, Finish(report, termination)
      PROVE  report' \in Report /\ pc' = "returned"
  BY <1>0, <1>r DEF Finish, Report, PipeType, CacheType
<1>h. /\ [hooks EXCEPT !.begun = @ + 1] \in [begun: Nat, ended: Nat, finished: Nat, failed: Nat]
      /\ [hooks EXCEPT !.ended = @ + 1] \in [begun: Nat, ended: Nat, finished: Nat, failed: Nat]
      /\ [hooks EXCEPT !.finished = @ + 1] \in [begun: Nat, ended: Nat, finished: Nat, failed: Nat]
      /\ [hooks EXCEPT !.failed = @ + 1] \in [begun: Nat, ended: Nat, finished: Nat, failed: Nat]
  BY <1>0 DEF PipeType
<1>1. CASE Open
  <2>1. active = <<>>
    BY <1>1 DEF Open, TInv
  <2>2. report' \in Report /\ pc' \in {"between", "returned"}
    BY <1>0, <1>1, <1>r DEF Open, Terminations, PipeType
  <2>3. hooks' \in [begun: Nat, ended: Nat, finished: Nat, failed: Nat]
    BY <1>0, <1>1, <1>h DEF Open, PipeType
  <2>4. CacheType' /\ StackOK' /\ active' = <<>>
    BY <1>0, <1>1, <2>1 DEF Open, cacheVars, CacheType, StackOK
  <2> QED BY <1>0, <1>1, <2>2, <2>3, <2>4 DEF Open, TInv, TypeOK, PipeType
<1>2. CASE BeginPass
  <2>1. CacheType' /\ StackOK'
    BY <1>0, <1>2 DEF BeginPass, CacheType, StackOK
  <2>2. PipeType'
    BY <1>0, <1>2, <1>h DEF BeginPass, PipeType, CacheType
  <2> QED BY <1>2, <2>1, <2>2 DEF TInv, TypeOK, BeginPass
<1>3. ASSUME NEW a \in Analyses, Ask(a)
      PROVE  TInv'
  <2>1. active = <<>> /\ Get(a)
    BY <1>3 DEF Ask, InPass
  <2>2. /\ active' \in Seq(FrameType) /\ answer' \in Answer \cup {NoEntry} /\ StackOK'
        /\ UNCHANGED <<revision, facts, entries>>
    BY <2>1, GetTyped DEF Asks
  <2>3. PipeType' /\ pc' = "pass"
    BY <1>0, <1>3 DEF Ask, InPass, pipeVars, PipeType
  <2> QED BY <1>0, <2>2, <2>3 DEF TInv, TypeOK, CacheType
<1>4. ASSUME NEW S, Drop(S)
      PROVE  TInv'
  <2>1. entries' \in [Analyses -> Entry \cup {NoEntry}]
    BY <1>0, <1>4, DiscardTyped DEF Drop
  <2>2. CacheType' /\ StackOK'
    BY <1>0, <1>4, <2>1 DEF Drop, CacheType, StackOK
  <2>3. PipeType' /\ pc' = "pass"
    BY <1>0, <1>4 DEF Drop, InPass, pipeVars, PipeType
  <2> QED BY <2>2, <2>3 DEF TInv, TypeOK
<1>5. CASE pc = "pass" /\ CacheStep /\ UNCHANGED <<pipeVars, valid, touched, requests>>
  <2>1. /\ active' \in Seq(FrameType) /\ answer' \in Answer \cup {NoEntry} /\ StackOK'
        /\ entries' \in [Analyses -> Entry \cup {NoEntry}]
        /\ UNCHANGED <<revision, facts>>
    BY <1>5, CacheStepTyped
  <2>2. PipeType' /\ pc' = "pass"
    BY <1>0, <1>5 DEF pipeVars, PipeType
  <2> QED BY <1>0, <2>1, <2>2 DEF TInv, TypeOK, CacheType
<1>6. ASSUME NEW changed \in SUBSET Analyses, NEW ok \in Verdicts, Edit(changed, ok)
      PROVE  TInv'
  <2>1. revision' \in Nat /\ facts' \in [Analyses -> Nat]
    BY <1>0, <1>6 DEF Edit, CacheType
  <2>2. CacheType' /\ StackOK'
    BY <1>0, <1>6, <2>1 DEF Edit, CacheType, StackOK
  <2>3. touched' \in SUBSET Analyses /\ valid' \in BOOLEAN
    BY <1>0, <1>6, PipelineAssumption DEF Edit, PipeType
  <2>4. PipeType' /\ pc' = "pass"
    BY <1>0, <1>6, <2>3 DEF Edit, InPass, pipeVars, PipeType
  <2> QED BY <2>2, <2>4 DEF TInv, TypeOK
<1>7. CASE PassFails
  <2>1. report' \in Report /\ pc' = "returned"
    BY <1>7, <1>r DEF PassFails, Terminations
  <2>2. CacheType' /\ StackOK' /\ active' = <<>>
    BY <1>0, <1>7 DEF PassFails, InPass, cacheVars, CacheType, StackOK
  <2>3. PipeType'
    BY <1>0, <1>7, <1>h, <2>1 DEF PassFails, PipeType
  <2> QED BY <2>2, <2>3 DEF TInv, TypeOK
<1>8. ASSUME NEW preserved \in SUBSET Honest, EndPass(preserved)
      PROVE  TInv'
  <2> DEFINE reported == [report EXCEPT !.changed = @ \/ (revision # before), !.last = revision,
                                        !.runs = Append(@, <<before, revision>>)]
  <2>1. reported \in Report
    BY <1>0, ReportedType
  <2>2. \/ report' = reported /\ pc' = "between"
        \/ Finish(reported, "Failed")
    BY <1>8 DEF EndPass
  <2> HIDE DEF reported
  <2>3. report' \in Report /\ pc' \in {"between", "returned"}
    BY <1>0, <2>1, <2>2 DEF Finish, Report, Terminations, CacheType
  <2>4. entries' \in [Analyses -> Entry \cup {NoEntry}]
    BY <1>0, <1>8, DiscardTyped DEF EndPass, CacheType
  <2>5. CacheType' /\ StackOK' /\ active' = <<>>
    BY <1>0, <1>8, <2>4 DEF EndPass, InPass, CacheType, StackOK
  <2>6. index' \in Nat
    BY <1>0, <1>8 DEF EndPass, PipeType
  <2>7. hooks' \in [begun: Nat, ended: Nat, finished: Nat, failed: Nat]
    BY <1>8, <1>h DEF EndPass
  <2>8. PipeType'
    BY <1>0, <1>8, <2>3, <2>6, <2>7 DEF EndPass, PipeType
  <2> QED BY <2>5, <2>8 DEF TInv, TypeOK
<1>9. CASE EndIteration
  <2>1. PICK termination \in Terminations :
           report' = [report EXCEPT !.iterations = @ + 1, !.termination = termination]
    <3>1. report.termination \in Terminations
      BY <1>0 DEF PipeType, Report
    <3> QED BY <1>9, <3>1 DEF EndIteration, Terminations
  <2>2. report' \in Report
    <3>1. report.iterations + 1 \in Nat /\ report \in Report
      BY <1>0 DEF PipeType, Report
    <3> QED BY <2>1, <3>1 DEF Report
  <2>3. CacheType' /\ StackOK' /\ active' = <<>>
    BY <1>0, <1>9 DEF EndIteration, cacheVars, CacheType, StackOK, TInv
  <2>4. PipeType'
    BY <1>0, <1>9, <2>2 DEF EndIteration, PipeType
  <2> QED BY <2>3, <2>4 DEF TInv, TypeOK
<1>10. CASE Close
  <2>1. report.termination \in Terminations
    BY <1>0 DEF PipeType, Report
  <2>2. report' \in Report /\ pc' = "returned"
    BY <1>10, <1>r, <2>1 DEF Close, Terminations
  <2>3. hooks' \in [begun: Nat, ended: Nat, finished: Nat, failed: Nat]
    BY <1>10, <1>h DEF Close
  <2>4. CacheType' /\ StackOK' /\ active' = <<>>
    BY <1>0, <1>10 DEF Close, cacheVars, CacheType, StackOK, TInv
  <2>5. PipeType'
    BY <1>0, <1>10, <2>2, <2>3 DEF Close, PipeType
  <2> QED BY <2>4, <2>5 DEF TInv, TypeOK
<1> QED BY <1>1, <1>2, <1>3, <1>4, <1>5, <1>6, <1>7, <1>8, <1>9, <1>10 DEF Step

LEMMA TInvNext == TInv /\ [Step]_vars => TInv'
<1>1. TInv /\ UNCHANGED vars => TInv'
  BY DEF vars, cacheVars, pipeVars, TInv, TypeOK, CacheType, PipeType, StackOK
<1> QED BY <1>1, TypedStep

LEMMA TInvInit == Init => TInv
BY InitType DEF Init, TInv, StackOK

LEMMA TInvHolds == Spec => []TInv
BY TInvInit, TInvNext, PTL DEF Spec

\* The cache, the stack of computations in progress, the report and what observers were
\* told keep their types, whatever passes do.
THEOREM TypeCorrect == Spec => []TypeOK
<1>1. TInv => TypeOK
  BY DEF TInv
<1> QED BY TInvHolds, <1>1, PTL

(***************************************************************************)
(* What a result rests on.                                                 *)
(***************************************************************************)

ClosedSet(S) == \A x \in S : \A i \in 1..Len(Deps[x]) : Deps[x][i] \in S

\* Dependencies are analyses.
LEMMA DepType ==
    ASSUME NEW a \in Analyses
    PROVE  /\ Deps[a] \in Seq(Analyses)
           /\ \A i \in 1..Len(Deps[a]) : Deps[a][i] \in Analyses
BY DepsAssumption

\* An analysis is in every closed set that has something that rests on it.
LEMMA ClosureLeast ==
    ASSUME NEW a, NEW S \in SUBSET Analyses, a \in S, ClosedSet(S)
    PROVE  Closure(a) \subseteq S
BY DEF Closure, ClosedSet

\* What a result rests on is closed.
LEMMA ClosureClosed ==
    ASSUME NEW a \in Analyses
    PROVE  /\ a \in Closure(a)
           /\ Closure(a) \in SUBSET Analyses
           /\ ClosedSet(Closure(a))
<1>1. a \in Closure(a) /\ Closure(a) \in SUBSET Analyses
  BY DEF Closure
<1>2. ASSUME NEW x \in Closure(a), NEW i \in 1..Len(Deps[x])
      PROVE  Deps[x][i] \in Closure(a)
  <2>1. Deps[x][i] \in Analyses
    BY <1>1, DepType
  <2>2. ASSUME NEW S \in SUBSET Analyses, a \in S,
               \A y \in S : \A j \in 1..Len(Deps[y]) : Deps[y][j] \in S
        PROVE  Deps[x][i] \in S
    <3>1. x \in S
      BY <2>2 DEF Closure
    <3> QED BY <2>2, <3>1
  <2> QED BY <2>1, <2>2 DEF Closure
<1> QED BY <1>1, <1>2 DEF ClosedSet

\* A result rests on its own fact and on what its dependencies rest on.
LEMMA ClosureUnfolds ==
    ASSUME NEW a \in Analyses
    PROVE  Closure(a) = {a} \cup UNION {Closure(Deps[a][i]) : i \in 1..Len(Deps[a])}
<1> DEFINE R == {a} \cup UNION {Closure(Deps[a][i]) : i \in 1..Len(Deps[a])}
<1>1. \A i \in 1..Len(Deps[a]) :
         /\ Deps[a][i] \in Closure(Deps[a][i])
         /\ Closure(Deps[a][i]) \in SUBSET Analyses
         /\ ClosedSet(Closure(Deps[a][i]))
  BY DepType, ClosureClosed
<1>2. R \in SUBSET Analyses
  BY <1>1
<1>3. ClosedSet(R)
  <2> SUFFICES ASSUME NEW x \in R, NEW j \in 1..Len(Deps[x]) PROVE Deps[x][j] \in R
    BY DEF ClosedSet
  <2>1. CASE x = a
    BY <1>1, <2>1
  <2>2. CASE x # a
    <3>1. PICK i \in 1..Len(Deps[a]) : x \in Closure(Deps[a][i])
      BY <2>2
    <3>2. Deps[x][j] \in Closure(Deps[a][i])
      BY <1>1, <3>1 DEF ClosedSet
    <3> QED BY <3>2
  <2> QED BY <2>1, <2>2
<1>4. Closure(a) \subseteq R
  <2> HIDE DEF R
  <2>1. a \in R
    BY DEF R
  <2> QED BY <1>2, <1>3, <2>1, ClosureLeast
<1>5. R \subseteq Closure(a)
  <2>1. a \in Closure(a) /\ Closure(a) \in SUBSET Analyses /\ ClosedSet(Closure(a))
    BY ClosureClosed
  <2>2. ASSUME NEW i \in 1..Len(Deps[a]) PROVE Closure(Deps[a][i]) \subseteq Closure(a)
    <3>1. Deps[a][i] \in Closure(a)
      BY <2>1 DEF ClosedSet
    <3> QED BY <2>1, <3>1, ClosureLeast
  <2> QED BY <2>1, <2>2
<1> QED BY <1>4, <1>5

\* The same for the result itself: a computation that starts owes exactly this.
LEMMA FreshUnfolds ==
    ASSUME NEW a \in Analyses
    PROVE  Fresh(a) = {<<a, facts[a]>>} \cup UNION {Fresh(Deps[a][j]) : j \in 1..Len(Deps[a])}
<1>1. Closure(a) = {a} \cup UNION {Closure(Deps[a][i]) : i \in 1..Len(Deps[a])}
  BY ClosureUnfolds
<1>2. ASSUME NEW p
      PROVE  p \in Fresh(a) <=>
                p \in {<<a, facts[a]>>} \cup UNION {Fresh(Deps[a][j]) : j \in 1..Len(Deps[a])}
  BY <1>1 DEF Fresh
<1> QED BY <1>2

\* An edit that touches nothing a result rests on leaves it as it is.
LEMMA FreshUntouched ==
    ASSUME NEW a, \A b \in Closure(a) : facts'[b] = facts[b]
    PROVE  Fresh(a)' = Fresh(a)
BY DEF Fresh, Closure

(***************************************************************************)
(* The cache.                                                              *)
(***************************************************************************)

\* A result is what computing it now would return if it is current, or if no edit of
\* the running pass touched what it rests on; between passes every result is current.
EntryOK(a) ==
    entries[a] # NoEntry =>
       /\ entries[a].revision <= revision
       /\ Current(a) \/ Closure(a) \cap touched = {} => IsFresh(a, entries[a].value)
       /\ pc \in {"input", "between"} \/ (pc = "pass" /\ revision = before) => Current(a)

\* A computation holds no fact but those its result may rest on.  One that rests on no
\* analysis that goes on without what failed, and has not failed itself, has them all
\* with what it still has to ask for.
FrameOK(f) ==
    LET owed == f.value \cup UNION {Fresh(f.todo[j]) : j \in 1..Len(f.todo)} IN
    /\ owed \subseteq Fresh(f.of)
    /\ Closure(f.of) \cap Tolerant = {} /\ ~f.failed => owed = Fresh(f.of)

FramesOK == \A i \in 1..Len(active) : FrameOK(active[i])

CacheInv ==
    /\ TInv
    /\ before <= revision
    /\ \A a \in Analyses : EntryOK(a)
    /\ FramesOK
    /\ AnswerIsFresh

\* A computation that starts owes all of its result but its own fact.
LEMMA FrameStarts ==
    ASSUME NEW a \in Analyses
    PROVE  FrameOK(Frame(a))
BY FreshUnfolds DEF FrameOK, Frame

\* A result that is fresh now stays so while the facts do.
LEMMA FreshKeeps ==
    ASSUME facts' = facts, NEW a, NEW value, IsFresh(a, value)
    PROVE  IsFresh(a, value)'
<1>1. Fresh(a)' = Fresh(a) /\ Closure(a)' = Closure(a)
  BY DEF Fresh, Closure
<1> QED BY <1>1 DEF IsFresh

\* What a part of a list states, the list states.
LEMMA TodoSplits ==
    ASSUME NEW todo \in Seq(Analyses), todo # <<>>
    PROVE  UNION {Fresh(todo[j]) : j \in 1..Len(todo)}
              = Fresh(todo[1]) \cup UNION {Fresh(Tail(todo)[j]) : j \in 1..Len(Tail(todo))}
<1>1. /\ Len(todo) \in Nat /\ Len(todo) >= 1 /\ Len(Tail(todo)) = Len(todo) - 1
      /\ \A j \in 1..Len(Tail(todo)) : Tail(todo)[j] = todo[j + 1]
  OBVIOUS
<1>2. ASSUME NEW p
      PROVE  (\E j \in 1..Len(todo) : p \in Fresh(todo[j])) <=>
                p \in Fresh(todo[1]) \/ \E j \in 1..Len(Tail(todo)) : p \in Fresh(Tail(todo)[j])
  <2>1. ASSUME NEW j \in 1..Len(todo), p \in Fresh(todo[j]), p \notin Fresh(todo[1])
        PROVE  \E m \in 1..Len(Tail(todo)) : p \in Fresh(Tail(todo)[m])
    <3>1. j # 1
      BY <2>1
    <3>2. j - 1 \in 1..Len(Tail(todo)) /\ Tail(todo)[j - 1] = todo[j]
      BY <1>1, <3>1
    <3> QED BY <2>1, <3>2
  <2>2. ASSUME NEW j \in 1..Len(Tail(todo)), p \in Fresh(Tail(todo)[j])
        PROVE  \E m \in 1..Len(todo) : p \in Fresh(todo[m])
    <3>1. j + 1 \in 1..Len(todo) /\ Tail(todo)[j] = todo[j + 1]
      BY <1>1
    <3> QED BY <2>2, <3>1
  <2>3. 1 \in 1..Len(todo)
    BY <1>1
  <2> QED BY <2>1, <2>2, <2>3
<1> QED BY <1>2

\* A computation that gets the result it asked for, or an error, owes the rest of
\* its list.
LEMMA FrameGrows ==
    ASSUME NEW f \in FrameType, NEW a \in Analyses, FrameOK(f), Waits(f, a),
           NEW ok \in BOOLEAN, NEW value, IF ok THEN IsFresh(a, value) ELSE value = {}
    PROVE  FrameOK([of |-> f.of, todo |-> Tail(f.todo), value |-> f.value \cup value, failed |-> ~ok])
<1> DEFINE rest == UNION {Fresh(Tail(f.todo)[j]) : j \in 1..Len(Tail(f.todo))}
           new == [of |-> f.of, todo |-> Tail(f.todo), value |-> f.value \cup value, failed |-> ~ok]
<1>1. f.todo \in Seq(Analyses) /\ f.todo # <<>> /\ f.todo[1] = a /\ f.of \in Analyses
  BY DEF FrameType, Waits
<1>2. UNION {Fresh(f.todo[j]) : j \in 1..Len(f.todo)} = Fresh(a) \cup rest
  BY <1>1, TodoSplits
<1>3. value \subseteq Fresh(a) /\ f.value \cup Fresh(a) \cup rest \subseteq Fresh(f.of)
  BY <1>2 DEF FrameOK, IsFresh
<1>4. ASSUME Closure(f.of) \cap Tolerant = {}, ok
      PROVE  f.value \cup value \cup rest = Fresh(f.of)
  <2>1. Closure(a) \subseteq Closure(f.of)
    <3> SUFFICES ASSUME NEW b \in Closure(a) PROVE b \in Closure(f.of)
      OBVIOUS
    <3>1. <<b, facts[b]>> \in Fresh(f.of)
      BY <1>3 DEF Fresh
    <3> QED BY <3>1 DEF Fresh
  <2>2. f.of \notin Tolerant
    BY <1>1, <1>4, ClosureClosed
  <2>3. ~f.failed /\ value = Fresh(a)
    BY <1>4, <2>1, <2>2 DEF Waits, Fails, IsFresh
  <2>4. f.value \cup Fresh(a) \cup rest = Fresh(f.of)
    BY <1>2, <1>4, <2>3 DEF FrameOK
  <2> QED BY <2>3, <2>4
<1>5. f.value \cup value \cup rest \subseteq Fresh(f.of)
  BY <1>3
<1>6. new.of = f.of /\ new.todo = Tail(f.todo) /\ new.value = f.value \cup value /\ new.failed = ~ok
  OBVIOUS
<1>7. FrameOK(new)
  <2> HIDE DEF new
  <2>1. UNION {Fresh(new.todo[j]) : j \in 1..Len(new.todo)} = rest
    BY <1>6
  <2> HIDE DEF rest
  <2>2. new.value \cup rest \subseteq Fresh(new.of)
    BY <1>5, <1>6
  <2>3. Closure(new.of) \cap Tolerant = {} /\ ~new.failed => new.value \cup rest = Fresh(new.of)
    BY <1>4, <1>6
  <2> QED BY <2>1, <2>2, <2>3 DEF FrameOK
<1> QED BY <1>7

\* A well-formed computation stays so while the facts do.
LEMMA FrameKeeps ==
    ASSUME facts' = facts, NEW f, FrameOK(f)
    PROVE  FrameOK(f)'
<1>1. \A a : Fresh(a)' = Fresh(a) /\ Closure(a)' = Closure(a)
  BY DEF Fresh, Closure
<1> QED BY <1>1 DEF FrameOK

\* A result that is what computing it now would return stays so on delivery.
LEMMA DeliverFresh ==
    ASSUME NEW stack \in Seq(FrameType), NEW a \in Analyses, NEW ok \in BOOLEAN, NEW value \in Results,
           Deliver(stack, a, ok, value), facts' = facts,
           \A i \in 1..Len(stack) : FrameOK(stack[i]),
           stack # <<>> => Waits(stack[Len(stack)], a),
           IF ok THEN IsFresh(a, value) ELSE value = {},
           AnswerIsFresh
    PROVE  FramesOK' /\ AnswerIsFresh'
<1>2. CASE stack = <<>>
  <2>1. active' = <<>> /\ answer' = [of |-> a, ok |-> ok, value |-> value]
    BY <1>2 DEF Deliver
  <2>2. FramesOK'
    BY <2>1 DEF FramesOK
  <2>3. ok => IsFresh(a, value)'
    BY FreshKeeps
  <2> QED BY <2>1, <2>2, <2>3 DEF AnswerIsFresh
<1>3. CASE stack # <<>>
  <2> DEFINE top == stack[Len(stack)]
             new == [of |-> top.of, todo |-> Tail(top.todo), value |-> top.value \cup value,
                     failed |-> ~ok]
  <2>1. active' = [stack EXCEPT ![Len(stack)] = new] /\ answer' = answer
    BY <1>3 DEF Deliver
  <2>2. AnswerIsFresh'
    BY <2>1, FreshKeeps DEF AnswerIsFresh
  <2>3. top \in FrameType /\ FrameOK(top) /\ Waits(top, a) /\ Len(stack) \in 1..Len(stack)
    BY <1>3
  <2>4. FrameOK(new)
    BY <2>3, FrameGrows
  <2> HIDE DEF new, top
  <2>5. /\ Len(active') = Len(stack)
        /\ \A i \in 1..Len(active') : active'[i] = stack[i] \/ active'[i] = new
    BY <1>3, <2>1
  <2>6. \A i \in 1..Len(active') : FrameOK(active'[i])
    BY <2>4, <2>5
  <2>7. FramesOK'
    BY <2>6, FrameKeeps DEF FramesOK
  <2> QED BY <2>2, <2>7
<1> QED BY <1>2, <1>3

\* What an entry says holds on while nothing it depends on changes.
LEMMA EntriesKeep ==
    ASSUME CacheInv, UNCHANGED <<revision, facts, entries, touched, before>>,
           pc' = pc \/ pc' \in {"output", "returned"} \/ (pc = "input" /\ pc' = "between")
    PROVE  \A a \in Analyses : EntryOK(a)'
<1>1. \A a : Fresh(a)' = Fresh(a) /\ Closure(a)' = Closure(a) /\ (Current(a)' <=> Current(a))
  BY DEF Fresh, Closure, Current
<1> QED BY <1>1 DEF CacheInv, EntryOK, IsFresh

\* So does what computations and the pass were given.
LEMMA FramesKeep ==
    ASSUME CacheInv, UNCHANGED <<facts, active>>, answer' = answer \/ answer' = NoEntry
    PROVE  FramesOK' /\ AnswerIsFresh'
<1>1. FramesOK'
  BY FrameKeeps DEF CacheInv, FramesOK
<1>2. AnswerIsFresh'
  BY FreshKeeps DEF CacheInv, AnswerIsFresh
<1> QED BY <1>1, <1>2

\* A get serves from the cache only what is current, and so fresh.
LEMMA GetFresh ==
    ASSUME CacheInv, NEW a \in Analyses, Asks(a), Get(a)
    PROVE  FramesOK' /\ AnswerIsFresh'
<1>0. active \in Seq(FrameType) /\ FramesOK /\ AnswerIsFresh /\ CacheType /\ EntryOK(a)
  BY DEF CacheInv, TInv, TypeOK, CacheType
<1>1. /\ \A i \in 1..Len(active) : FrameOK(active[i])
      /\ active # <<>> => Waits(active[Len(active)], a)
  BY <1>0 DEF FramesOK, Asks, Top
<1>2. CASE Hit(a)
  <2>1. /\ Deliver(active, a, TRUE, entries[a].value) /\ facts' = facts
        /\ IsFresh(a, entries[a].value)
    BY <1>0, <1>2 DEF Hit, Current, EntryOK
  <2>2. entries[a].value \in Results
    BY <1>0, <1>2 DEF Hit, Current, CacheType, Entry
  <2> QED BY <1>0, <1>1, <2>1, <2>2, DeliverFresh
<1>3. CASE Cycle(a)
  <2>1. Deliver(active, a, FALSE, {}) /\ facts' = facts /\ {} \in Results
    BY <1>3 DEF Cycle, Results
  <2> QED BY <1>0, <1>1, <2>1, DeliverFresh
<1>4. CASE Miss(a)
  <2>1. active' = Append(active, Frame(a)) /\ UNCHANGED <<facts, answer>>
    BY <1>4 DEF Miss
  <2>2. FrameOK(Frame(a)) /\ Frame(a) \in FrameType
    BY <1>0, FrameStarts, FrameTyped
  <2>3. \A i \in 1..Len(active') : FrameOK(active'[i])
    BY <1>0, <1>1, <2>1, <2>2
  <2>4. FramesOK'
    BY <2>1, <2>3, FrameKeeps DEF FramesOK
  <2>5. AnswerIsFresh'
    BY <1>0, <2>1, FreshKeeps DEF AnswerIsFresh
  <2> QED BY <2>4, <2>5
<1> QED BY <1>2, <1>3, <1>4 DEF Get

\* A computation that ends returns, and caches, what it owes.
LEMMA CacheStepFresh ==
    ASSUME CacheInv, pc = "pass", CacheStep, UNCHANGED <<touched, before, pc>>
    PROVE  FramesOK' /\ AnswerIsFresh' /\ \A a \in Analyses : EntryOK(a)'
<1>0. /\ active \in Seq(FrameType) /\ FramesOK /\ AnswerIsFresh /\ TInv /\ CacheType
      /\ revision \in Nat /\ entries \in [Analyses -> Entry \cup {NoEntry}]
  BY DEF CacheInv, TInv, TypeOK, CacheType
<1>1. CASE AskDependency
  <2>1. active # <<>> /\ ~Fails(Top) /\ Top.todo # <<>> /\ Get(Head(Top.todo))
    BY <1>1 DEF AskDependency
  <2>2. Head(Top.todo) \in Analyses
    BY <1>0, <2>1, BelowTyped DEF FrameType
  <2>3. Asks(Head(Top.todo))
    BY <2>1 DEF Asks, Waits
  <2>4. UNCHANGED <<revision, facts, entries>>
    BY <2>1 DEF Get, Hit, Cycle, Miss
  <2> QED BY <2>1, <2>2, <2>3, <2>4, GetFresh, EntriesKeep
<1>2. ASSUME active # <<>>
      PROVE  /\ Below \in Seq(FrameType) /\ Top \in FrameType /\ FrameOK(Top)
             /\ \A i \in 1..Len(Below) : FrameOK(Below[i])
             /\ Below # <<>> => Waits(Below[Len(Below)], Top.of)
  <2>1. /\ Below \in Seq(FrameType) /\ Top \in FrameType /\ Len(Below) = Len(active) - 1
        /\ \A i \in 1..Len(Below) : Below[i] = active[i]
        /\ Below # <<>> => Waits(Below[Len(Below)], Top.of)
    BY <1>0, <1>2, BelowTyped
  <2>2. FrameOK(Top)
    BY <1>0, <1>2 DEF FramesOK, Top
  <2>3. \A i \in 1..Len(Below) : i \in 1..Len(active)
    BY <1>0, <2>1
  <2> QED BY <1>0, <2>1, <2>2, <2>3 DEF FramesOK
<1>3. CASE Complete
  <2>1. /\ active # <<>> /\ ~Fails(Top) /\ Top.todo = <<>>
        /\ Deliver(Below, Top.of, TRUE, Top.value)
        /\ UNCHANGED <<revision, facts>>
        /\ entries' = [entries EXCEPT ![Top.of] = [revision |-> revision, value |-> Top.value]]
    BY <1>3 DEF Complete
  <2>2. Top.of \in Analyses /\ Top.value \in Results
    BY <1>2, <2>1 DEF FrameType
  <2>3. IsFresh(Top.of, Top.value)
    <3>1. 1..Len(Top.todo) = {}
      BY <2>1
    <3>2. UNION {Fresh(Top.todo[j]) : j \in 1..Len(Top.todo)} = {}
      BY <3>1
    <3>3. Closure(Top.of) \cap Tolerant = {} => ~Top.failed
      BY <2>1, <2>2, ClosureClosed DEF Fails
    <3>4. Top.value \cup {} = Top.value
      OBVIOUS
    <3>5. /\ Top.value \subseteq Fresh(Top.of)
          /\ Closure(Top.of) \cap Tolerant = {} /\ ~Top.failed => Top.value = Fresh(Top.of)
      BY <1>2, <2>1, <3>2, <3>4 DEF FrameOK
    <3> QED BY <3>3, <3>5 DEF IsFresh
  <2>4. FramesOK' /\ AnswerIsFresh'
    BY <1>0, <1>2, <2>1, <2>2, <2>3, DeliverFresh
  <2>5. \A a : Fresh(a)' = Fresh(a) /\ Closure(a)' = Closure(a)
    BY <2>1 DEF Fresh, Closure
  <2>6. ASSUME NEW a \in Analyses, a # Top.of
        PROVE  EntryOK(a)'
    <3>1. entries'[a] = entries[a] /\ EntryOK(a)
      BY <1>0, <2>1, <2>6 DEF CacheInv
    <3> QED BY <2>1, <2>5, <3>1 DEF EntryOK, Current, IsFresh
  <2>7. ASSUME NEW a \in Analyses, a = Top.of
        PROVE  EntryOK(a)'
    <3>1. entries'[a] = [revision |-> revision, value |-> Top.value]
      BY <1>0, <2>1, <2>7
    <3>2. entries'[a].revision = revision' /\ entries'[a].value = Top.value /\ revision' <= revision'
      BY <1>0, <2>1, <3>1
    <3>3. /\ entries'[a].value \subseteq Fresh(a)'
          /\ Closure(a)' \cap Tolerant = {} => entries'[a].value = Fresh(a)'
      BY <2>3, <2>5, <2>7, <3>2 DEF IsFresh
    <3> QED BY <3>2, <3>3 DEF EntryOK, Current, IsFresh
  <2> QED BY <2>4, <2>6, <2>7
<1>4. CASE Abandon
  <2>1. active # <<>> /\ Deliver(Below, Top.of, FALSE, {}) /\ UNCHANGED <<revision, facts, entries>>
    BY <1>4 DEF Abandon
  <2>2. Top.of \in Analyses /\ {} \in Results
    BY <1>2, <2>1 DEF FrameType, Results
  <2>3. FramesOK' /\ AnswerIsFresh'
    BY <1>0, <1>2, <2>1, <2>2, DeliverFresh
  <2> QED BY <2>1, <2>3, EntriesKeep
<1> QED BY <1>1, <1>3, <1>4 DEF CacheStep

\* What the manager carries over at the end of a pass is still fresh, and is all that
\* is left of what the pass changed.
LEMMA CarriedFresh ==
    ASSUME CacheInv, pc = "pass", NEW preserved \in SUBSET Honest,
           IF revision # before THEN InvalidateAfterChange(preserved) ELSE UNCHANGED entries,
           UNCHANGED <<revision, facts, touched, before>>
    PROVE  \A a \in Analyses : EntryOK(a)'
<1> SUFFICES ASSUME NEW a \in Analyses PROVE EntryOK(a)'
  OBVIOUS
<1>1. /\ EntryOK(a) /\ CacheType
      /\ Fresh(a)' = Fresh(a) /\ Closure(a)' = Closure(a) /\ revision' = revision
  BY DEF CacheInv, TInv, TypeOK, Fresh, Closure
<1>2. CASE entries'[a] = NoEntry
  BY <1>2 DEF EntryOK
<1>3. CASE entries'[a] = entries[a] /\ Current(a)
  BY <1>1, <1>3 DEF EntryOK, Current, IsFresh
<1>4. CASE /\ a \in preserved /\ entries[a] # NoEntry
           /\ entries'[a] = [revision |-> revision, value |-> entries[a].value]
  <2>1. Closure(a) \cap touched = {}
    BY <1>4 DEF Honest
  <2>2. entries'[a].revision = revision /\ IsFresh(a, entries'[a].value)
    BY <1>1, <1>4, <2>1 DEF EntryOK
  <2> QED BY <1>1, <2>2 DEF EntryOK, Current, CacheType, IsFresh
<1>5. CASE revision = before /\ entries' = entries /\ entries[a] # NoEntry
  <2>1. Current(a)
    BY <1>1, <1>5 DEF EntryOK
  <2> QED BY <1>3, <1>5, <2>1
<1>6. CASE revision # before /\ InvalidateAfterChange(preserved)
  BY <1>2, <1>3, <1>4, <1>6 DEF InvalidateAfterChange, Cached, Current
<1> QED BY <1>2, <1>5, <1>6

\* An edit outdates every result that rests on something it touched.
LEMMA EditedFresh ==
    ASSUME CacheInv, NEW changed \in SUBSET Analyses, NEW ok, Edit(changed, ok)
    PROVE  (\A a \in Analyses : EntryOK(a)') /\ FramesOK' /\ AnswerIsFresh'
<1>1. /\ revision' = revision + 1 /\ revision \in Nat /\ facts \in [Analyses -> Nat]
      /\ facts' = [a \in Analyses |-> IF a \in changed THEN revision' ELSE facts[a]]
      /\ touched' = touched \cup changed /\ pc' = "pass" /\ before' = before /\ before <= revision
      /\ entries' = entries /\ active' = <<>> /\ answer' = NoEntry /\ before \in Nat
      /\ entries \in [Analyses -> Entry \cup {NoEntry}]
  BY DEF Edit, InPass, pipeVars, CacheInv, TInv, TypeOK, CacheType, PipeType
<1>2. ASSUME NEW a \in Analyses
      PROVE  EntryOK(a)'
  <2> SUFFICES ASSUME entries[a] # NoEntry
               PROVE  /\ entries[a].revision <= revision'
                      /\ ~Current(a)'
                      /\ Closure(a)' \cap touched' = {} => IsFresh(a, entries[a].value)'
                      /\ revision' # before
    BY <1>1 DEF EntryOK
  <2>1. entries[a].revision \in Nat /\ entries[a].revision <= revision
    BY <1>1 DEF CacheInv, EntryOK, Entry
  <2>2. ~Current(a)'
    BY <1>1, <2>1 DEF Current
  <2>3. ASSUME Closure(a)' \cap touched' = {}
        PROVE  IsFresh(a, entries[a].value)'
    <3>1. Closure(a)' = Closure(a) /\ Closure(a) \subseteq Analyses
      BY DEF Closure
    <3>2. \A b \in Closure(a) : facts'[b] = facts[b]
      BY <1>1, <2>3, <3>1
    <3>3. IsFresh(a, entries[a].value)
      BY <1>1, <2>3, <3>1 DEF CacheInv, EntryOK
    <3>4. Fresh(a)' = Fresh(a)
      BY <3>2, FreshUntouched
    <3> QED BY <1>1, <3>1, <3>3, <3>4 DEF IsFresh
  <2> QED BY <1>1, <2>1, <2>2, <2>3
<1> QED BY <1>1, <1>2 DEF FramesOK, AnswerIsFresh

LEMMA CacheInvStep ==
    ASSUME CacheInv, Step
    PROVE  CacheInv'
<1>0. TInv' /\ TInv /\ revision \in Nat /\ before \in Nat /\ before <= revision
  BY TypedStep DEF CacheInv, TInv, TypeOK, CacheType, PipeType
<1>1. CASE Open
  <2>1. \A a \in Analyses : EntryOK(a)'
    <3>1. /\ UNCHANGED <<revision, facts, entries, touched, before>>
          /\ pc = "input" /\ pc' \in {"between", "returned"}
      BY <1>1 DEF Open, cacheVars, Finish
    <3> QED BY <3>1, EntriesKeep
  <2> QED BY <1>0, <1>1, <2>1, FramesKeep DEF Open, cacheVars, CacheInv
<1>2. CASE BeginPass
  <2>1. \A a : Fresh(a)' = Fresh(a) /\ Closure(a)' = Closure(a) /\ (Current(a)' <=> Current(a))
    BY <1>2 DEF BeginPass, Fresh, Closure, Current
  <2>2. \A a \in Analyses : EntryOK(a)'
    BY <1>2, <2>1 DEF BeginPass, CacheInv, EntryOK, IsFresh
  <2>3. FramesOK' /\ AnswerIsFresh'
    BY <1>2, FramesKeep DEF BeginPass
  <2>4. before' <= revision'
    BY <1>0, <1>2 DEF BeginPass
  <2> QED BY <1>0, <2>2, <2>3, <2>4 DEF CacheInv
<1>3. ASSUME NEW a \in Analyses, Ask(a)
      PROVE  CacheInv'
  <2>1. Get(a) /\ Asks(a) /\ UNCHANGED <<revision, facts, entries, touched, before, pc>>
    BY <1>3 DEF Ask, InPass, Get, Hit, Cycle, Miss, pipeVars, Asks
  <2> QED BY <1>0, <2>1, GetFresh, EntriesKeep DEF CacheInv
<1>4. ASSUME NEW S, Drop(S)
      PROVE  CacheInv'
  <2>1. \A a : Fresh(a)' = Fresh(a) /\ Closure(a)' = Closure(a)
    BY <1>4 DEF Drop, Fresh, Closure
  <2>2. ASSUME NEW a \in Analyses
        PROVE  EntryOK(a)'
    <3>1. entries'[a] = NoEntry \/ entries'[a] = entries[a]
      BY <1>4 DEF Drop, Invalidate
    <3> QED BY <1>4, <2>1, <3>1 DEF Drop, CacheInv, EntryOK, Current, IsFresh, pipeVars
  <2> QED BY <1>0, <1>4, <2>2, FramesKeep DEF Drop, pipeVars, CacheInv
<1>5. CASE pc = "pass" /\ CacheStep /\ UNCHANGED <<pipeVars, valid, touched, requests>>
  <2>1. UNCHANGED <<touched, before, pc, revision>>
    BY <1>5, <1>0, CacheStepTyped DEF pipeVars
  <2> QED BY <1>0, <1>5, <2>1, CacheStepFresh DEF CacheInv
<1>6. ASSUME NEW changed \in SUBSET Analyses, NEW ok \in Verdicts, Edit(changed, ok)
      PROVE  CacheInv'
  <2>1. before' <= revision'
    BY <1>0, <1>6 DEF Edit, pipeVars
  <2> QED BY <1>0, <1>6, <2>1, EditedFresh DEF CacheInv
<1>7. CASE PassFails \/ Close \/ EndIteration
  <2>1. /\ UNCHANGED <<revision, facts, cacheVars, touched, before>>
        /\ pc' \in {"returned", "output"} \/ pc' = pc
    BY <1>7 DEF PassFails, Close, EndIteration, Finish
  <2> QED BY <1>0, <2>1, EntriesKeep, FramesKeep DEF cacheVars, CacheInv
<1>8. ASSUME NEW preserved \in SUBSET Honest, EndPass(preserved)
      PROVE  CacheInv'
  <2>1. /\ pc = "pass" /\ UNCHANGED <<revision, facts, touched, before, active, answer>>
        /\ IF revision # before THEN InvalidateAfterChange(preserved) ELSE UNCHANGED entries
    BY <1>8 DEF EndPass, InPass
  <2> QED BY <1>0, <2>1, CarriedFresh, FramesKeep DEF CacheInv
<1> QED BY <1>1, <1>2, <1>3, <1>4, <1>5, <1>6, <1>7, <1>8 DEF Step

LEMMA CacheInvNext == CacheInv /\ [Step]_vars => CacheInv'
<1>1. ASSUME CacheInv, UNCHANGED vars
      PROVE  CacheInv'
  <2>1. UNCHANGED <<revision, facts, entries, active, answer, touched, before, pc>>
    BY <1>1 DEF vars, cacheVars, pipeVars
  <2>2. TInv'
    BY <1>1, TInvNext DEF CacheInv
  <2> QED BY <1>1, <2>1, <2>2, EntriesKeep, FramesKeep DEF CacheInv
<1> QED BY <1>1, CacheInvStep

LEMMA CacheInvInit == Init => CacheInv
BY TInvInit DEF Init, CacheInv, EntryOK, FramesOK, AnswerIsFresh

\* Whatever passes ask, edit and discard, and however computations nest, fail or close a
\* cycle, a result handed to a pass is made of what the module says at that moment.
THEOREM AnswersAreFresh == Spec => []AnswerIsFresh
<1>1. CacheInv => AnswerIsFresh
  BY DEF CacheInv
<1> QED BY CacheInvInit, CacheInvNext, <1>1, PTL DEF Spec

(***************************************************************************)
(* Verification.                                                           *)
(***************************************************************************)

\* While the run goes on, a module that fails verification has changed since it was
\* last verified, in a way the end of this pass or of the run will see.
Unverified ==
    pc \in {"between", "pass", "output"} /\ ~valid =>
       /\ policy = "InputAndOutput" => report.changed \/ (pc = "pass" /\ revision # before)
       /\ policy = "AfterEachPass" => pc = "pass" /\ revision # before

VerifyInv == CacheInv /\ Unverified /\ OkMeansVerified

LEMMA VerifyStep ==
    ASSUME VerifyInv, Step
    PROVE  VerifyInv'
<1>0. /\ CacheInv /\ CacheInv' /\ Unverified /\ OkMeansVerified
      /\ policy \in {"None", "InputAndOutput", "AfterEachPass"} /\ report \in Report
      /\ revision \in Nat /\ before \in Nat /\ before <= revision
  BY CacheInvStep DEF VerifyInv, CacheInv, TInv, TypeOK, CacheType, PipeType
<1>f. ASSUME NEW rep \in Report, Finish(rep, "Failed")
      PROVE  Unverified' /\ OkMeansVerified'
  BY <1>f DEF Finish, Unverified, OkMeansVerified, Report
<1>1. CASE Open
  <2>1. CASE pc' = "between" /\ UNCHANGED <<report, valid, policy>> /\ (policy = "None" \/ valid)
    BY <1>0, <2>1 DEF Unverified, OkMeansVerified, VerifyInv
  <2> QED BY <1>0, <1>1, <1>f, <2>1 DEF Open, VerifyInv
<1>2. CASE BeginPass
  <2>1. pc = "between" /\ pc' = "pass" /\ UNCHANGED <<report, valid, policy>>
    BY <1>2 DEF BeginPass
  <2> QED BY <1>0, <2>1 DEF Unverified, OkMeansVerified, VerifyInv
<1>3. CASE /\ UNCHANGED <<revision, before, pc, valid, policy, report>>
  BY <1>0, <1>3 DEF Unverified, OkMeansVerified, VerifyInv
<1>4. ASSUME NEW a \in Analyses, Ask(a)
      PROVE  VerifyInv'
  BY <1>3, <1>4 DEF Ask, Get, Hit, Cycle, Miss, pipeVars
<1>5. ASSUME NEW S, Drop(S)
      PROVE  VerifyInv'
  BY <1>3, <1>5 DEF Drop, pipeVars
<1>6. CASE pc = "pass" /\ CacheStep /\ UNCHANGED <<pipeVars, valid, touched, requests>>
  <2>1. revision' = revision
    BY <1>6, CacheStepTyped DEF VerifyInv, CacheInv
  <2> QED BY <1>3, <1>6, <2>1 DEF pipeVars
<1>7. ASSUME NEW changed \in SUBSET Analyses, NEW ok \in Verdicts, Edit(changed, ok)
      PROVE  VerifyInv'
  <2>1. revision' = revision + 1 /\ before' = before /\ pc' = "pass"
    BY <1>7 DEF Edit, InPass, pipeVars
  <2> QED BY <1>0, <2>1 DEF Unverified, OkMeansVerified, VerifyInv
<1>8. CASE PassFails
  BY <1>0, <1>8, <1>f DEF PassFails, VerifyInv
<1>9. ASSUME NEW preserved \in SUBSET Honest, EndPass(preserved)
      PROVE  VerifyInv'
  <2> DEFINE reported == [report EXCEPT !.changed = @ \/ (revision # before), !.last = revision,
                                        !.runs = Append(@, <<before, revision>>)]
  <2>1. \/ Finish(reported, "Failed")
        \/ /\ report' = reported /\ pc' = "between"
           /\ revision = before \/ policy # "AfterEachPass" \/ valid
    BY <1>9 DEF EndPass
  <2>2. UNCHANGED <<valid, policy, revision, before>> /\ pc = "pass"
    BY <1>9 DEF EndPass, InPass
  <2>3. CASE Finish(reported, "Failed")
    <3>1. pc' = "returned" /\ report'.termination = "Failed"
      BY <1>0, <2>3 DEF Finish, Report
    <3> QED BY <1>0, <3>1 DEF Unverified, OkMeansVerified, VerifyInv
  <2>4. CASE /\ report' = reported /\ pc' = "between"
             /\ revision = before \/ policy # "AfterEachPass" \/ valid
    <3>1. report.changed \/ revision # before => report'.changed
      BY <1>0, <2>4 DEF Report
    <3> HIDE DEF reported
    <3> QED BY <1>0, <2>2, <2>4, <3>1 DEF Unverified, OkMeansVerified, VerifyInv
  <2> QED BY <2>1, <2>3, <2>4
<1>10. CASE EndIteration
  <2>1. /\ pc = "between" /\ pc' \in {"between", "output"} /\ UNCHANGED <<valid, policy>>
        /\ report'.changed = report.changed
    BY <1>0, <1>10 DEF EndIteration, Report
  <2> QED BY <1>0, <2>1 DEF Unverified, OkMeansVerified, VerifyInv
<1>11. CASE Close
  <2>1. CASE Finish(report, "Failed")
    BY <1>0, <1>f, <2>1 DEF VerifyInv
  <2>2. CASE pc = "output" /\ pc' = "returned" /\ UNCHANGED <<valid, policy>>
             /\ ~(report.changed /\ policy = "InputAndOutput" /\ ~valid)
    BY <1>0, <2>2 DEF Unverified, OkMeansVerified, VerifyInv
  <2> QED BY <1>11, <2>1, <2>2 DEF Close, Finish
<1> QED BY <1>1, <1>2, <1>4, <1>5, <1>6, <1>7, <1>8, <1>9, <1>10, <1>11 DEF Step

LEMMA VerifyNext == VerifyInv /\ [Step]_vars => VerifyInv'
<1>1. ASSUME VerifyInv, UNCHANGED vars
      PROVE  VerifyInv'
  <2>1. UNCHANGED <<pc, valid, policy, report, revision, before>>
    BY <1>1 DEF vars, pipeVars
  <2> QED BY <1>1, <2>1, CacheInvNext DEF VerifyInv, Unverified, OkMeansVerified
<1> QED BY <1>1, VerifyStep

\* A run that verifies and returns Ok returns a valid module, although no policy
\* verifies it at the moment the run returns.
THEOREM OkIsVerified == Spec => []OkMeansVerified
<1>1. Init => VerifyInv
  BY CacheInvInit DEF Init, VerifyInv, Unverified, OkMeansVerified
<1>2. VerifyInv => OkMeansVerified
  BY DEF VerifyInv
<1> QED BY <1>1, <1>2, VerifyNext, PTL DEF Spec

(***************************************************************************)
(* The report.                                                             *)
(***************************************************************************)

Running == pc \in {"input", "between", "pass"}

\* The revision after the passes that were reported.
Reached == IF report.runs = <<>> THEN 0 ELSE report.runs[Len(report.runs)][2]

\* The runs chain, the last one ends at the revision the next pass starts from, and
\* the report says "changed" when that is not the first revision.
ChainOK ==
    /\ report.first = 0
    /\ report.last = Reached
    /\ report.changed <=> report.last # 0
    /\ \A i \in 1..(Len(report.runs) - 1) : report.runs[i][2] = report.runs[i + 1][1]
    /\ pc \in {"input", "between", "output"} => revision = report.last
    /\ pc = "pass" => before = report.last

\* The reported runs of the earlier iterations.
Base == iteration * Passes

\* The revision the iteration in progress started from.
Origin == IF Len(report.runs) > Base THEN report.runs[Base + 1][1] ELSE report.last

\* The runs of the iteration in progress, and whether one of them changed the module.
IterationOK ==
    /\ Len(report.runs) = Base + index
    /\ index <= Passes
    /\ pc = "pass" => index < Passes
    /\ Origin <= report.last
    /\ Origin = report.last <=>
          \A i \in (Base + 1)..Len(report.runs) : report.runs[i][1] = report.runs[i][2]
    /\ report.termination = "none"
    /\ report.iterations = iteration

\* What EndIteration left for Close to report.
OutcomeOK ==
    LET last == SubSeq(report.runs, (report.iterations - 1) * Passes + 1, Len(report.runs))
        start == IF last = <<>> THEN revision ELSE last[1][1] IN
    /\ report.termination \in {"Completed", "FixedPoint", "IterationLimit"}
    /\ report.termination = "FixedPoint" => start = revision
    /\ report.termination = "IterationLimit" => start # revision /\ report.iterations = limit

HooksOK ==
    /\ hooks.finished = 0 /\ hooks.failed = 0
    /\ hooks.begun = hooks.ended + IF pc = "pass" THEN 1 ELSE 0

ReportInv ==
    /\ CacheInv
    /\ Running => IterationOK
    /\ pc = "output" => OutcomeOK
    /\ pc # "returned" => ChainOK /\ HooksOK
    /\ TerminationIsHonest

\* The iterations that are over are as many runs of every pass.
LEMMA BaseType ==
    ASSUME TInv
    PROVE  Base \in Nat /\ (iteration + 1) * Passes = Base + Passes
<1>1. iteration \in Nat /\ Passes \in Nat
  BY PipelineAssumption DEF TInv, TypeOK, PipeType
<1> QED BY <1>1 DEF Base

\* Runs are pairs of revisions.
LEMMA RunsType ==
    ASSUME TInv
    PROVE  /\ report.runs \in Seq(Nat \X Nat) /\ Len(report.runs) \in Nat
           /\ \A i \in 1..Len(report.runs) :
                 report.runs[i] \in Nat \X Nat /\ report.runs[i][1] \in Nat /\ report.runs[i][2] \in Nat
           /\ report \in Report
<1>1. report \in Report /\ report.runs \in Seq(Nat \X Nat)
  BY DEF TInv, TypeOK, PipeType, Report
<1> QED BY <1>1

\* A step that reports no run, ends no iteration and tells no observer.
LEMMA ReportKeeps ==
    ASSUME ReportInv, CacheInv',
           UNCHANGED <<report, hooks, iteration, index, pc, limit>>,
           UNCHANGED <<revision, before>> \/ (pc = "pass" /\ before' = before)
    PROVE  ReportInv'
<1>1. pc = "pass" => TerminationIsHonest'
  BY DEF TerminationIsHonest, ReportIsHonest
<1>2. UNCHANGED revision => TerminationIsHonest'
  BY DEF ReportInv, TerminationIsHonest, ReportIsHonest
<1>3. Running' => IterationOK'
  BY DEF ReportInv, Running, IterationOK, Origin, Base
<1>4. pc' = "output" => OutcomeOK'
  BY DEF ReportInv, OutcomeOK
<1>5. pc' # "returned" => ChainOK' /\ HooksOK'
  BY DEF ReportInv, ChainOK, HooksOK, Reached
<1> QED BY <1>1, <1>2, <1>3, <1>4, <1>5 DEF ReportInv

\* A run that fails is reported as failed, and told to the observers once.
LEMMA FailureHonest ==
    ASSUME ReportInv, pc # "returned", CacheInv', NEW rep \in Report, Finish(rep, "Failed"),
           hooks' = [hooks EXCEPT !.failed = @ + 1]
    PROVE  ReportInv'
<1>1. report'.termination = "Failed" /\ pc' = "returned"
  BY DEF Finish, Report
<1>2. /\ hooks \in [begun: Nat, ended: Nat, finished: Nat, failed: Nat]
      /\ hooks.finished = 0 /\ hooks.failed = 0 /\ hooks.begun - hooks.ended \in {0, 1}
  <2>1. hooks \in [begun: Nat, ended: Nat, finished: Nat, failed: Nat]
    BY DEF ReportInv, CacheInv, TInv, TypeOK, PipeType
  <2>2. HooksOK
    BY DEF ReportInv
  <2>3. hooks.begun \in Nat /\ hooks.ended \in Nat
    BY <2>1
  <2> QED BY <2>1, <2>2, <2>3 DEF HooksOK
<1>3. /\ hooks'.finished = 0 /\ hooks'.failed = 1
      /\ hooks'.begun = hooks.begun /\ hooks'.ended = hooks.ended
  BY <1>2
<1>4. TerminationIsHonest'
  BY <1>1, <1>2, <1>3 DEF TerminationIsHonest, ReportIsHonest
<1> QED BY <1>1, <1>4 DEF ReportInv, Running

\* The run of a pass that ends continues the chain and the iteration.
LEMMA RunReported ==
    ASSUME ReportInv, CacheInv', pc = "pass", pc' = "between",
           report' = [report EXCEPT !.changed = @ \/ (revision # before), !.last = revision,
                                    !.runs = Append(@, <<before, revision>>)],
           index' = index + 1, UNCHANGED <<revision, before, iteration, limit>>,
           hooks' = [hooks EXCEPT !.ended = @ + 1]
    PROVE  ReportInv'
<1> DEFINE n == Len(report.runs)
<1>0. /\ TInv /\ IterationOK /\ ChainOK /\ HooksOK /\ before <= revision /\ revision \in Nat /\ before \in Nat
      /\ hooks \in [begun: Nat, ended: Nat, finished: Nat, failed: Nat]
      /\ index \in Nat /\ Passes \in Nat
  BY PipelineAssumption DEF ReportInv, Running, CacheInv, TInv, TypeOK, CacheType, PipeType
<1>1. /\ report.runs \in Seq(Nat \X Nat) /\ n \in Nat /\ report \in Report
      /\ \A i \in 1..n : report.runs[i] \in Nat \X Nat /\ report.runs[i][1] \in Nat /\ report.runs[i][2] \in Nat
  BY <1>0, RunsType
<1>2. <<before, revision>> \in Nat \X Nat /\ <<before, revision>>[1] = before /\ <<before, revision>>[2] = revision
  BY <1>0
<1>3. /\ report'.runs = Append(report.runs, <<before, revision>>)
      /\ report'.last = revision /\ report'.first = report.first
      /\ report'.termination = report.termination /\ report'.iterations = report.iterations
      /\ report'.changed <=> (report.changed \/ revision # before)
  BY <1>1 DEF Report
<1>4. /\ Len(report'.runs) = n + 1 /\ report'.runs # <<>>
      /\ \A i \in 1..n : report'.runs[i] = report.runs[i]
      /\ report'.runs[n + 1] = <<before, revision>>
  <2> DEFINE r == <<before, revision>>
  <2>1. r \in Nat \X Nat /\ report'.runs = Append(report.runs, r)
    BY <1>2, <1>3
  <2> HIDE DEF r
  <2>2. PICK s, w : s = report.runs /\ w = report'.runs
    OBVIOUS
  <2>3. s \in Seq(Nat \X Nat) /\ w = Append(s, r) /\ n = Len(s) /\ n \in Nat
    BY <1>1, <2>1, <2>2
  <2> HIDE DEF n
  <2>4. /\ Len(w) = n + 1 /\ w[n + 1] = r
        /\ \A i \in 1..n : w[i] = s[i]
    BY <2>1, <2>3, AppendProperties
  <2>5. w # <<>>
    BY <2>3, <2>4
  <2> QED BY <2>2, <2>4, <2>5 DEF r
<1> HIDE DEF n
<1>5. before = report.last /\ report.last \in Nat
  BY <1>0 DEF ChainOK
<1>6. ChainOK'
  <2>1. Reached' = revision
    BY <1>2, <1>4 DEF Reached
  <2>2. report'.changed <=> revision # 0
    BY <1>0, <1>3, <1>5 DEF ChainOK
  <2>3. ASSUME NEW i \in 1..n
        PROVE  report'.runs[i][2] = report'.runs[i + 1][1]
    <3>1. CASE i = n
      <4>1. report.runs # <<>> /\ report.runs[n][2] = report.last
        BY <1>0, <1>1, <3>1 DEF ChainOK, Reached, n
      <4> QED BY <1>2, <1>4, <1>5, <3>1, <4>1
    <3>2. CASE i # n
      <4>1. i \in 1..(n - 1) /\ i + 1 \in 1..n
        BY <1>1, <3>2
      <4> QED BY <1>0, <1>4, <4>1 DEF ChainOK, n
    <3> QED BY <3>1, <3>2
  <2>4. \A i \in 1..(Len(report'.runs) - 1) : report'.runs[i][2] = report'.runs[i + 1][1]
    <3>1. Len(report'.runs) - 1 = n
      BY <1>1, <1>4
    <3> QED BY <2>3, <3>1
  <2>5. report'.first = 0
    BY <1>0, <1>3 DEF ChainOK
  <2> QED BY <1>3, <2>1, <2>2, <2>4, <2>5 DEF ChainOK
<1>7. IterationOK'
  <2>1. Base' = Base /\ Base \in Nat
    BY <1>0, BaseType DEF Base
  <2>2. n = Base + index /\ index < Passes /\ n >= Base
    BY <1>0, <2>1 DEF IterationOK, n
  <2>3. Origin' = Origin /\ Origin <= report.last /\ Origin \in Nat
    <3>1. CASE n = Base
      <4>1. Origin = report.last
        BY <1>1, <3>1 DEF Origin, n
      <4>2. Origin' = before
        BY <1>1, <1>2, <1>4, <2>1, <3>1 DEF Origin
      <4> QED BY <1>5, <4>1, <4>2
    <3>2. CASE n > Base
      <4>1. Base + 1 \in 1..n /\ n + 1 > Base
        BY <1>1, <2>1, <3>2
      <4>2. Origin = report.runs[Base + 1][1] /\ Origin' = report.runs[Base + 1][1]
        BY <1>1, <1>4, <2>1, <3>2, <4>1 DEF Origin, n
      <4> QED BY <1>0, <1>1, <4>1, <4>2 DEF IterationOK
    <3> QED BY <1>1, <2>1, <2>2, <3>1, <3>2
  <2>4. Origin = report.last <=> \A i \in (Base + 1)..n : report.runs[i][1] = report.runs[i][2]
    BY <1>0 DEF IterationOK, n
  <2>5. (\A i \in (Base + 1)..(n + 1) : report'.runs[i][1] = report'.runs[i][2]) <=>
           /\ \A i \in (Base + 1)..n : report.runs[i][1] = report.runs[i][2]
           /\ before = revision
    <3>1. /\ \A i \in (Base + 1)..n : i \in 1..n /\ i \in (Base + 1)..(n + 1)
          /\ \A i \in (Base + 1)..(n + 1) : i \in (Base + 1)..n \/ i = n + 1
          /\ n + 1 \in (Base + 1)..(n + 1)
      BY <1>1, <2>1, <2>2
    <3> QED BY <1>2, <1>4, <3>1
  <2>6. Origin' = report'.last <=>
           \A i \in (Base' + 1)..Len(report'.runs) : report'.runs[i][1] = report'.runs[i][2]
    <3>1. Origin' = report'.last <=> Origin = report.last /\ before = revision
      <4> DEFINE o == Origin
                 p == Origin'
                 l == report'.last
      <4>1. /\ p = o /\ o \in Nat /\ o <= before /\ l = revision /\ report.last = before
            /\ before \in Nat /\ revision \in Nat /\ before <= revision
        BY <1>0, <1>3, <1>5, <2>3
      <4> HIDE DEF o, p, l
      <4>2. p = l <=> o = before /\ before = revision
        BY <4>1
      <4> QED BY <4>1, <4>2 DEF o, p, l
    <3>2. (Base' + 1)..Len(report'.runs) = (Base + 1)..(n + 1)
      BY <1>4, <2>1
    <3> QED BY <2>4, <2>5, <3>1, <3>2
  <2>7. Len(report'.runs) = Base' + index' /\ index' <= Passes /\ Origin' <= report'.last
    <3>1. Len(report'.runs) = Base' + index'
      BY <1>0, <1>4, <2>1, <2>2
    <3>2. index' <= Passes
      BY <1>0, <2>2
    <3>3. Origin' <= report'.last
      BY <1>0, <1>3, <1>5, <2>3
    <3> QED BY <3>1, <3>2, <3>3
  <2>8. report'.termination = "none" /\ report'.iterations = iteration'
    BY <1>0, <1>3 DEF IterationOK
  <2> QED BY <2>6, <2>7, <2>8 DEF IterationOK
<1>8. HooksOK'
  BY <1>0 DEF HooksOK
<1>9. TerminationIsHonest' /\ pc' # "output"
  BY DEF TerminationIsHonest, ReportIsHonest
<1> QED BY <1>6, <1>7, <1>8, <1>9 DEF ReportInv

\* An iteration ends as settled exactly when it changed nothing.
LEMMA IterationEnds ==
    ASSUME ReportInv, CacheInv', EndIteration
    PROVE  ReportInv'
<1> DEFINE n == Len(report.runs)
           last == SubSeq(report.runs, Base + 1, n)
           settled == limit # Once /\ ~Changed(Iteration)
           over == limit = Once \/ settled \/ iteration + 1 = Rounds
           termination == IF limit = Once THEN "Completed" ELSE IF settled THEN "FixedPoint"
                          ELSE IF over THEN "IterationLimit" ELSE report.termination
<1>0. /\ TInv /\ IterationOK /\ ChainOK /\ HooksOK /\ revision \in Nat /\ iteration \in Nat
      /\ Passes \in Nat /\ pc = "between" /\ index = Passes
  BY PipelineAssumption
     DEF EndIteration, ReportInv, Running, CacheInv, TInv, TypeOK, CacheType, PipeType
<1>1. /\ report.runs \in Seq(Nat \X Nat) /\ n \in Nat /\ report \in Report
      /\ \A i \in 1..n : report.runs[i] \in Nat \X Nat /\ report.runs[i][1] \in Nat /\ report.runs[i][2] \in Nat
  BY <1>0, RunsType
<1>2. /\ report' = [report EXCEPT !.iterations = @ + 1, !.termination = termination]
      /\ pc' = IF over THEN "output" ELSE "between"
      /\ iteration' = iteration + 1 /\ index' = 0
      /\ UNCHANGED <<revision, limit, hooks>>
  BY <1>0 DEF EndIteration
<1>3. Base \in Nat /\ (iteration + 1) * Passes = Base + Passes /\ n = Base + Passes
  BY <1>0, BaseType DEF IterationOK
<1>4. Base' = n
  BY <1>2, <1>3 DEF Base
<1>5. Iteration = last
  BY <1>3 DEF Iteration, Base
<1>6. /\ last \in Seq(Nat \X Nat) /\ Len(last) = n - Base
      /\ \A i \in 1..(n - Base) : last[i] = report.runs[Base + i]
  <2>1. Base + 1 \in Int /\ n \in Int /\ \A i \in (Base + 1)..n : report.runs[i] \in Nat \X Nat
    BY <1>1, <1>3
  <2>2. /\ last \in Seq(Nat \X Nat)
        /\ Len(last) = IF Base + 1 <= n THEN n - (Base + 1) + 1 ELSE 0
        /\ \A i \in 1..(n - (Base + 1) + 1) : last[i] = report.runs[Base + 1 + i - 1]
    <3> HIDE DEF n
    <3> QED BY <2>1, SubSeqProperties
  <2>3. n - (Base + 1) + 1 = n - Base /\ n - Base \in Nat
    BY <1>0, <1>1, <1>3
  <2>4. Len(last) = n - Base
    BY <1>0, <1>1, <1>3, <2>2
  <2>5. \A i \in 1..(n - Base) : Base + 1 + i - 1 = Base + i
    BY <1>3, <2>3
  <2> HIDE DEF last, n
  <2> QED BY <2>2, <2>3, <2>4, <2>5
<1>7. (\A i \in 1..Len(last) : last[i][1] = last[i][2]) <=>
         \A i \in (Base + 1)..n : report.runs[i][1] = report.runs[i][2]
  <2>1. ASSUME NEW i \in (Base + 1)..n
        PROVE  i - Base \in 1..Len(last) /\ last[i - Base] = report.runs[i]
    <3>1. i - Base \in 1..(n - Base) /\ Base + (i - Base) = i
      BY <1>1, <1>3
    <3> QED BY <1>6, <3>1
  <2>2. ASSUME NEW i \in 1..Len(last)
        PROVE  Base + i \in (Base + 1)..n /\ last[i] = report.runs[Base + i]
    <3>1. i \in 1..(n - Base)
      BY <1>6, <2>2
    <3> HIDE DEF last, n
    <3>2. Base + i \in (Base + 1)..n
      BY <1>1, <1>3, <3>1
    <3> QED BY <1>6, <3>1, <3>2
  <2> HIDE DEF last, n
  <2>3. ASSUME \A i \in 1..Len(last) : last[i][1] = last[i][2], NEW i \in (Base + 1)..n
        PROVE  report.runs[i][1] = report.runs[i][2]
    BY <2>1, <2>3
  <2>4. ASSUME \A i \in (Base + 1)..n : report.runs[i][1] = report.runs[i][2],
               NEW i \in 1..Len(last)
        PROVE  last[i][1] = last[i][2]
    BY <2>2, <2>4
  <2> QED BY <2>3, <2>4
<1>8. ~Changed(Iteration) <=> Origin = report.last
  BY <1>0, <1>5, <1>7 DEF Changed, IterationOK
<1> DEFINE start == IF last = <<>> THEN revision ELSE last[1][1]
<1>9. start = Origin /\ report.last = revision
  <2>1. report.last = revision
    BY <1>0 DEF ChainOK
  <2>2. CASE n = Base
    BY <1>1, <1>3, <1>6, <2>1, <2>2 DEF Origin
  <2>3. CASE n # Base
    <3>1. n > Base /\ 1 \in 1..(n - Base) /\ Len(last) # 0
      BY <1>0, <1>1, <1>3, <1>6, <2>3
    <3>2. last # <<>> /\ last[1] = report.runs[Base + 1]
      <4> HIDE DEF last
      <4> QED BY <1>6, <3>1
    <3> QED BY <2>1, <3>1, <3>2 DEF Origin
  <2> QED BY <2>2, <2>3
<1>10. /\ report'.runs = report.runs /\ report'.last = report.last /\ report'.first = report.first
       /\ report'.changed = report.changed /\ report'.iterations = iteration + 1
       /\ report'.termination = termination
  <2>1. report.iterations = iteration
    BY <1>0 DEF IterationOK
  <2> HIDE DEF termination
  <2> QED BY <1>1, <1>2, <2>1 DEF Report
<1>11. ChainOK'
  BY <1>0, <1>2, <1>10 DEF ChainOK, Reached
<1>12. HooksOK'
  BY <1>0, <1>2 DEF HooksOK
<1>13. CASE over
  <2>1. OutcomeOK'
    <3>1. (report'.iterations - 1) * Passes + 1 = Base + 1
      BY <1>0, <1>10 DEF Base
    <3>2. SubSeq(report'.runs, (report'.iterations - 1) * Passes + 1, Len(report'.runs)) = last
      BY <1>10, <3>1
    <3>3. termination \in {"Completed", "FixedPoint", "IterationLimit"}
      BY <1>13
    <3>4. termination = "FixedPoint" => start = revision
      BY <1>8, <1>9, <1>13
    <3>5. termination = "IterationLimit" => start # revision /\ iteration + 1 = limit
      BY <1>8, <1>9, <1>13, <1>0 DEF Rounds, IterationOK
    <3> HIDE DEF termination, over, settled, last
    <3> QED BY <1>2, <1>10, <3>2, <3>3, <3>4, <3>5 DEF OutcomeOK
  <2>2. pc' = "output"
    BY <1>2, <1>13
  <2> QED BY <1>11, <1>12, <2>1, <2>2 DEF ReportInv, Running, TerminationIsHonest, ReportIsHonest
<1>14. CASE ~over
  <2>1. pc' = "between" /\ report'.termination = "none"
    BY <1>0, <1>2, <1>10, <1>14 DEF IterationOK
  <2>2. Origin' = report'.last
    BY <1>1, <1>4, <1>10 DEF Origin
  <2>3. (Base' + 1)..Len(report'.runs) = {}
    BY <1>1, <1>4, <1>10
  <2>4. report'.last \in Nat
    BY <1>0, <1>9, <1>10
  <2>5. Len(report'.runs) = Base' + index'
    BY <1>1, <1>2, <1>4, <1>10
  <2>6. IterationOK'
    BY <1>0, <1>2, <1>10, <2>1, <2>2, <2>3, <2>4, <2>5 DEF IterationOK
  <2> QED BY <1>11, <1>12, <2>1, <2>6 DEF ReportInv, TerminationIsHonest, ReportIsHonest
<1> QED BY <1>13, <1>14

\* A run that succeeds reports the end it had.
LEMMA CloseHonest ==
    ASSUME ReportInv, CacheInv', pc = "output", UNCHANGED <<revision, limit>>,
           Finish(report, report.termination), hooks' = [hooks EXCEPT !.finished = @ + 1]
    PROVE  ReportInv'
<1>0. /\ OutcomeOK /\ ChainOK /\ HooksOK /\ report \in Report
      /\ hooks \in [begun: Nat, ended: Nat, finished: Nat, failed: Nat]
  BY DEF ReportInv, CacheInv, TInv, TypeOK, PipeType
<1>1. /\ pc' = "returned"
      /\ report'.runs = report.runs /\ report'.iterations = report.iterations
      /\ report'.termination = report.termination /\ report'.first = report.first
      /\ report'.changed = report.changed /\ report'.last = report.last
  BY <1>0 DEF Finish, Report, ChainOK
<1>2. ReportIsHonest'
  <2> DEFINE last == SubSeq(report.runs, (report.iterations - 1) * Passes + 1, Len(report.runs))
             start == IF last = <<>> THEN revision ELSE last[1][1]
  <2>1. /\ report.termination = "FixedPoint" => start = revision
        /\ report.termination = "IterationLimit" => start # revision /\ report.iterations = limit
    BY <1>0 DEF OutcomeOK
  <2>2. report.changed <=> report.first # report.last
    BY <1>0 DEF ChainOK
  <2>3. \A i \in 1..(Len(report.runs) - 1) : report.runs[i][2] = report.runs[i + 1][1]
    BY <1>0 DEF ChainOK
  <2> QED BY <1>1, <2>1, <2>2, <2>3 DEF ReportIsHonest
<1>3. report'.termination # "Failed"
  BY <1>0, <1>1 DEF OutcomeOK
<1>4. /\ hooks'.finished = 1 /\ hooks'.failed = 0 /\ hooks'.begun = hooks.begun
      /\ hooks'.ended = hooks.ended /\ hooks.begun = hooks.ended
  BY <1>0 DEF HooksOK
<1>5. hooks'.begun - hooks'.ended = 0
  BY <1>0, <1>4
<1>6. TerminationIsHonest'
  BY <1>2, <1>3, <1>4, <1>5 DEF TerminationIsHonest
<1> QED BY <1>1, <1>6 DEF ReportInv, Running

LEMMA ReportStep ==
    ASSUME ReportInv, Step
    PROVE  ReportInv'
<1>0. /\ CacheInv /\ CacheInv' /\ TInv /\ report \in Report
      /\ (pc # "returned") => (ChainOK /\ HooksOK)
      /\ hooks \in [begun: Nat, ended: Nat, finished: Nat, failed: Nat]
      /\ before \in Nat /\ revision \in Nat /\ index \in Nat /\ Passes \in Nat
  BY CacheInvStep, PipelineAssumption DEF ReportInv, CacheInv, TInv, TypeOK, CacheType, PipeType
<1>1. CASE Open
  <2>1. CASE Finish(report, "Failed") /\ hooks' = [hooks EXCEPT !.failed = @ + 1] /\ pc = "input"
    BY <1>0, <2>1, FailureHonest
  <2>2. CASE pc = "input" /\ pc' = "between" /\ UNCHANGED <<report, hooks, revision, before, iteration, index>>
    <3>1. IterationOK'
      BY <2>2 DEF ReportInv, Running, IterationOK, Origin, Base
    <3>2. ChainOK' /\ HooksOK'
      BY <2>2 DEF ReportInv, ChainOK, Reached, HooksOK
    <3> QED BY <1>0, <2>2, <3>1, <3>2 DEF ReportInv, TerminationIsHonest, ReportIsHonest
  <2> QED BY <1>1, <2>1, <2>2 DEF Open
<1>2. CASE BeginPass
  <2>1. /\ pc = "between" /\ pc' = "pass" /\ before' = revision /\ index < Passes
        /\ UNCHANGED <<report, revision, iteration, index>>
        /\ hooks' = [hooks EXCEPT !.begun = @ + 1]
    BY <1>2 DEF BeginPass
  <2>2. IterationOK'
    BY <2>1 DEF ReportInv, Running, IterationOK, Origin, Base
  <2>3. ChainOK'
    BY <2>1 DEF ReportInv, ChainOK, Reached
  <2>4. HooksOK'
    BY <1>0, <2>1 DEF HooksOK
  <2> QED BY <1>0, <2>1, <2>2, <2>3, <2>4 DEF ReportInv, TerminationIsHonest, ReportIsHonest
<1>3. CASE UNCHANGED <<revision, pipeVars>>
  BY <1>0, <1>3, ReportKeeps DEF pipeVars
<1>4. ASSUME NEW a \in Analyses, Ask(a)
      PROVE  ReportInv'
  BY <1>3, <1>4 DEF Ask, Get, Hit, Cycle, Miss
<1>5. ASSUME NEW S, Drop(S)
      PROVE  ReportInv'
  BY <1>3, <1>5 DEF Drop
<1>6. CASE pc = "pass" /\ CacheStep /\ UNCHANGED <<pipeVars, valid, touched, requests>>
  BY <1>0, <1>3, <1>6, CacheStepTyped
<1>7. ASSUME NEW changed \in SUBSET Analyses, NEW ok \in Verdicts, Edit(changed, ok)
      PROVE  ReportInv'
  BY <1>0, <1>7, ReportKeeps DEF Edit, InPass, pipeVars
<1>8. CASE PassFails
  BY <1>0, <1>8, FailureHonest DEF PassFails, InPass
<1>9. ASSUME NEW preserved \in SUBSET Honest, EndPass(preserved)
      PROVE  ReportInv'
  <2> DEFINE reported == [report EXCEPT !.changed = @ \/ (revision # before), !.last = revision,
                                        !.runs = Append(@, <<before, revision>>)]
  <2>1. /\ pc = "pass" /\ UNCHANGED <<revision, before, iteration, limit>>
        /\ \/ Finish(reported, "Failed") /\ hooks' = [hooks EXCEPT !.failed = @ + 1]
           \/ /\ report' = reported /\ pc' = "between" /\ index' = index + 1
              /\ hooks' = [hooks EXCEPT !.ended = @ + 1]
    BY <1>9 DEF EndPass, InPass
  <2>2. reported \in Report
    BY <1>0, ReportedType
  <2>3. CASE Finish(reported, "Failed") /\ hooks' = [hooks EXCEPT !.failed = @ + 1]
    <3> HIDE DEF reported
    <3> QED BY <1>0, <2>1, <2>2, <2>3, FailureHonest
  <2>4. CASE /\ report' = reported /\ pc' = "between" /\ index' = index + 1
             /\ hooks' = [hooks EXCEPT !.ended = @ + 1]
    BY <1>0, <2>1, <2>4, RunReported
  <2> QED BY <2>1, <2>3, <2>4
<1>10. CASE EndIteration
  BY <1>0, <1>10, IterationEnds
<1>11. CASE Close
  BY <1>0, <1>11, FailureHonest, CloseHonest DEF Close
<1> QED BY <1>1, <1>2, <1>4, <1>5, <1>6, <1>7, <1>8, <1>9, <1>10, <1>11 DEF Step

LEMMA ReportNext == ReportInv /\ [Step]_vars => ReportInv'
<1>1. ASSUME ReportInv, UNCHANGED vars
      PROVE  ReportInv'
  <2>1. UNCHANGED <<report, hooks, iteration, index, pc, limit, revision, before>>
    BY <1>1 DEF vars, pipeVars
  <2> QED BY <1>1, <2>1, CacheInvNext, ReportKeeps DEF ReportInv
<1> QED BY <1>1, ReportStep

LEMMA ReportInit == Init => ReportInv
<1> SUFFICES ASSUME Init PROVE ReportInv
  OBVIOUS
<1>1. CacheInv /\ pc = "input" /\ iteration = 0 /\ index = 0 /\ revision = 0
  BY CacheInvInit DEF Init
<1>2. /\ report.first = 0 /\ report.last = 0 /\ report.runs = <<>> /\ report.changed = FALSE
      /\ report.termination = "none" /\ report.iterations = 0
      /\ hooks = [begun |-> 0, ended |-> 0, finished |-> 0, failed |-> 0]
  BY DEF Init
<1>3. Base = 0
  BY <1>1, PipelineAssumption DEF Base
<1>4. Len(report.runs) = 0
  BY <1>2
<1>5. IterationOK
  BY <1>1, <1>2, <1>3, <1>4, PipelineAssumption DEF IterationOK, Origin
<1>6. ChainOK /\ HooksOK
  BY <1>1, <1>2, <1>4 DEF ChainOK, Reached, HooksOK
<1> QED BY <1>1, <1>5, <1>6 DEF ReportInv, TerminationIsHonest, ReportIsHonest

\* For pipelines of any length and any limit: FixedPoint and IterationLimit are reported
\* only of runs that ended so, the reported passes chain from the first revision to the
\* last, and observers hear of exactly one end.
THEOREM ReportsAreHonest == Spec => []TerminationIsHonest
<1>1. ReportInv => TerminationIsHonest
  BY DEF ReportInv
<1> QED BY ReportInit, ReportNext, <1>1, PTL DEF Spec

=============================================================================
