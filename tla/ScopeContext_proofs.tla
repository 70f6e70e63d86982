------------------------- MODULE ScopeContext_proofs -------------------------
(***************************************************************************)
(* What the context column holds, for every hierarchy, every kind of steps *)
(* and whatever its launches add.                                          *)
(***************************************************************************)
EXTENDS ScopeContext, EventLoopTree_proofs

\* Every step with its contexts is a step of the event loop.
LEMMA ContextStep ==
    ASSUME [ContextNext]_allVars
    PROVE  [Next]_vars
<1>1. CASE UNCHANGED allVars
  BY <1>1 DEF allVars
<1>2. ASSUME NEW w \in Worker,
             \/ ContextReconcileCommit(w) \/ ContextClaim(w) \/ ContextSuspend(w)
             \/ ContextUndoChildren(w) \/ ContextFinish(w) \/ ContextFail(w)
             \/ ContextCrash(w) \/ OtherSteps(w)
      PROVE  WorkerStep(w)
  BY <1>2 DEF ContextReconcileCommit, ContextClaim, ContextSuspend, ContextUndoChildren,
              ContextFinish, ContextFail, ContextCrash, OtherSteps,
              WorkerStep, Conclude, Resume
<1>3. ASSUME \/ \E m \in Message : ContextLaunch(m)
             \/ \E s \in Scope : ContextRequestRollback(s)
             \/ OtherEvents
      PROVE  Environment
  BY <1>3 DEF ContextLaunch, ContextRequestRollback, OtherEvents, Environment
<1> QED
  BY <1>1, <1>2, <1>3 DEF ContextNext, Next

\* The context column takes part in nothing the event loop decides: what is
\* proved of the loop holds with contexts, whatever they are (EventLoop.ts writes
\* scope.context beside a row and reads it into the scope of the next continuation).
THEOREM ContextsFollowTheLoop == ContextSpec => Spec
BY ContextStep, PTL DEF ContextSpec, Spec

-----------------------------------------------------------------------------
\* CooperationContext: contexts of rows are contexts of rows.

Blocks == UNION {TrySteps(h) : h \in Coroutine}

IsScopeContext(ctx) == IsScopeRow(ctx.ser) /\ IsScopeRow(ctx.des)

\* What an element of the key may hold.
IsEntry(k, v) ==
    /\ k \in Key
    /\ k \in DeadlineKeys => v \in Nat
    /\ k = FinallyKey => v \subseteq Blocks

LEMMA ScopeRow ==
    ASSUME NEW f
    PROVE  IsScopeRow(f) <=> \A k \in DOMAIN f : IsEntry(k, f[k])
BY DEF IsScopeRow, IsRow, IsEntry, Blocks

LEMMA OverwrittenRow ==
    ASSUME NEW f, NEW g, IsScopeRow(f), IsScopeRow(g)
    PROVE  IsScopeRow(Overwritten(f, g))
<1>1. \A k \in DOMAIN f : IsEntry(k, f[k])
  BY ScopeRow
<1>2. \A k \in DOMAIN g : IsEntry(k, g[k])
  BY ScopeRow
<1>3. PICK h : h = Overwritten(f, g)
  OBVIOUS
<1>4. \A k \in DOMAIN h :
        (k \in DOMAIN g /\ h[k] = g[k]) \/ (k \in DOMAIN f /\ h[k] = f[k])
  BY <1>3 DEF Overwritten
<1>5. \A k \in DOMAIN h : IsEntry(k, h[k])
  BY <1>1, <1>2, <1>4
<1> QED
  BY <1>3, <1>5, ScopeRow

LEMMA EmptyRow == IsScopeRow(NoEntries) /\ DOMAIN NoEntries = {}
BY DEF IsScopeRow, IsRow, NoEntries

LEMMA Halves ==
    ASSUME NEW f, NEW g
    PROVE  Context(f, g).ser = f /\ Context(f, g).des = g
BY DEF Context

LEMMA WrittenScopeRow ==
    ASSUME NEW ctx, IsScopeContext(ctx)
    PROVE  IsScopeRow(Written(ctx))
BY OverwrittenRow DEF IsScopeContext, Written

LEMMA ReadContext ==
    ASSUME NEW row, IsScopeRow(row)
    PROVE  IsScopeContext(Read(row))
BY EmptyRow, Halves DEF Read, IsScopeContext

LEMMA EmptyIsScopeContext == IsScopeContext(EmptyContext)
BY EmptyRow, Halves DEF EmptyContext, IsScopeContext

LEMMA CombinedEntry ==
    ASSUME NEW k, NEW mine, NEW theirs, IsEntry(k, mine), IsEntry(k, theirs)
    PROVE  IsEntry(k, Combined(k, mine, theirs))
BY DEF IsEntry, Combined

LEMMA GetEntry ==
    ASSUME NEW ctx, IsScopeContext(ctx), NEW k, Has(ctx, k)
    PROVE  IsEntry(k, Get(ctx, k))
BY ScopeRow DEF IsScopeContext, Has, Get

LEMMA WithoutRow ==
    ASSUME NEW f, NEW k, IsScopeRow(f)
    PROVE  IsScopeRow(Without(f, k)) /\ DOMAIN Without(f, k) = DOMAIN f \ {k}
<1>1. \A j \in DOMAIN f : IsEntry(j, f[j])
  BY ScopeRow
<1> DEFINE h == Without(f, k)
<1>2. DOMAIN h = DOMAIN f \ {k} /\ \A j \in DOMAIN h : h[j] = f[j]
  BY DEF Without
<1> HIDE DEF h
<1>3. \A j \in DOMAIN h : IsEntry(j, h[j])
  BY <1>1, <1>2
<1>4. IsScopeRow(h)
  BY <1>3, ScopeRow
<1> QED
  BY <1>2, <1>4 DEF h

LEMMA PlusElementContext ==
    ASSUME NEW ctx, IsScopeContext(ctx), NEW k, NEW v, IsEntry(k, v)
    PROVE  IsScopeContext(PlusElement(ctx, k, v))
<1> DEFINE value == IF Has(ctx, k) THEN Combined(k, Get(ctx, k), v) ELSE v
           one == [j \in {k} |-> value]
           rest == Minus(ctx, k)
<1>1. IsEntry(k, value)
  BY GetEntry, CombinedEntry
<1>2. rest.ser = Without(ctx.ser, k) /\ rest.des = Without(ctx.des, k)
  BY Halves DEF Minus
<1>3. IsScopeRow(rest.ser) /\ IsScopeRow(rest.des)
  <2>1. IsScopeRow(Without(ctx.ser, k)) /\ IsScopeRow(Without(ctx.des, k))
    BY WithoutRow DEF IsScopeContext
  <2> QED
    BY <1>2, <2>1
<1>4. IsScopeRow(one)
  <2>1. DOMAIN one = {k} /\ one[k] = value
    OBVIOUS
  <2> HIDE DEF value, one
  <2>2. \A j \in DOMAIN one : IsEntry(j, one[j])
    BY <1>1, <2>1
  <2> QED
    BY <2>2, ScopeRow
<1>5. PlusElement(ctx, k, v) = Context(rest.ser, Overwritten(rest.des, one))
  BY DEF PlusElement
<1> HIDE DEF value, one, rest
<1> QED
  BY <1>3, <1>4, <1>5, OverwrittenRow, Halves DEF IsScopeContext

LEMMA PlusMapContext ==
    ASSUME NEW ctx, NEW other, IsScopeContext(ctx), IsScopeContext(other)
    PROVE  IsScopeContext(PlusMap(ctx, other))
<1> DEFINE merged ==
              [k \in DOMAIN ctx.des \cup DOMAIN other.des |->
                  IF ~Has(ctx, k) THEN Get(other, k)
                  ELSE IF ~Has(other, k) THEN Get(ctx, k)
                  ELSE Combined(k, Get(ctx, k), Get(other, k))]
<1>1. PlusMap(ctx, other) = Context(Overwritten(ctx.ser, other.ser), merged)
  BY DEF PlusMap
<1>2. \A k \in DOMAIN merged : IsEntry(k, merged[k])
  <2> SUFFICES ASSUME NEW k \in DOMAIN merged
               PROVE  IsEntry(k, merged[k])
    OBVIOUS
  <2>1. Has(ctx, k) \/ Has(other, k)
    BY DEF Has
  <2>2. CASE ~Has(ctx, k)
    BY <2>1, <2>2, GetEntry
  <2>3. CASE ~Has(other, k)
    BY <2>1, <2>3, GetEntry
  <2>4. CASE Has(ctx, k) /\ Has(other, k)
    BY <2>4, GetEntry, CombinedEntry
  <2> QED
    BY <2>2, <2>3, <2>4
<1> HIDE DEF merged
<1>3. IsScopeRow(merged)
  BY <1>2, ScopeRow
<1> QED
  BY <1>1, <1>3, OverwrittenRow, Halves DEF IsScopeContext

LEMMA PlusContext ==
    ASSUME NEW ctx, IsScopeContext(ctx), NEW m \in Message, NEW a \in Additions[m]
    PROVE  IsScopeContext(Plus(ctx, a))
<1>1. /\ IsRow(a.entries) /\ FinallyKey \notin DOMAIN a.entries
      /\ ~a.map => \E k \in Key : DOMAIN a.entries = {k}
  BY ScopeContextAssumption
<1>2. IsScopeRow(a.entries)
  BY <1>1 DEF IsScopeRow
<1>3. CASE a.map
  <2>1. IsScopeContext(Built(a.entries))
    BY <1>2, EmptyRow, Halves DEF Built, IsScopeContext
  <2> QED
    BY <1>3, <2>1, PlusMapContext DEF Plus
<1>4. CASE ~a.map
  <2>1. PICK k \in Key : DOMAIN a.entries = {k}
    BY <1>1, <1>4
  <2>2. (CHOOSE j \in Key : DOMAIN a.entries = {j}) = k
    BY <2>1
  <2>3. IsEntry(k, a.entries[k])
    BY <1>2, <2>1, ScopeRow
  <2>4. Plus(ctx, a) = PlusElement(ctx, k, a.entries[k])
    BY <1>4, <2>2 DEF Plus
  <2> QED
    BY <2>3, <2>4, PlusElementContext
<1> QED
  BY <1>3, <1>4

-----------------------------------------------------------------------------
\* Which blocks a worker marks.

\* A continuation that has no failure to handle calls the method of its direction,
\* and the sentinel stands for nothing that is left to call.
RunnersMode ==
    \A w \in Worker : pc[w] = "running" /\ plan[w].mode # "handle" =>
        /\ plan[w].mode = "rollback" <=> plan[w].back
        /\ plan[w].back /\ ~plan[w].last => plan[w].step # Sentinel

LEMMA PlanMode ==
    ASSUME UndoneInv, NEW r \in Run, ~NotFound(r), PlanFor(r).mode # "handle"
    PROVE  /\ PlanFor(r).mode = "rollback" <=> PlanFor(r).back
           /\ PlanFor(r).back /\ ~PlanFor(r).last => PlanFor(r).step # Sentinel
<1>1. TypeOK /\ Ranged
  BY DEF UndoneInv, OutcomeInv, RunnerInv, CompensationInv
<1>2. PICK p : p = PlanFor(r)
  OBVIOUS
<1>3. /\ p.back = RollingBack(r)
      /\ p.mode = IF ChildFailed(r) THEN "handle"
                  ELSE IF RollingBack(r) THEN "rollback" ELSE "invoke"
  BY <1>2 DEF PlanFor
<1>4. p.mode = "rollback" <=> p.back
  BY <1>2, <1>3
<1>5. ASSUME p.back, ~p.last, p.step = Sentinel
      PROVE  FALSE
  <2>1. p.step = RollbackPoint(r).next /\ ~RollbackPoint(r).last
    BY <1>2, <1>3, <1>4, <1>5 DEF PlanFor
  <2>2. PICK l, s : l = Latest(r).step /\ s = Found(r, l)
    OBVIOUS
  <2>3. HasTicks(r) /\ l[1] # "do" /\ ~IsLastSubStep(r, s) /\ p.step = SubStepAfter(r, s)
    BY <1>5, <2>1, <2>2 DEF RollbackPoint, Sentinel
  <2>4. s[1] = "undoChildren" /\ s[2] = 0
    BY <1>5, <2>3 DEF SubStepAfter, Sentinel
  <2>5. l \in Step /\ l[2] \in Originals(r)
    BY <1>1, <1>3, <1>4, <1>5, <2>2, <2>3, TickTypes
       DEF Ranged, InRange, Latest, HasTicks, NotFound
  <2>6. s[2] \in Originals(r)
    BY <1>1, <2>2, <2>5, FoundIsTick
  <2> QED
    BY <1>1, <2>4, <2>6, TickTypes DEF Originals
<1> QED
  BY <1>2, <1>4, <1>5

LEMMA RunnersModeStep ==
    ASSUME UndoneInv, RunnersMode, [Next]_vars
    PROVE  RunnersMode'
<1>1. CompensationInv /\ TypeOK /\ Locking
  BY DEF UndoneInv, OutcomeInv, RunnerInv, CompensationInv
<1> SUFFICES ASSUME NEW w \in Worker, pc'[w] = "running", plan'[w].mode # "handle"
             PROVE  /\ plan'[w].mode = "rollback" <=> plan'[w].back
                    /\ plan'[w].back /\ ~plan'[w].last => plan'[w].step # Sentinel
  BY DEF RunnersMode, Sentinel
<1>2. CASE Claim(w)
  <2>1. pick[w] \in Run /\ ~NotFound(pick[w]) /\ plan'[w] = PlanFor(pick[w])
    BY <1>1, <1>2, Claimed
  <2> QED
    BY <2>1, PlanMode
<1>3. CASE pc[w] = "running" /\ Stays(w)
  BY <1>3 DEF RunnersMode, Stays
<1> QED
  BY <1>1, <1>2, <1>3, StillRunning

\* What a tryFinallyStep marks is the name of one of its saga's try steps.
LEMMA BlockIsTryStep ==
    ASSUME UndoneInv, RunnersMode, NEW w \in Worker, pc[w] = "running",
           ReachesBlock(pick[w], plan[w])
    PROVE  BlockOf(pick[w], plan[w]) \in TrySteps(pick[w][2])
<1>1. TypeOK /\ RunnersFit /\ Ranged
  BY DEF UndoneInv, OutcomeInv, RunnerInv, CompensationInv
<1>2. PICK r, p, h : r = pick[w] /\ p = plan[w] /\ h = r[2]
  OBVIOUS
<1>3. r \in Run /\ h \in Coroutine /\ p \in Plan /\ IsStepOf(r, p.step)
  BY <1>1, <1>2, TreeTypes DEF TypeOK
<1>4. StepCount[h] \in Nat
  BY <1>3, StepAssumption
<1>5. \A k \in 1..StepCount[h] : Kind[h][k] = "finally" <=> k > 1 /\ Kind[h][k - 1] = "try"
  BY <1>3, ScopeContextAssumption
<1>6. p.mode # "handle" => (p.mode = "rollback" <=> p.step[1] # "do")
  BY <1>1, <1>2 DEF RunnersMode, RunnersFit, Fits
<1>7. CASE p.mode = "invoke" /\ KindOf(r, p) = "finally"
  <2>1. PICK k : k = p.step[2] /\ k \in 1..StepCount[h] /\ TheStep(r, p) = k
    BY <1>2, <1>3, <1>6, <1>7 DEF IsStepOf, TheStep, Plan
  <2>2. Kind[h][k] = "finally" /\ BlockOf(r, p) = k - 1
    BY <1>2, <1>7, <2>1 DEF KindOf, BlockOf
  <2>3. k > 1 /\ Kind[h][k - 1] = "try"
    BY <1>5, <2>1, <2>2
  <2> QED
    BY <1>2, <1>4, <2>1, <2>2, <2>3 DEF TrySteps
<1>8. CASE p.mode = "rollback" /\ p.step[1] = "undoSelf" /\ KindOf(r, p) = "try"
  <2>1. ~p.last
    BY <1>2, <1>8 DEF ReachesBlock, RunsUserCode
  <2>2. PICK i : i = p.step[2]
    OBVIOUS
  <2>3. i \in Originals(r) /\ p.step # Sentinel
    BY <1>1, <1>2, <1>8, <2>1, <2>2 DEF Ranged, InRange, RunnersMode
  <2>4. PICK k : k = ticks[r][i].step[2] /\ k \in 1..StepCount[h] /\ TheStep(r, p) = k
    BY <1>1, <1>2, <1>3, <1>8, <2>2, <2>3 DEF Originals, TypeOK, IsStepOf, TheStep
  <2>5. Kind[h][k] = "try" /\ BlockOf(r, p) = k
    BY <1>2, <1>8, <2>4 DEF KindOf, BlockOf
  <2> QED
    BY <1>2, <2>4, <2>5 DEF TrySteps
<1> QED
  BY <1>2, <1>7, <1>8 DEF ReachesBlock

-----------------------------------------------------------------------------
\* The contexts of rows and scopes are contexts.

\* The blocks of a step that the runner's scope is to remember.
LEMMA AfterStepContext ==
    ASSUME UndoneInv, RunnersMode, NEW w \in Worker, pc[w] = "running",
           NEW ctx, IsScopeContext(ctx)
    PROVE  IsScopeContext(AfterStep(pick[w], plan[w], ctx))
<1>1. CASE RunsBlock(pick[w], plan[w], ctx)
  <2>1. PICK b : b = BlockOf(pick[w], plan[w])
    OBVIOUS
  <2>2. pick[w] \in Run
    BY DEF UndoneInv, OutcomeInv, RunnerInv, CompensationInv, TypeOK
  <2>3. b \in Blocks
    BY <1>1, <2>1, <2>2, BlockIsTryStep, TreeTypes DEF RunsBlock, Blocks
  <2>4. IsEntry(FinallyKey, {b})
    BY <2>3, KeyAssumption DEF IsEntry
  <2>5. AfterStep(pick[w], plan[w], ctx) = PlusElement(ctx, FinallyKey, {b})
    BY <1>1, <2>1 DEF AfterStep, MarkFinallyRun
  <2> QED
    BY <2>4, <2>5, PlusElementContext
<1>2. CASE ~RunsBlock(pick[w], plan[w], ctx)
  BY <1>2 DEF AfterStep
<1> QED
  BY <1>1, <1>2

LEMMA LoadedContext ==
    ASSUME NEW r \in Run, IsScopeRow(own[r]), IsScopeRow(trigger[r])
    PROVE  IsScopeContext(Loaded(r))
BY ReadContext, PlusMapContext DEF Loaded

RowsOK ==
    /\ \A m \in Message :
        IsScopeRow(emittedWith[m]) /\ IsRow(asked[m]) /\ IsScopeRow(requestedWith[m])
    /\ \A r \in Run : IsScopeRow(own[r]) /\ IsScopeRow(trigger[r])
    /\ DOMAIN own = Run

ScopesOK ==
    /\ DOMAIN scope = Worker
    /\ \A w \in Worker : IsScopeContext(scope[w])

BlockRunsOK ==
    /\ DOMAIN blockRuns = Run
    /\ \A r \in Run : blockRuns[r] \in [1..StepCount[r[2]] -> Nat]

TriggeredOK == triggered \subseteq {r \in Run : RollingBack(r)}

\* The inductive invariant: beside the types of the columns, what a worker may mark
\* as a finally block.
ContextInv ==
    /\ UndoneInv
    /\ RunnersMode
    /\ RowsOK /\ ScopesOK /\ BlockRunsOK /\ TriggeredOK

LEMMA ContextInvTypes == ContextInv => ContextTypeOK
BY DEF ContextInv, RowsOK, ScopesOK, BlockRunsOK, TriggeredOK, IsScopeContext, ContextTypeOK

LEMMA LaunchedRows ==
    ASSUME RowsOK, NEW ctx, IsScopeContext(ctx), LaunchedFrom(ctx), emitted' \subseteq Message
    PROVE  \A m \in Message : IsScopeRow(emittedWith'[m]) /\ IsRow(asked'[m])
<1>1. PICK launched : launched = emitted' \ emitted
  OBVIOUS
<1>2. PICK a \in [launched -> UNION {Additions[m] : m \in launched}] :
        /\ \A m \in launched : a[m] \in Additions[m]
        /\ emittedWith' = [m \in Message |->
                IF m \in launched THEN Written(Plus(ctx, a[m])) ELSE emittedWith[m]]
        /\ asked' = [m \in Message |-> IF m \in launched THEN a[m].entries ELSE asked[m]]
  BY <1>1 DEF LaunchedFrom
<1> SUFFICES ASSUME NEW m \in Message
             PROVE  IsScopeRow(emittedWith'[m]) /\ IsRow(asked'[m])
  OBVIOUS
<1>3. CASE m \in launched
  <2>1. PICK b \in Additions[m] : b = a[m]
    BY <1>2, <1>3
  <2>2. IsScopeRow(Written(Plus(ctx, b))) /\ IsRow(b.entries)
    BY PlusContext, WrittenScopeRow, ScopeContextAssumption
  <2> QED
    BY <1>2, <1>3, <2>1, <2>2
<1>4. CASE m \notin launched
  BY <1>2, <1>4 DEF RowsOK
<1> QED
  BY <1>3, <1>4

LEMMA KeptRows ==
    ASSUME RowsOK, NEW r \in Run, NEW ctx, IsScopeContext(ctx), Keep(r, ctx)
    PROVE  /\ DOMAIN own' = Run /\ triggered' \subseteq triggered
           /\ \A q \in Run : IsScopeRow(own'[q]) /\ IsScopeRow(trigger'[q])
<1>1. PICK row : row = Written(ctx)
  OBVIOUS
<1>2. IsScopeRow(row)
  BY <1>1, WrittenScopeRow
<1>3. own' = [own EXCEPT ![r] = row] /\ UNCHANGED trigger /\ triggered' \subseteq triggered
  BY <1>1 DEF Keep
<1> QED
  BY <1>2, <1>3 DEF RowsOK

\* What each step does to the columns.
LEMMA RowsStep ==
    ASSUME ContextInv, [ContextNext]_allVars
    PROVE  RowsOK'
<1>1. TypeOK /\ TypeOK' /\ UndoneInv /\ RunnersMode
  BY ContextStep, TypesInductive DEF ContextInv, UndoneInv, OutcomeInv, RunnerInv, CompensationInv
<1>2. emitted' \subseteq Message
  BY <1>1 DEF TypeOK, LogTypeOK
<1>3. ASSUME NEW w \in Worker, pc[w] = "running"
      PROVE  /\ pick[w] \in Run /\ IsScopeContext(scope[w])
             /\ IsScopeContext(AfterStep(pick[w], plan[w], scope[w]))
  BY <1>1, <1>3, AfterStepContext DEF TypeOK, ContextInv, ScopesOK
<1>4. CASE UNCHANGED rows
  BY <1>4 DEF rows, ContextInv, RowsOK, IsScopeRow, IsRow
<1>5. ASSUME NEW w \in Worker, ContextReconcileCommit(w)
      PROVE  RowsOK'
  <2>1. \A r \in Run : r[1] \in Message
    BY TreeTypes
  <2>2. \A r \in Run : own'[r] \in {own[r], emittedWith[r[1]]}
                        /\ trigger'[r] \in {trigger[r], requestedWith[r[1]]}
    BY <1>5 DEF ContextReconcileCommit
  <2>3. DOMAIN own' = Run /\ UNCHANGED <<emittedWith, asked, requestedWith>>
    BY <1>5 DEF ContextReconcileCommit
  <2> QED
    BY <2>1, <2>2, <2>3 DEF ContextInv, RowsOK
<1>6. ASSUME NEW w \in Worker, ContextSuspend(w)
      PROVE  RowsOK'
  <2>1. PICK ctx : ctx = AfterStep(pick[w], plan[w], scope[w])
    OBVIOUS
  <2>2. LaunchedFrom(ctx) /\ Keep(pick[w], ctx) /\ UNCHANGED requestedWith /\ pc[w] = "running"
    BY <1>6, <2>1 DEF ContextSuspend, Suspend
  <2>3. IsScopeContext(ctx) /\ pick[w] \in Run
    BY <1>3, <2>1, <2>2
  <2> QED
    BY <1>2, <2>2, <2>3, LaunchedRows, KeptRows DEF ContextInv, RowsOK
<1>7. ASSUME NEW w \in Worker, ContextUndoChildren(w)
      PROVE  RowsOK'
  <2>1. pc[w] = "running"
    BY <1>7 DEF ContextUndoChildren, UndoChildren
  <2>2. \/ Keep(pick[w], scope[w])
        \/ UNCHANGED <<own, trigger, triggered>>
    BY <1>7 DEF ContextUndoChildren
  <2>3. /\ \A m \in Message : requestedWith'[m] \in {requestedWith[m], Written(scope[w])}
        /\ UNCHANGED <<emittedWith, asked>>
    BY <1>7 DEF ContextUndoChildren
  <2>4. IsScopeRow(Written(scope[w]))
    BY <1>3, <2>1, WrittenScopeRow
  <2>5. /\ DOMAIN own' = Run
        /\ \A q \in Run : IsScopeRow(own'[q]) /\ IsScopeRow(trigger'[q])
    BY <1>3, <2>1, <2>2, KeptRows DEF ContextInv, RowsOK
  <2> QED
    BY <2>3, <2>4, <2>5 DEF ContextInv, RowsOK
<1>8. ASSUME NEW w \in Worker, ContextFinish(w)
      PROVE  RowsOK'
  BY <1>3, <1>8, KeptRows DEF ContextFinish, Finish, ContextInv, RowsOK
<1>9. ASSUME NEW w \in Worker, ContextFail(w)
      PROVE  RowsOK'
  <2>1. PICK ctx : ctx = IF plan[w].doomed THEN scope[w]
                         ELSE AfterStep(pick[w], plan[w], scope[w])
    OBVIOUS
  <2>2. /\ Keep(pick[w], ctx) \/ UNCHANGED <<own, trigger, triggered>>
        /\ UNCHANGED <<emittedWith, asked, requestedWith>> /\ pc[w] = "running"
    BY <1>9, <2>1 DEF ContextFail, Fail
  <2>3. IsScopeContext(ctx) /\ pick[w] \in Run
    BY <1>3, <2>1, <2>2
  <2> QED
    BY <2>2, <2>3, KeptRows DEF ContextInv, RowsOK
<1>10. ASSUME NEW m \in Message, ContextLaunch(m)
       PROVE  RowsOK'
  BY <1>2, <1>10, LaunchedRows, EmptyIsScopeContext DEF ContextLaunch, ContextInv, RowsOK
<1>11. ASSUME NEW s \in Scope, ContextRequestRollback(s)
       PROVE  RowsOK'
  <2>1. /\ \A m \in Message : requestedWith'[m] \in {requestedWith[m], NoEntries}
        /\ UNCHANGED <<emittedWith, asked, own, trigger>>
    BY <1>11 DEF ContextRequestRollback
  <2> QED
    BY <2>1, EmptyRow DEF ContextInv, RowsOK
<1> QED
  BY <1>4, <1>5, <1>6, <1>7, <1>8, <1>9, <1>10, <1>11
     DEF ContextNext, ContextClaim, ContextCrash, allVars, contexts

LEMMA ScopesStep ==
    ASSUME ContextInv, [ContextNext]_allVars
    PROVE  ScopesOK'
<1>1. CASE UNCHANGED scope
  BY <1>1 DEF ContextInv, ScopesOK, IsScopeContext, IsScopeRow, IsRow
<1>2. ASSUME NEW w \in Worker, NEW ctx, IsScopeContext(ctx),
             scope' = [scope EXCEPT ![w] = ctx]
      PROVE  ScopesOK'
  BY <1>2 DEF ContextInv, ScopesOK
<1>3. ASSUME NEW w \in Worker, ContextClaim(w)
      PROVE  ScopesOK'
  <2>1. PICK ctx : /\ ctx = IF pc'[w] = "running" THEN Loaded(pick[w]) ELSE EmptyContext
                   /\ scope' = [scope EXCEPT ![w] = ctx]
    BY <1>3 DEF ContextClaim
  <2>2. pick[w] \in Run
    BY <1>3 DEF ContextClaim, Claim, ContextInv, UndoneInv, OutcomeInv, RunnerInv,
                CompensationInv, TypeOK
  <2>3. IsScopeContext(ctx)
    BY <2>1, <2>2, LoadedContext, EmptyIsScopeContext DEF ContextInv, RowsOK
  <2> QED
    BY <1>2, <2>1, <2>3
<1>4. UNCHANGED scope \/ \E w \in Worker :
        ContextClaim(w) \/ scope' = [scope EXCEPT ![w] = EmptyContext]
  BY DEF ContextNext, ContextReconcileCommit, ContextSuspend, ContextUndoChildren,
         ContextFinish, ContextFail, ContextCrash, ContextLaunch, ContextRequestRollback,
         allVars, contexts
<1> QED
  BY <1>1, <1>2, <1>3, <1>4, EmptyIsScopeContext

LEMMA BlockRunsStep ==
    ASSUME ContextInv, [ContextNext]_allVars
    PROVE  BlockRunsOK'
<1>1. CASE UNCHANGED blockRuns
  BY <1>1 DEF ContextInv, BlockRunsOK
<1>2. ASSUME NEW w \in Worker, ContextSuspend(w), ~UNCHANGED blockRuns
      PROVE  BlockRunsOK'
  <2>1. PICK r, b : /\ r = pick[w] /\ b = BlockOf(pick[w], plan[w])
                    /\ blockRuns' = [blockRuns EXCEPT ![r][b] = @ + 1]
                    /\ RunsBlock(r, plan[w], scope[w])
    BY <1>2 DEF ContextSuspend
  <2>2. pc[w] = "running" /\ r \in Run
    BY <1>2, <2>1 DEF ContextSuspend, Suspend, ContextInv, UndoneInv, OutcomeInv, RunnerInv,
                      CompensationInv, TypeOK
  <2>3. b \in 1..StepCount[r[2]]
    BY <2>1, <2>2, BlockIsTryStep DEF ContextInv, RunsBlock, TrySteps
  <2>4. /\ DOMAIN blockRuns' = Run
        /\ blockRuns'[r] = [blockRuns[r] EXCEPT ![b] = @ + 1]
        /\ \A q \in Run : q # r => blockRuns'[q] = blockRuns[q]
    BY <2>1, <2>2 DEF ContextInv, BlockRunsOK
  <2>5. PICK f, n : f = blockRuns[r] /\ n = StepCount[r[2]]
    OBVIOUS
  <2>6. f \in [1..n -> Nat] /\ b \in 1..n /\ blockRuns'[r] = [f EXCEPT ![b] = @ + 1]
    BY <2>2, <2>3, <2>4, <2>5 DEF ContextInv, BlockRunsOK
  <2>7. blockRuns'[r] \in [1..n -> Nat]
    BY <2>6
  <2> QED
    BY <2>4, <2>5, <2>7 DEF ContextInv, BlockRunsOK
<1>3. UNCHANGED blockRuns \/ \E w \in Worker : ContextSuspend(w)
  BY DEF ContextNext, ContextReconcileCommit, ContextClaim, ContextUndoChildren,
         ContextFinish, ContextFail, ContextCrash, ContextLaunch, ContextRequestRollback,
         allVars, contexts
<1> QED
  BY <1>1, <1>2, <1>3

LEMMA TriggeredStep ==
    ASSUME ContextInv, [ContextNext]_allVars
    PROVE  TriggeredOK'
<1>1. TypeOK /\ [Next]_vars
  BY ContextStep DEF ContextInv, UndoneInv, OutcomeInv, RunnerInv, CompensationInv
<1>2. \A r \in Run : RollingBack(r) => RollingBack(r)'
  BY <1>1, MarksKept DEF RollingBack
<1>3. CASE triggered' \subseteq triggered
  BY <1>2, <1>3 DEF ContextInv, TriggeredOK
<1>4. ASSUME NEW w \in Worker, ContextReconcileCommit(w)
      PROVE  TriggeredOK'
  <2>1. triggered' = triggered \cup {r \in Run : marks'[r] # marks[r]}
    BY <1>4 DEF ContextReconcileCommit
  <2>2. \A r \in Run : marks'[r] # marks[r] => RollingBack(r)'
    BY <1>4 DEF ContextReconcileCommit, ReconcileCommit, RollingBack
  <2> QED
    BY <1>2, <2>1, <2>2 DEF ContextInv, TriggeredOK
<1>5. triggered' \subseteq triggered \/ \E w \in Worker : ContextReconcileCommit(w)
  BY DEF ContextNext, ContextClaim, ContextSuspend, ContextUndoChildren, Keep, rows,
         ContextFinish, ContextFail, ContextCrash, ContextLaunch, ContextRequestRollback,
         allVars, contexts
<1> QED
  BY <1>3, <1>4, <1>5

LEMMA ContextInductive == ContextInv /\ [ContextNext]_allVars => ContextInv'
<1> SUFFICES ASSUME ContextInv, [ContextNext]_allVars
             PROVE  ContextInv'
  OBVIOUS
<1>1. UndoneInv' /\ RunnersMode'
  BY ContextStep, UndoneInductive, RunnersModeStep DEF ContextInv
<1> QED
  BY <1>1, RowsStep, ScopesStep, BlockRunsStep, TriggeredStep DEF ContextInv

LEMMA ContextInitially == Init /\ ContextInit => ContextInv
<1> SUFFICES ASSUME Init, ContextInit
             PROVE  ContextInv
  OBVIOUS
<1>1. UndoneInv /\ RunnersMode
  BY UndoneInitially DEF RunnersMode, Init
<1>2. RowsOK
  <2>1. IsRow(NoEntries)
    BY EmptyRow DEF IsScopeRow
  <2> QED
    BY <2>1, EmptyRow, TreeTypes DEF RowsOK, ContextInit
<1>3. ScopesOK
  BY EmptyIsScopeContext DEF ScopesOK, ContextInit
<1>4. BlockRunsOK
  BY DEF BlockRunsOK, ContextInit
<1>5. TriggeredOK
  BY DEF TriggeredOK, ContextInit
<1> QED
  BY <1>1, <1>2, <1>3, <1>4, <1>5 DEF ContextInv

\* Every row and every scope holds a context: its deadlines are instants, its list
\* of finally blocks names try steps, and what a tryFinallyStep marks is the try
\* step it belongs to, on either path (TryFinally.ts, the name that is closed over;
\* EventLoop.ts, the context a continuation is built with).
THEOREM ContextsTyped == ContextSpec => []ContextTypeOK
BY ContextInvTypes, ContextInductive, ContextInitially, PTL DEF ContextSpec

-----------------------------------------------------------------------------
\* The trees a scope is part of.

LEMMA LineageUp ==
    ASSUME NEW r \in Run
    PROVE  /\ EmittingScope(r[1]) \in Scope
           /\ \A t \in Scope : t # r =>
                (t \in Lineage[r] <=> t \in Lineage[EmittingScope(r[1])])
<1>1. PICK s : s = EmittingScope(r[1])
  OBVIOUS
<1>2. s \in Scope /\ r \in Scope
  BY <1>1, TreeTypes DEF EmittingScope, Scope, RootMessage
<1> SUFFICES ASSUME NEW t \in Scope, t # r
             PROVE  t \in Lineage[r] <=> t \in Lineage[s]
  BY <1>1, <1>2
<1>3. ASSUME t \in Lineage[s], NEW scopes \in SUBSET Scope, r \in scopes, Ancestral(scopes)
      PROVE  t \in scopes
  <2>1. s \in scopes
    BY <1>1, <1>3 DEF Ancestral
  <2> QED
    BY <1>2, <1>3, <2>1 DEF Lineage
<1>4. ASSUME t \in Lineage[r], NEW scopes \in SUBSET Scope, s \in scopes, Ancestral(scopes)
      PROVE  t \in scopes
  <2>1. PICK more \in SUBSET Scope : more = scopes \cup {r}
    BY <1>2
  <2>2. Ancestral(more) /\ r \in more
    BY <1>1, <1>4, <2>1 DEF Ancestral
  <2>3. t \in more
    BY <1>2, <1>4, <2>2 DEF Lineage
  <2> QED
    BY <2>1, <2>3
<1> QED
  BY <1>2, <1>3, <1>4 DEF Lineage

LEMMA RootIsNoRun == ASSUME NEW m PROVE RootScope(m) \notin Run
BY TreeTypes, TreeAssumption DEF RootScope

LEMMA RootLineage ==
    ASSUME NEW m \in RootMessage
    PROVE  RootScope(m) \in Scope /\ \A t \in Lineage[RootScope(m)] : t = RootScope(m)
<1>1. RootScope(m) \in Scope
  BY DEF Scope
<1>2. PICK scopes \in SUBSET Scope : scopes = {RootScope(m)}
  BY <1>1
<1>3. Ancestral(scopes)
  BY <1>2, RootIsNoRun DEF Ancestral
<1> QED
  BY <1>1, <1>2, <1>3 DEF Lineage

\* The limits on a run are those on the scope that launched its message.
LEMMA LimitsBelow ==
    ASSUME NEW r \in Run
    PROVE  TreeLimits(r) = TreeLimits(EmittingScope(r[1]))
<1>1. \A n \in RootMessage :
        RootScope(n) \in Lineage[r] <=> RootScope(n) \in Lineage[EmittingScope(r[1])]
  BY LineageUp, RootIsNoRun, RootLineage
<1> QED
  BY <1>1 DEF TreeLimits

\* The clients' messages at the roots of the scope's trees are launched.
Rooted(s) == \A n \in RootMessage : RootScope(n) \in Lineage[s] => n \in emitted

RootsLaunched == \A m \in emitted : Rooted(EmittingScope(m))

LEMMA SeenRooted ==
    ASSUME Recorded, RootsLaunched, NEW r \in Run, r \in seen
    PROVE  Rooted(r)
<1>1. Rooted(EmittingScope(r[1]))
  BY DEF Recorded, RootsLaunched
<1> QED
  BY <1>1, LineageUp, RootIsNoRun, RootLineage DEF Rooted

LEMMA RootsLaunchedStep ==
    ASSUME RunnerInv, Recorded, RootsLaunched, [Next]_vars
    PROVE  RootsLaunched'
<1>1. TypeOK /\ TypeOK' /\ RunnersFit
  BY TypesInductive DEF RunnerInv, CompensationInv
<1>2. emitted \subseteq emitted'
  BY <1>1, EmittedWritten
<1> SUFFICES ASSUME NEW m \in emitted', NEW n \in RootMessage,
                    RootScope(n) \in Lineage[EmittingScope(m)]
             PROVE  n \in emitted'
  BY DEF RootsLaunched, Rooted
<1>3. CASE m \in emitted
  BY <1>2, <1>3 DEF RootsLaunched, Rooted
<1>4. CASE m \notin emitted /\ Emitter[m] = Outside
  <2>1. m \in RootMessage /\ EmittingScope(m) = RootScope(m)
    BY <1>1, <1>4 DEF RootMessage, EmittingScope, TypeOK, LogTypeOK
  <2>2. RootScope(n) = RootScope(m)
    BY <2>1, RootLineage
  <2> QED
    BY <2>2 DEF RootScope
<1>5. ASSUME NEW w \in Worker, NEW t, Launches(w, t), m \in t.emits
      PROVE  n \in emitted'
  <2>1. PICK r \in Run : r = pick[w] /\ r \in seen
    BY <1>1, <1>5 DEF Launches, Closes, TypeOK, RunnersFit, Fits
  <2>2. EmittingScope(m) = r
    BY <1>5, <2>1, TreeTypes DEF Launches, EmittedBy, EmittingScope
  <2> QED
    BY <1>2, <2>1, <2>2, SeenRooted DEF Rooted
<1> QED
  BY <1>1, <1>3, <1>4, <1>5, EmittedWritten

-----------------------------------------------------------------------------
\* Adding to a context puts no deadline off.

\* No handler launches with a deadline in a CooperationContextMap: the library's own
\* calls add it as an element.  A client may, there is no context to add it to.
ElementsOnly ==
    \A m \in Message \ RootMessage : \A a \in Additions[m] : a.map => DOMAIN a.entries \cap DeadlineKeys = {}

\* Where both have a deadline, f's is no later.
WhereSet(f, limits) ==
    \A k \in DeadlineKeys \cap DOMAIN f \cap DOMAIN limits : f[k] <= limits[k]

\* All deadlines of the context are in the half that was read.
ReadOnly(ctx) == IsScopeContext(ctx) /\ DOMAIN ctx.des \cap DeadlineKeys = {}

LEMMA WrittenDeadlines ==
    ASSUME NEW ctx
    PROVE  /\ DOMAIN Written(ctx) = DOMAIN ctx.des \cup DOMAIN ctx.ser
           /\ \A k \in DOMAIN ctx.ser : Written(ctx)[k] = ctx.ser[k]
           /\ \A k \in DOMAIN ctx.des \ DOMAIN ctx.ser : Written(ctx)[k] = ctx.des[k]
BY DEF Written, Overwritten

LEMMA WrittenReadOnly ==
    ASSUME NEW ctx, NEW limits, NoLaterThan(ctx.ser, limits)
    PROVE  NoLaterThan(Written(ctx), limits)
BY WrittenDeadlines DEF NoLaterThan

LEMMA PlusElementLimits ==
    ASSUME NEW ctx, ReadOnly(ctx), NEW k, NEW v, IsEntry(k, v)
    PROVE  /\ k \in DeadlineKeys =>
                k \in DOMAIN Written(PlusElement(ctx, k, v))
                /\ Written(PlusElement(ctx, k, v))[k] <= v
           /\ \A limits : NoLaterThan(ctx.ser, limits) /\ IsRow(limits) =>
                NoLaterThan(Written(PlusElement(ctx, k, v)), limits)
<1>1. PICK value : value = IF Has(ctx, k) THEN Combined(k, Get(ctx, k), v) ELSE v
  OBVIOUS
<1>2. PICK sum : sum = PlusElement(ctx, k, v)
  OBVIOUS
<1>3. /\ sum.ser = Without(ctx.ser, k)
      /\ sum.des = Overwritten(Without(ctx.des, k), [j \in {k} |-> value])
  BY <1>1, <1>2, Halves DEF PlusElement, Minus
<1>4. DOMAIN sum.ser = DOMAIN ctx.ser \ {k} /\ \A j \in DOMAIN sum.ser : sum.ser[j] = ctx.ser[j]
  BY <1>3 DEF Without
<1>5. k \in DOMAIN sum.des /\ sum.des[k] = value
  BY <1>3 DEF Overwritten
<1>6. k \in DOMAIN Written(sum) /\ Written(sum)[k] = value
  BY <1>4, <1>5, WrittenDeadlines
<1>7. ASSUME k \in DeadlineKeys
      PROVE  /\ value <= v
             /\ k \in DOMAIN ctx.ser => value <= ctx.ser[k]
  <2>1. v \in Nat /\ k \notin DOMAIN ctx.des
    BY <1>7 DEF IsEntry, ReadOnly
  <2>2. k \in DOMAIN ctx.ser => ctx.ser[k] \in Nat
    BY <1>7 DEF ReadOnly, IsScopeContext, IsScopeRow, IsRow
  <2> QED
    BY <1>1, <1>7, <2>1, <2>2 DEF Has, Get, Combined
<1>8. ASSUME NEW limits, NoLaterThan(ctx.ser, limits), IsRow(limits),
             NEW j \in DeadlineKeys \cap DOMAIN limits
      PROVE  j \in DOMAIN Written(sum) /\ Written(sum)[j] <= limits[j]
  <2>1. j \in DOMAIN ctx.ser /\ ctx.ser[j] <= limits[j]
    BY <1>8 DEF NoLaterThan
  <2>2. CASE j # k
    BY <1>4, <2>1, <2>2, WrittenDeadlines
  <2>3. CASE j = k
    <3>1. value <= v /\ value <= ctx.ser[k] /\ ctx.ser[k] <= limits[k]
      BY <1>7, <1>8, <2>1, <2>3
    <3>2. v \in Nat /\ ctx.ser[k] \in Nat /\ limits[k] \in Nat
      BY <1>8, <2>1, <2>3 DEF IsEntry, ReadOnly, IsScopeContext, IsScopeRow, IsRow
    <3>3. value \in Nat
      <4>1. k \notin DOMAIN ctx.des
        BY <1>8, <2>3 DEF ReadOnly
      <4> QED
        BY <1>1, <1>8, <2>3, <3>2, <4>1 DEF Get, Combined
    <3> QED
      BY <1>6, <2>3, <3>1, <3>2, <3>3
  <2> QED
    BY <2>2, <2>3
<1> QED
  BY <1>2, <1>6, <1>7, <1>8 DEF NoLaterThan

LEMMA PlusLimits ==
    ASSUME ElementsOnly, NEW ctx, ReadOnly(ctx), NEW m \in Message \ RootMessage,
           NEW a \in Additions[m]
    PROVE  /\ NoLaterThan(Written(Plus(ctx, a)), a.entries)
           /\ \A limits : NoLaterThan(ctx.ser, limits) /\ IsRow(limits) =>
                NoLaterThan(Written(Plus(ctx, a)), limits)
<1>1. /\ IsRow(a.entries) /\ FinallyKey \notin DOMAIN a.entries
      /\ ~a.map => \E k \in Key : DOMAIN a.entries = {k}
  BY ScopeContextAssumption
<1>2. CASE a.map
  <2>1. PICK sum : sum = Plus(ctx, a)
    OBVIOUS
  <2>2. sum.ser = Overwritten(ctx.ser, NoEntries)
    BY <1>2, <2>1, Halves DEF Plus, PlusMap, Built
  <2>3. DOMAIN sum.ser = DOMAIN ctx.ser /\ \A k \in DOMAIN ctx.ser : sum.ser[k] = ctx.ser[k]
    BY <2>2, EmptyRow DEF Overwritten
  <2>4. ASSUME NEW limits, NoLaterThan(ctx.ser, limits)
        PROVE  NoLaterThan(Written(sum), limits)
    BY <2>3, <2>4, WrittenDeadlines DEF NoLaterThan
  <2>5. NoLaterThan(Written(sum), a.entries)
    BY <1>2 DEF NoLaterThan, ElementsOnly
  <2> QED
    BY <2>1, <2>4, <2>5
<1>3. CASE ~a.map
  <2>1. PICK k \in Key : DOMAIN a.entries = {k}
    BY <1>1, <1>3
  <2>2. (CHOOSE j \in Key : DOMAIN a.entries = {j}) = k
    BY <2>1
  <2>3. IsEntry(k, a.entries[k])
    BY <1>1, <2>1 DEF IsRow, IsEntry
  <2>4. Plus(ctx, a) = PlusElement(ctx, k, a.entries[k])
    BY <1>3, <2>2 DEF Plus
  <2> QED
    BY <2>1, <2>3, <2>4, PlusElementLimits DEF NoLaterThan
<1> QED
  BY <1>2, <1>3

LEMMA PlusToEmptyLimits ==
    ASSUME NEW m \in Message, NEW a \in Additions[m]
    PROVE  NoLaterThan(Written(Plus(EmptyContext, a)), a.entries)
<1>1. PICK ctx : ctx = EmptyContext
  OBVIOUS
<1>2. ctx.ser = NoEntries /\ ctx.des = NoEntries /\ \A k : ~Has(ctx, k)
  BY <1>1, EmptyRow, Halves DEF EmptyContext, Has
<1>3. CASE a.map
  <2>1. PICK sum : sum = Plus(ctx, a)
    OBVIOUS
  <2>2. sum.ser = Overwritten(NoEntries, NoEntries)
    BY <1>2, <1>3, <2>1, Halves DEF Plus, PlusMap, Built
  <2>3. sum.des = [k \in {} \cup DOMAIN a.entries |-> Get(Built(a.entries), k)]
    BY <1>2, <1>3, <2>1, EmptyRow, Halves DEF Plus, PlusMap, Built
  <2>4. DOMAIN sum.ser = {} /\ DOMAIN sum.des = DOMAIN a.entries
    BY <2>2, <2>3, EmptyRow DEF Overwritten
  <2>5. \A k \in DOMAIN a.entries : sum.des[k] = a.entries[k]
    BY <2>3, Halves DEF Get, Built
  <2>6. \A k \in DOMAIN a.entries :
          k \in DOMAIN Written(sum) /\ Written(sum)[k] = a.entries[k]
    BY <2>4, <2>5, WrittenDeadlines
  <2>7. \A k \in DeadlineKeys \cap DOMAIN a.entries : a.entries[k] \in Nat
    BY ScopeContextAssumption DEF IsRow
  <2> QED
    BY <1>1, <2>1, <2>6, <2>7 DEF NoLaterThan
<1>4. CASE ~a.map
  <2>1. PICK k \in Key : DOMAIN a.entries = {k}
    BY <1>4, ScopeContextAssumption
  <2>2. (CHOOSE j \in Key : DOMAIN a.entries = {j}) = k
    BY <2>1
  <2>3. PICK v : v = a.entries[k]
    OBVIOUS
  <2>4. Plus(ctx, a) = PlusElement(ctx, k, v)
    BY <1>4, <2>2, <2>3 DEF Plus
  <2>5. PICK sum : sum = PlusElement(ctx, k, v)
    OBVIOUS
  <2>6. /\ sum.ser = Without(NoEntries, k)
        /\ sum.des = Overwritten(Without(NoEntries, k), [j \in {k} |-> v])
    BY <1>2, <2>5, Halves DEF PlusElement, Minus
  <2>7. k \notin DOMAIN sum.ser /\ k \in DOMAIN sum.des /\ sum.des[k] = v
    BY <2>6, EmptyRow DEF Without, Overwritten
  <2>8. k \in DOMAIN Written(sum) /\ Written(sum)[k] = v
    BY <2>7, WrittenDeadlines
  <2>9. k \in DeadlineKeys => v \in Nat
    BY <2>1, <2>3, ScopeContextAssumption DEF IsRow
  <2> QED
    BY <1>1, <2>1, <2>3, <2>4, <2>5, <2>8, <2>9 DEF NoLaterThan
<1> QED
  BY <1>3, <1>4

\* Marking a finally block touches no deadline.
LEMMA AfterStepLimits ==
    ASSUME ContextInv, NEW w \in Worker, pc[w] = "running", NEW ctx, ReadOnly(ctx)
    PROVE  /\ ReadOnly(AfterStep(pick[w], plan[w], ctx))
           /\ \A limits : NoLaterThan(ctx.ser, limits) =>
                NoLaterThan(AfterStep(pick[w], plan[w], ctx).ser, limits)
<1>1. PICK after : after = AfterStep(pick[w], plan[w], ctx)
  OBVIOUS
<1>2. IsScopeContext(after)
  BY <1>1, AfterStepContext DEF ContextInv, ReadOnly
<1>3. CASE after = ctx
  BY <1>1, <1>3
<1>4. CASE after # ctx
  <2>1. PICK v : after = PlusElement(ctx, FinallyKey, v)
    BY <1>1, <1>4 DEF AfterStep, MarkFinallyRun
  <2>2. PICK value :
          value = IF Has(ctx, FinallyKey) THEN Combined(FinallyKey, Get(ctx, FinallyKey), v) ELSE v
    OBVIOUS
  <2>3. /\ DOMAIN after.ser = DOMAIN ctx.ser \ {FinallyKey}
        /\ \A k \in DOMAIN after.ser : after.ser[k] = ctx.ser[k]
        /\ DOMAIN after.des \subseteq DOMAIN ctx.des \cup {FinallyKey}
    <3>1. /\ after.ser = Without(ctx.ser, FinallyKey)
          /\ after.des = Overwritten(Without(ctx.des, FinallyKey),
                                     [j \in {FinallyKey} |-> value])
      BY <2>1, <2>2, Halves DEF PlusElement, Minus
    <3> QED
      BY <3>1 DEF Without, Overwritten
  <2>4. FinallyKey \notin DeadlineKeys
    BY KeyAssumption
  <2>5. ASSUME NEW limits, NoLaterThan(ctx.ser, limits)
        PROVE  NoLaterThan(after.ser, limits)
    BY <2>3, <2>4, <2>5 DEF NoLaterThan
  <2> QED
    BY <1>1, <1>2, <2>3, <2>4, <2>5 DEF ReadOnly
<1> QED
  BY <1>3, <1>4

\* A trigger's row may lack a deadline, but holds none that is later.
LEMMA LoadedLimits ==
    ASSUME NEW r \in Run, NEW limits, NoLaterThan(own[r], limits), WhereSet(trigger[r], limits)
    PROVE  NoLaterThan(Loaded(r).ser, limits)
<1>1. CASE r \in triggered
  <2>1. Loaded(r).ser = Overwritten(own[r], trigger[r])
    BY <1>1, Halves DEF Loaded, PlusMap, Read
  <2>2. \A k \in DOMAIN own[r] :
          /\ k \in DOMAIN Loaded(r).ser
          /\ \/ k \in DOMAIN trigger[r] /\ Loaded(r).ser[k] = trigger[r][k]
             \/ Loaded(r).ser[k] = own[r][k]
    BY <2>1 DEF Overwritten
  <2> QED
    BY <2>2 DEF NoLaterThan, WhereSet
<1>2. CASE r \notin triggered
  BY <1>2, Halves DEF Loaded, Read
<1> QED
  BY <1>1, <1>2

LEMMA LoadedReadOnly == ASSUME NEW r \in Run PROVE DOMAIN Loaded(r).des = {}
<1>1. CASE r \in triggered
  <2>1. PICK one, two : one = Read(own[r]) /\ two = Read(trigger[r])
    OBVIOUS
  <2>2. DOMAIN one.des = {} /\ DOMAIN two.des = {}
    BY <2>1, EmptyRow, Halves DEF Read
  <2>3. DOMAIN PlusMap(one, two).des = {}
    BY <2>2, Halves DEF PlusMap
  <2> QED
    BY <1>1, <2>1, <2>3 DEF Loaded
<1>2. CASE r \notin triggered
  BY <1>2, EmptyRow, Halves DEF Loaded, Read
<1> QED
  BY <1>1, <1>2

-----------------------------------------------------------------------------
\* What a step writes.

LEMMA LaunchedWith ==
    ASSUME NEW ctx, LaunchedFrom(ctx)
    PROVE  /\ \A n \in Message \cap emitted :
                asked'[n] = asked[n] /\ emittedWith'[n] = emittedWith[n]
           /\ \A m \in Message \cap (emitted' \ emitted) : \E a \in Additions[m] :
                emittedWith'[m] = Written(Plus(ctx, a)) /\ asked'[m] = a.entries
<1>1. PICK launched : launched = emitted' \ emitted
  OBVIOUS
<1>2. PICK a \in [launched -> UNION {Additions[m] : m \in launched}] :
        /\ \A m \in launched : a[m] \in Additions[m]
        /\ emittedWith' = [m \in Message |->
                IF m \in launched THEN Written(Plus(ctx, a[m])) ELSE emittedWith[m]]
        /\ asked' = [m \in Message |-> IF m \in launched THEN a[m].entries ELSE asked[m]]
  BY <1>1 DEF LaunchedFrom
<1> QED
  BY <1>1, <1>2

\* Where the launches of a step have their context from.
LauncherOf(w, m, ctx) ==
    /\ pc[w] = "running"
    /\ Emitter[m] = pick[w]
    /\ ctx = AfterStep(pick[w], plan[w], scope[w])

LEMMA LaunchStep ==
    ASSUME ContextInv, [ContextNext]_allVars
    PROVE  /\ \A n \in Message \cap emitted :
                asked'[n] = asked[n] /\ emittedWith'[n] = emittedWith[n]
           /\ \A m \in Message \cap (emitted' \ emitted) : \E ctx : \E a \in Additions[m] :
                /\ emittedWith'[m] = Written(Plus(ctx, a)) /\ asked'[m] = a.entries
                /\ \/ ctx = EmptyContext /\ m \in RootMessage
                   \/ \E w \in Worker : LauncherOf(w, m, ctx)
<1>1. CASE UNCHANGED <<emittedWith, asked, emitted>>
  BY <1>1
<1>2. ASSUME NEW n \in Message, ContextLaunch(n)
      PROVE  LaunchedFrom(EmptyContext) /\ emitted' \ emitted \subseteq RootMessage
  BY <1>2 DEF ContextLaunch, Launch
<1>3. ASSUME NEW w \in Worker, ContextSuspend(w)
      PROVE  \E ctx : /\ LaunchedFrom(ctx)
                      /\ \A m \in emitted' \ emitted : LauncherOf(w, m, ctx)
  <2>1. LaunchedFrom(AfterStep(pick[w], plan[w], scope[w])) /\ pc[w] = "running"
    BY <1>3 DEF ContextSuspend, Suspend
  <2>2. \A m \in emitted' \ emitted : Emitter[m] = pick[w]
    BY <1>3 DEF ContextSuspend, Suspend, EmittedBy
  <2> QED
    BY <2>1, <2>2 DEF LauncherOf
<1>4. \/ UNCHANGED <<emittedWith, asked, emitted>>
      \/ \E n \in Message : ContextLaunch(n)
      \/ \E w \in Worker : ContextSuspend(w)
  <2>1. ASSUME NEW w \in Worker,
               \/ ContextReconcileCommit(w) \/ ContextClaim(w) \/ ContextUndoChildren(w)
               \/ ContextFinish(w) \/ ContextFail(w) \/ ContextCrash(w)
        PROVE  UNCHANGED <<emittedWith, asked, emitted>>
    BY <2>1 DEF ContextReconcileCommit, ContextClaim, ContextUndoChildren, ContextFinish,
                ContextFail, ContextCrash, rows, log, ReconcileCommit, Claim, UndoChildren,
                Finish, Fail, Crash
  <2>2. ASSUME NEW w \in Worker, OtherSteps(w) /\ UNCHANGED contexts
        PROVE  UNCHANGED <<emittedWith, asked, emitted>>
    BY <2>2 DEF OtherSteps, contexts, rows, log, ReconcileBegin, ReconcileLock, Select,
                LosePick, Abort
  <2>3. ASSUME NEW s \in Scope, ContextRequestRollback(s)
        PROVE  UNCHANGED <<emittedWith, asked, emitted>>
    BY <2>3 DEF ContextRequestRollback, RequestRollback, log
  <2>4. CASE OtherEvents /\ UNCHANGED contexts
    BY <2>4 DEF OtherEvents, contexts, rows, log, Cancel, AskRollback,
                 WithdrawRollback, Expire
  <2>5. CASE UNCHANGED allVars
    BY <2>5 DEF allVars, vars, log, contexts, rows
  <2> QED
    BY <2>1, <2>2, <2>3, <2>4, <2>5 DEF ContextNext
<1>5. CASE \E n \in Message : ContextLaunch(n)
  BY <1>2, <1>5, LaunchedWith
<1>6. ASSUME NEW w \in Worker, ContextSuspend(w)
      PROVE  /\ \A n \in Message \cap emitted :
                  asked'[n] = asked[n] /\ emittedWith'[n] = emittedWith[n]
             /\ \A m \in Message \cap (emitted' \ emitted) : \E ctx : \E a \in Additions[m] :
                  /\ emittedWith'[m] = Written(Plus(ctx, a)) /\ asked'[m] = a.entries
                  /\ LauncherOf(w, m, ctx)
  <2>1. PICK ctx : LaunchedFrom(ctx) /\ \A m \in emitted' \ emitted : LauncherOf(w, m, ctx)
    BY <1>3, <1>6
  <2> QED
    BY <2>1, LaunchedWith
<1> QED
  BY <1>1, <1>4, <1>5, <1>6

\* The scope of a worker that executes a step is the one it was built with.
LEMMA ScopeKept ==
    ASSUME ContextInv, [ContextNext]_allVars, NEW w \in Worker, pc'[w] = "running"
    PROVE  \/ ContextClaim(w) /\ pc[w] = "selected"
           \/ pc[w] = "running" /\ Stays(w) /\ scope'[w] = scope[w]
<1>1. TypeOK /\ [Next]_vars /\ DOMAIN scope = Worker
  BY ContextStep DEF ContextInv, ScopesOK, UndoneInv, OutcomeInv, RunnerInv, CompensationInv
<1>2. ASSUME NEW v \in Worker, v # w,
             \/ ContextReconcileCommit(v) \/ ContextClaim(v) \/ ContextSuspend(v)
             \/ ContextUndoChildren(v) \/ ContextFinish(v) \/ ContextFail(v)
             \/ ContextCrash(v) \/ (OtherSteps(v) /\ UNCHANGED contexts)
      PROVE  Stays(w) /\ scope'[w] = scope[w]
  <2>1. WorkerStep(v)
    BY <1>2 DEF ContextReconcileCommit, ContextClaim, ContextSuspend, ContextUndoChildren,
                ContextFinish, ContextFail, ContextCrash, OtherSteps,
                WorkerStep, Conclude, Resume
  <2>2. scope'[w] = scope[w]
    BY <1>1, <1>2 DEF ContextReconcileCommit, ContextClaim, ContextSuspend,
                      ContextUndoChildren, ContextFinish, ContextFail, ContextCrash, contexts
  <2> QED
    BY <1>1, <1>2, <2>1, <2>2, OthersStay
<1>3. ASSUME \/ ContextReconcileCommit(w) \/ ContextSuspend(w)
             \/ ContextUndoChildren(w) \/ ContextFinish(w) \/ ContextFail(w)
             \/ ContextCrash(w) \/ OtherSteps(w)
      PROVE  FALSE
  BY <1>1, <1>3 DEF ContextReconcileCommit, ContextSuspend, ContextUndoChildren,
       ContextFinish, ContextFail, ContextCrash, OtherSteps, ReconcileBegin, ReconcileLock,
       ReconcileCommit, Select, LosePick, Suspend, UndoChildren, Finish, Fail, Abort, Crash,
       ToIdle, TypeOK
<1>4. ASSUME ContextClaim(w)
      PROVE  pc[w] = "selected"
  BY <1>4 DEF ContextClaim, Claim
<1>5. ASSUME \/ \E m \in Message : ContextLaunch(m)
             \/ \E s \in Scope : ContextRequestRollback(s)
             \/ OtherEvents /\ UNCHANGED contexts
             \/ UNCHANGED allVars
      PROVE  Stays(w) /\ scope'[w] = scope[w]
  <2>1. Environment \/ UNCHANGED vars
    BY <1>5 DEF ContextLaunch, ContextRequestRollback, OtherEvents, Environment, allVars
  <2>2. scope' = scope
    BY <1>5 DEF ContextLaunch, ContextRequestRollback, contexts, allVars
  <2> QED
    BY <2>1, <2>2, NobodyMoves
<1>6. Stays(w) => pc[w] = "running"
  BY DEF Stays
<1> QED
  BY <1>2, <1>3, <1>4, <1>5, <1>6 DEF ContextNext

\* What a run resumes from is its message's context, or what its runner had.
LEMMA OwnStep ==
    ASSUME ContextInv, [ContextNext]_allVars, NEW r \in Run
    PROVE  \/ own'[r] = own[r] /\ (r \in seen' => r \in seen)
           \/ r \in seen' \ seen /\ own'[r] = emittedWith[r[1]]
           \/ \E w \in Worker :
                /\ pc[w] = "running" /\ pick[w] = r
                /\ own'[r] \in {Written(scope[w]),
                                Written(AfterStep(pick[w], plan[w], scope[w]))}
<1>1. DOMAIN own = Run
  BY DEF ContextInv, RowsOK
<1>2. ASSUME NEW w \in Worker, ContextReconcileCommit(w)
      PROVE  \/ own'[r] = own[r] /\ (r \in seen' => r \in seen)
             \/ r \in seen' \ seen /\ own'[r] = emittedWith[r[1]]
  BY <1>2 DEF ContextReconcileCommit
<1>3. ASSUME NEW w \in Worker, own'[r] # own[r],
             ContextSuspend(w) \/ ContextUndoChildren(w) \/ ContextFinish(w) \/ ContextFail(w)
      PROVE  /\ pc[w] = "running" /\ pick[w] = r
             /\ own'[r] \in {Written(scope[w]),
                             Written(AfterStep(pick[w], plan[w], scope[w]))}
  <2>1. PICK row : own' = [own EXCEPT ![pick[w]] = row]
                   /\ row \in {Written(scope[w]),
                               Written(AfterStep(pick[w], plan[w], scope[w]))}
    BY <1>3 DEF ContextSuspend, ContextUndoChildren, ContextFinish, ContextFail, Keep
  <2>2. pc[w] = "running"
    BY <1>3 DEF ContextSuspend, ContextUndoChildren, ContextFinish, ContextFail,
                Suspend, UndoChildren, Finish, Fail
  <2>3. pick[w] = r /\ own'[r] = row
    BY <1>1, <1>3, <2>1
  <2> QED
    BY <2>1, <2>2, <2>3
<1>4. \/ UNCHANGED own
      \/ \E w \in Worker :
            \/ ContextReconcileCommit(w) \/ ContextSuspend(w) \/ ContextUndoChildren(w)
            \/ ContextFinish(w) \/ ContextFail(w)
  BY DEF ContextNext, ContextClaim, ContextCrash, ContextLaunch, ContextRequestRollback,
         rows, contexts, allVars
<1>5. UNCHANGED seen \/ \E w \in Worker : ContextReconcileCommit(w)
  BY DEF ContextNext, ContextClaim, ContextSuspend, ContextUndoChildren, ContextFinish,
         ContextFail, ContextCrash, ContextLaunch, ContextRequestRollback, OtherSteps,
         OtherEvents, allVars, vars, log, ReconcileBegin, ReconcileLock, Select, Claim,
         LosePick, Suspend, UndoChildren, Finish, Fail, Abort, Crash, Launch, Cancel,
         AskRollback, RequestRollback, WithdrawRollback, Expire
<1> QED
  BY <1>2, <1>3, <1>4, <1>5

-----------------------------------------------------------------------------
\* The earliest deadline wins.

\* Every limit on the tree of a scope is one that some launch asked for.
LEMMA LimitsAreRows ==
    ASSUME RowsOK, NEW s, NEW limits \in TreeLimits(s)
    PROVE  IsRow(limits)
BY DEF TreeLimits, RootMessage, RowsOK

\* Once the roots of its trees are launched the limits on a scope are settled.
LEMMA LimitsKept ==
    ASSUME ContextInv, [ContextNext]_allVars, NEW s, Rooted(s)
    PROVE  TreeLimits(s)' = TreeLimits(s) /\ Rooted(s)'
<1>1. emitted \subseteq emitted'
  BY ContextStep, EmittedWritten
     DEF ContextInv, UndoneInv, OutcomeInv, RunnerInv, CompensationInv
<1>2. \A n \in {m \in RootMessage : RootScope(m) \in Lineage[s]} :
        n \in Message \cap emitted
  BY DEF Rooted, RootMessage
<1>3. \A n \in {m \in RootMessage : RootScope(m) \in Lineage[s]} : asked'[n] = asked[n]
  BY <1>2, LaunchStep
<1> QED
  BY <1>1, <1>3 DEF TreeLimits, Rooted

Bounded(row, s) ==
    Rooted(s) /\ \A limits \in TreeLimits(s) : NoLaterThan(row, limits)

\* A row that lacks the deadlines, or has none that is later.
Within(row, s) ==
    \/ DOMAIN row = {}
    \/ Rooted(s) /\ \A limits \in TreeLimits(s) : WhereSet(row, limits)

LEMMA StillBounded ==
    ASSUME ContextInv, [ContextNext]_allVars, NEW s, NEW row
    PROVE  /\ Bounded(row, s) => Bounded(row, s)'
           /\ Within(row, s) => Within(row, s)'
BY LimitsKept DEF Bounded, Within, NoLaterThan, WhereSet

\* The deadlines of a continuation are in what it read of its own rows ...
ScopesBounded ==
    \A w \in Worker : pc[w] = "running" =>
        ReadOnly(scope[w]) /\ Bounded(scope[w].ser, pick[w])

\* ... so they are in what it launches and in the rows it leaves; and a rollback
\* trigger brings along none that is later, or none at all.
RowsBounded == \A r \in seen : Bounded(own[r], r)

LaunchesBounded ==
    \A m \in emitted :
        NoLaterThan(emittedWith[m], asked[m]) /\ Bounded(emittedWith[m], EmittingScope(m))

TriggersBounded ==
    /\ \A m \in Message : Within(requestedWith[m], EmittingScope(m))
    /\ \A r \in Run : Within(trigger[r], r)

DeadlineInv ==
    /\ ContextInv /\ Recorded /\ RootsLaunched
    /\ ScopesBounded /\ RowsBounded /\ LaunchesBounded /\ TriggersBounded

LEMMA EarliestFromInv == DeadlineInv => EarliestDeadlineWins
BY DEF DeadlineInv, RowsBounded, LaunchesBounded, Bounded, EarliestDeadlineWins

LEMMA RunnerSeen ==
    ASSUME ContextInv, NEW w \in Worker, pc[w] = "running"
    PROVE  pick[w] \in Run /\ pick[w] \in seen
BY DEF ContextInv, UndoneInv, OutcomeInv, RunnerInv, CompensationInv, TypeOK, RunnersFit, Fits

LEMMA ScopesBoundedStep ==
    ASSUME DeadlineInv, [ContextNext]_allVars
    PROVE  ScopesBounded'
<1> SUFFICES ASSUME NEW w \in Worker, pc'[w] = "running"
             PROVE  (ReadOnly(scope[w]) /\ Bounded(scope[w].ser, pick[w]))'
  BY DEF ScopesBounded
<1>1. CASE ContextClaim(w) /\ pc[w] = "selected"
  <2>0. CompensationInv /\ Claim(w)
    BY <1>1 DEF ContextClaim, DeadlineInv, ContextInv, UndoneInv, OutcomeInv, RunnerInv
  <2>1. PICK r : r = pick[w]
    OBVIOUS
  <2>2. pick'[w] = r /\ scope'[w] = Loaded(r)
    BY <1>1, <2>1 DEF ContextClaim, Claim, DeadlineInv, ContextInv, ScopesOK
  <2>3. r \in Run /\ r \in seen
    BY <2>0, <2>1, Claimed DEF Candidate
  <2>4. Bounded(own[r], r) /\ Within(trigger[r], r)
    BY <2>3 DEF DeadlineInv, RowsBounded, TriggersBounded
  <2>5. PICK ctx : ctx = Loaded(r)
    OBVIOUS
  <2>6. ReadOnly(ctx)
    BY <2>3, <2>5, LoadedContext, LoadedReadOnly
       DEF ReadOnly, DeadlineInv, ContextInv, RowsOK
  <2>7. Bounded(ctx.ser, r)
    <3>1. \A limits \in TreeLimits(r) : WhereSet(trigger[r], limits)
      BY <2>4 DEF Within, WhereSet
    <3> QED
      BY <2>3, <2>4, <2>5, <3>1, LoadedLimits DEF Bounded
  <2>8. Bounded(ctx.ser, r)'
    BY <2>7, StillBounded DEF DeadlineInv
  <2> QED
    BY <2>2, <2>5, <2>6, <2>8
<1>2. CASE pc[w] = "running" /\ Stays(w) /\ scope'[w] = scope[w]
  <2>1. PICK r, ctx : r = pick[w] /\ ctx = scope[w]
    OBVIOUS
  <2>2. pick'[w] = r /\ scope'[w] = ctx
    BY <1>2, <2>1 DEF Stays
  <2>3. ReadOnly(ctx) /\ Bounded(ctx.ser, r)
    BY <1>2, <2>1 DEF DeadlineInv, ScopesBounded
  <2>4. Bounded(ctx.ser, r)'
    BY <2>3, StillBounded DEF DeadlineInv
  <2> QED
    BY <2>2, <2>3, <2>4
<1> QED
  BY <1>1, <1>2, ScopeKept DEF DeadlineInv

\* What a runner's scope writes is bounded by what its run is.
LEMMA ScopeWrites ==
    ASSUME DeadlineInv, NEW w \in Worker, pc[w] = "running"
    PROVE  LET after == AfterStep(pick[w], plan[w], scope[w]) IN
           /\ Bounded(Written(scope[w]), pick[w]) /\ Bounded(Written(after), pick[w])
           /\ ReadOnly(after) /\ Bounded(after.ser, pick[w])
<1>1. PICK r, ctx, after : /\ r = pick[w] /\ ctx = scope[w]
                           /\ after = AfterStep(pick[w], plan[w], ctx)
  OBVIOUS
<1>2. ReadOnly(ctx) /\ Bounded(ctx.ser, r)
  BY <1>1 DEF DeadlineInv, ScopesBounded
<1>3. ReadOnly(after) /\ Bounded(after.ser, r)
  BY <1>1, <1>2, AfterStepLimits DEF Bounded, DeadlineInv
<1> QED
  BY <1>1, <1>2, <1>3, WrittenReadOnly DEF Bounded

LEMMA RowsBoundedStep ==
    ASSUME DeadlineInv, [ContextNext]_allVars
    PROVE  RowsBounded'
<1>1. /\ ContextInv /\ RunnerInv /\ TypeOK /\ TypeOK' /\ Recorded /\ [Next]_vars
      /\ RowsBounded /\ LaunchesBounded
  BY ContextStep, TypesInductive
     DEF DeadlineInv, ContextInv, UndoneInv, OutcomeInv, RunnerInv, CompensationInv
<1> SUFFICES ASSUME NEW r \in seen', r \in Run
             PROVE  Bounded(own[r], r)'
  BY <1>1 DEF RowsBounded, TypeOK, LogTypeOK
<1>2. CASE r \in seen /\ own'[r] = own[r]
  <2>1. PICK row : row = own[r]
    OBVIOUS
  <2>2. Bounded(row, r)'
    BY <1>1, <1>2, <2>1, StillBounded DEF RowsBounded
  <2> QED
    BY <1>2, <2>1, <2>2
<1>3. CASE r \in seen' \ seen /\ own'[r] = emittedWith[r[1]]
  <2>1. PICK row, s : row = emittedWith[r[1]] /\ s = EmittingScope(r[1])
    OBVIOUS
  <2>2. r[1] \in emitted
    BY <1>1, <1>3, SeenWritten DEF Recorded
  <2>3. Bounded(row, s)
    BY <1>1, <2>1, <2>2 DEF LaunchesBounded
  <2>4. Bounded(row, r)
    BY <2>1, <2>3, LimitsBelow, LineageUp, RootIsNoRun, RootLineage DEF Bounded, Rooted
  <2>5. Bounded(row, r)'
    BY <1>1, <2>4, StillBounded
  <2> QED
    BY <1>3, <2>1, <2>5
<1>4. ASSUME NEW w \in Worker, pc[w] = "running", pick[w] = r,
             own'[r] \in {Written(scope[w]), Written(AfterStep(pick[w], plan[w], scope[w]))}
      PROVE  Bounded(own[r], r)'
  <2>1. PICK row : row = own'[r]
    OBVIOUS
  <2>2. Bounded(row, r)
    BY <1>4, <2>1, ScopeWrites
  <2>3. Bounded(row, r)'
    BY <1>1, <2>2, StillBounded
  <2> QED
    BY <2>1, <2>3
<1> QED
  BY <1>1, <1>2, <1>3, <1>4, OwnStep

LEMMA LaunchesBoundedStep ==
    ASSUME ElementsOnly, DeadlineInv, [ContextNext]_allVars
    PROVE  LaunchesBounded'
<1>1. /\ ContextInv /\ TypeOK /\ TypeOK' /\ Recorded /\ RootsLaunched /\ LaunchesBounded
      /\ emitted \subseteq emitted' /\ RowsOK'
  BY ContextStep, TypesInductive, EmittedWritten, RowsStep
     DEF DeadlineInv, ContextInv, UndoneInv, OutcomeInv, RunnerInv, CompensationInv
<1> SUFFICES ASSUME NEW m \in emitted', m \in Message
             PROVE  (/\ NoLaterThan(emittedWith[m], asked[m])
                     /\ Bounded(emittedWith[m], EmittingScope(m)))'
  BY <1>1 DEF LaunchesBounded, TypeOK, LogTypeOK
<1>2. PICK s : s = EmittingScope(m)
  OBVIOUS
<1>3. CASE m \in emitted
  <2>1. PICK row, limits : row = emittedWith[m] /\ limits = asked[m]
    OBVIOUS
  <2>2. emittedWith'[m] = row /\ asked'[m] = limits
    BY <1>1, <1>3, <2>1, LaunchStep
  <2>3. NoLaterThan(row, limits) /\ Bounded(row, s)
    BY <1>1, <1>2, <1>3, <2>1 DEF LaunchesBounded
  <2>4. Bounded(row, s)'
    BY <1>1, <2>3, StillBounded
  <2> QED
    BY <1>2, <2>2, <2>3, <2>4
<1>4. CASE m \notin emitted
  <2>1. PICK ctx : \E a \in Additions[m] :
          /\ emittedWith'[m] = Written(Plus(ctx, a)) /\ asked'[m] = a.entries
          /\ \/ ctx = EmptyContext /\ m \in RootMessage
             \/ \E w \in Worker : LauncherOf(w, m, ctx)
    BY <1>1, <1>4, LaunchStep
  <2>2. PICK a \in Additions[m] :
          /\ emittedWith'[m] = Written(Plus(ctx, a)) /\ asked'[m] = a.entries
          /\ \/ ctx = EmptyContext /\ m \in RootMessage
             \/ \E w \in Worker : LauncherOf(w, m, ctx)
    BY <2>1
  <2>3. PICK row, limits : row = Written(Plus(ctx, a)) /\ limits = a.entries
    OBVIOUS
  <2>4. CASE ctx = EmptyContext /\ m \in RootMessage
    <3>2. NoLaterThan(row, limits)
      BY <2>3, <2>4, PlusToEmptyLimits
    <3>3. s = RootScope(m)
      BY <1>2, <2>4 DEF EmittingScope, RootMessage
    <3>4. \A n \in RootMessage : RootScope(n) \in Lineage[s] => n = m
      BY <2>4, <3>3, RootLineage DEF RootScope
    <3>5. Rooted(s)'
      BY <3>4 DEF Rooted
    <3>6. \A other \in TreeLimits(s)' : other = limits
      BY <2>2, <2>3, <3>4 DEF TreeLimits
    <3> QED
      BY <1>2, <2>2, <2>3, <3>2, <3>5, <3>6 DEF Bounded
  <2>5. ASSUME NEW w \in Worker, LauncherOf(w, m, ctx)
        PROVE  NoLaterThan(row, limits) /\ Bounded(row, s)
    <3>1. ReadOnly(ctx) /\ Bounded(ctx.ser, pick[w]) /\ pick[w] \in Run /\ s = pick[w]
      <4>1. pc[w] = "running" /\ Emitter[m] = pick[w] /\ pick[w] \in Run
        BY <1>1, <2>5, RunnerSeen DEF LauncherOf
      <4>2. s = pick[w]
        BY <1>2, <4>1, TreeTypes DEF EmittingScope
      <4> QED
        BY <2>5, <4>1, <4>2, ScopeWrites DEF LauncherOf
    <3>2. /\ \A other \in TreeLimits(s) : IsRow(other)
          /\ m \in Message \ RootMessage
      BY <1>1, <2>5, <3>1, LimitsAreRows, TreeTypes DEF ContextInv, LauncherOf, RootMessage
    <3> QED
      BY <2>3, <3>1, <3>2, PlusLimits DEF Bounded
  <2>6. Bounded(row, s) => Bounded(row, s)'
    BY <1>1, StillBounded
  <2> QED
    BY <1>2, <2>2, <2>3, <2>4, <2>5, <2>6
<1> QED
  BY <1>3, <1>4

\* A tick that compensates requests the rollback of what its own run launched.
LEMMA RequestedOwn ==
    ASSUME ContextInv, NEW w \in Worker, UndoChildren(w),
           NEW m \in ticks[pick[w]][plan[w].step[2]].emits
    PROVE  Emitter[m] = pick[w]
<1>1. PICK r, i : r = pick[w] /\ i = plan[w].step[2]
  OBVIOUS
<1>2. r \in Run /\ TicksOwned /\ Ranged /\ RunnersMode
  BY <1>1 DEF UndoChildren, ContextInv, UndoneInv, OutcomeInv, RunnerInv, CompensationInv, TypeOK
<1>3. i \in Originals(r)
  BY <1>1, <1>2 DEF UndoChildren, Ranged, InRange, RunnersMode, Sentinel
<1>4. i \in DOMAIN ticks[r]
  BY <1>3 DEF Originals
<1> QED
  BY <1>1, <1>2, <1>4 DEF TicksOwned, TickOwned, EmittedBy

LEMMA TriggersBoundedStep ==
    ASSUME DeadlineInv, [ContextNext]_allVars
    PROVE  TriggersBounded'
<1>1. ContextInv /\ TriggersBounded
  BY DEF DeadlineInv
<1>2. ASSUME NEW m \in Message
      PROVE  Within(requestedWith[m], EmittingScope(m))'
  <2>1. PICK s : s = EmittingScope(m)
    OBVIOUS
  <2>2. CASE requestedWith'[m] = requestedWith[m]
    <3>1. PICK row : row = requestedWith[m]
      OBVIOUS
    <3>2. Within(row, s)'
      BY <1>1, <1>2, <2>1, <3>1, StillBounded DEF TriggersBounded
    <3> QED
      BY <2>1, <2>2, <3>1, <3>2
  <2>3. CASE requestedWith'[m] = NoEntries
    BY <2>3, EmptyRow DEF Within
  <2>4. ASSUME NEW w \in Worker, ContextUndoChildren(w), requestedWith'[m] # requestedWith[m]
        PROVE  Within(requestedWith[m], EmittingScope(m))'
    <3>1. PICK row : row = Written(scope[w])
      OBVIOUS
    <3>2. requestedWith'[m] = row /\ requested'[m] # requested[m] /\ UndoChildren(w)
      BY <1>2, <2>4, <3>1 DEF ContextUndoChildren
    <3>3. m \in ticks[pick[w]][plan[w].step[2]].emits /\ pc[w] = "running"
      BY <1>2, <3>2 DEF UndoChildren
    <3>4. pick[w] \in Run /\ Emitter[m] = pick[w]
      BY <1>1, <3>2, <3>3, RequestedOwn, RunnerSeen
    <3>5. s = pick[w]
      BY <2>1, <3>4, TreeTypes DEF EmittingScope
    <3>6. Bounded(row, s)
      BY <3>1, <3>3, <3>5, ScopeWrites
    <3>7. Within(row, s)
      BY <3>6 DEF Bounded, Within, NoLaterThan, WhereSet
    <3>8. Within(row, s)'
      BY <1>1, <3>7, StillBounded
    <3> QED
      BY <2>1, <3>2, <3>8
  <2>5. ASSUME NEW c \in Scope, ContextRequestRollback(c)
        PROVE  requestedWith'[m] \in {requestedWith[m], NoEntries}
    BY <1>2, <2>5 DEF ContextRequestRollback
  <2>6. \/ UNCHANGED requestedWith
        \/ \E w \in Worker : ContextUndoChildren(w)
        \/ \E c \in Scope : ContextRequestRollback(c)
    BY DEF ContextNext, ContextReconcileCommit, ContextClaim, ContextSuspend, ContextFinish,
           ContextFail, ContextCrash, ContextLaunch, rows, contexts, allVars
  <2> QED
    BY <2>2, <2>3, <2>4, <2>5, <2>6
<1>3. ASSUME NEW r \in Run
      PROVE  Within(trigger[r], r)'
  <2>1. r[1] \in Message
    BY TreeTypes
  <2>2. PICK row : row = trigger'[r]
    OBVIOUS
  <2>3. row \in {trigger[r], requestedWith[r[1]]}
    <3>1. ASSUME NEW w \in Worker, ContextReconcileCommit(w)
          PROVE  trigger'[r] \in {trigger[r], requestedWith[r[1]]}
      BY <3>1 DEF ContextReconcileCommit
    <3>2. UNCHANGED trigger \/ \E w \in Worker : ContextReconcileCommit(w)
      BY DEF ContextNext, ContextClaim, ContextSuspend, ContextUndoChildren, Keep, rows,
             ContextFinish, ContextFail, ContextCrash, ContextLaunch, ContextRequestRollback,
             allVars, contexts
    <3> QED
      BY <2>2, <3>1, <3>2
  <2>4. Within(requestedWith[r[1]], EmittingScope(r[1]))
    BY <1>1, <2>1 DEF TriggersBounded
  <2>5. Within(requestedWith[r[1]], r)
    BY <2>4, LimitsBelow, LineageUp, RootIsNoRun, RootLineage DEF Within, Rooted
  <2>6. Within(row, r)
    BY <1>1, <2>3, <2>5 DEF TriggersBounded
  <2>7. Within(row, r)'
    BY <1>1, <2>6, StillBounded
  <2> QED
    BY <2>2, <2>7
<1> QED
  BY <1>2, <1>3 DEF TriggersBounded

LEMMA DeadlineInductive ==
    ASSUME ElementsOnly, DeadlineInv, [ContextNext]_allVars
    PROVE  DeadlineInv'
<1>1. /\ [Next]_vars /\ ContextInv /\ Recorded /\ RootsLaunched
      /\ RunnerInv /\ TypeOK
  BY ContextStep DEF DeadlineInv, ContextInv, UndoneInv, OutcomeInv, RunnerInv, CompensationInv
<1>2. ContextInv' /\ Recorded' /\ RootsLaunched'
  BY <1>1, ContextInductive, RecordedStep, RootsLaunchedStep
<1> QED
  BY <1>2, ScopesBoundedStep, RowsBoundedStep, LaunchesBoundedStep, TriggersBoundedStep
     DEF DeadlineInv

LEMMA DeadlineInitially == Init /\ ContextInit => DeadlineInv
<1> SUFFICES ASSUME Init, ContextInit
             PROVE  DeadlineInv
  OBVIOUS
<1>1. emitted = {} /\ seen = {} /\ \A w \in Worker : pc[w] = "idle" /\ snapshot[w].starts = {}
  BY DEF Init, LogInit, NoSnapshot
<1>2. ContextInv /\ Recorded /\ RootsLaunched /\ ScopesBounded /\ RowsBounded /\ LaunchesBounded
  BY <1>1, ContextInitially
     DEF Recorded, RootsLaunched, ScopesBounded, RowsBounded, LaunchesBounded
<1>3. TriggersBounded
  BY EmptyRow, TreeTypes DEF TriggersBounded, Within, ContextInit
<1> QED
  BY <1>2, <1>3 DEF DeadlineInv

\* Whoever launches what from where, and whatever rows a run resumes from on the
\* way - its own, or one that a rollback trigger wrote from its parent's context -
\* no message is sent and no run goes on with a deadline that is later than its
\* launch asked for, or than the client put on its tree (Deadline.ts: the earliest
\* deadline wins).  A handler is assumed to add its deadline as an element, as the
\* library's own calls do: added inside a CooperationContextMap it would stay in the
\* map of deserialized elements, where a serialized deadline of its key hides it
\* from the row that is written (CooperationContextMap.plus, fold).
THEOREM EarliestWins ==
    ASSUME ElementsOnly
    PROVE  ContextSpec => []EarliestDeadlineWins
BY DeadlineInductive, DeadlineInitially, EarliestFromInv, PTL DEF ContextSpec
=============================================================================
