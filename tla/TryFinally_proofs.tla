-------------------------- MODULE TryFinally_proofs --------------------------
(***************************************************************************)
(* tryFinallyStep: its finally block takes effect once in every run that   *)
(* comes to its end, for every hierarchy in which no saga with a           *)
(* tryFinallyStep runs below another one, whoever throws, crashes or is    *)
(* rolled back.                                                            *)
(***************************************************************************)
EXTENDS ScopeContext_proofs, EventLoopRollback_proofs

-----------------------------------------------------------------------------
\* What a context says of the blocks that ran.

BlocksIn(row) == IF FinallyKey \in DOMAIN row THEN row[FinallyKey] ELSE {}

Unmarked(row) == FinallyKey \notin DOMAIN row

UnmarkedContext(ctx) == Unmarked(ctx.ser) /\ Unmarked(ctx.des)

LEMMA NoBlocksInUnmarked ==
    ASSUME NEW row, Unmarked(row)
    PROVE  BlocksIn(row) = {}
BY DEF Unmarked, BlocksIn

LEMMA EmptyUnmarked == Unmarked(NoEntries) /\ UnmarkedContext(EmptyContext)
BY EmptyRow, Halves DEF EmptyContext, Unmarked, UnmarkedContext

LEMMA WrittenUnmarked ==
    ASSUME NEW ctx, UnmarkedContext(ctx)
    PROVE  Unmarked(Written(ctx))
BY WrittenDeadlines DEF Unmarked, UnmarkedContext

\* No launch adds a list of blocks.
LEMMA PlusUnmarked ==
    ASSUME NEW ctx, UnmarkedContext(ctx), NEW m \in Message, NEW a \in Additions[m]
    PROVE  UnmarkedContext(Plus(ctx, a))
<1>1. /\ FinallyKey \notin DOMAIN a.entries
      /\ ~a.map => \E k \in Key : DOMAIN a.entries = {k}
  BY ScopeContextAssumption
<1>2. PICK sum : sum = Plus(ctx, a)
  OBVIOUS
<1>3. CASE a.map
  <2>1. sum.ser = Overwritten(ctx.ser, NoEntries)
    BY <1>2, <1>3, Halves DEF Plus, PlusMap, Built
  <2>2. DOMAIN sum.des = DOMAIN ctx.des \cup DOMAIN a.entries
    BY <1>2, <1>3, Halves DEF Plus, PlusMap, Built
  <2>3. DOMAIN sum.ser = DOMAIN ctx.ser
    BY <2>1, EmptyRow DEF Overwritten
  <2> QED
    BY <1>1, <1>2, <2>2, <2>3 DEF Unmarked, UnmarkedContext
<1>4. CASE ~a.map
  <2>1. PICK k \in Key : DOMAIN a.entries = {k}
    BY <1>1, <1>4
  <2>2. (CHOOSE j \in Key : DOMAIN a.entries = {j}) = k
    BY <2>1
  <2>3. PICK v : sum = PlusElement(ctx, k, v)
    BY <1>2, <1>4, <2>2 DEF Plus
  <2>4. PICK value, one : /\ value = IF Has(ctx, k) THEN Combined(k, Get(ctx, k), v) ELSE v
                          /\ one = [j \in {k} |-> value]
    OBVIOUS
  <2>5. /\ sum.ser = Without(ctx.ser, k)
        /\ sum.des = Overwritten(Without(ctx.des, k), one)
    BY <2>3, <2>4, Halves DEF PlusElement, Minus
  <2>6. DOMAIN sum.ser \subseteq DOMAIN ctx.ser /\ DOMAIN sum.des \subseteq DOMAIN ctx.des \cup {k}
    BY <2>4, <2>5 DEF Overwritten, Without
  <2> QED
    BY <1>1, <1>2, <2>1, <2>6 DEF Unmarked, UnmarkedContext
<1> QED
  BY <1>3, <1>4

LEMMA LoadedUnmarked ==
    ASSUME NEW r, Unmarked(own[r]), Unmarked(trigger[r])
    PROVE  UnmarkedContext(Loaded(r))
<1>1. PICK one, two : one = Read(own[r]) /\ two = Read(trigger[r])
  OBVIOUS
<1>2. /\ one.ser = own[r] /\ one.des = NoEntries
      /\ two.ser = trigger[r] /\ two.des = NoEntries
  BY <1>1, Halves DEF Read
<1>3. UnmarkedContext(one) /\ UnmarkedContext(two)
  BY <1>2, EmptyUnmarked DEF UnmarkedContext
<1>4. PICK sum : sum = PlusMap(one, two)
  OBVIOUS
<1>5. sum.ser = Overwritten(one.ser, two.ser) /\ DOMAIN sum.des = DOMAIN one.des \cup DOMAIN two.des
  BY <1>4, Halves DEF PlusMap
<1>6. UnmarkedContext(sum)
  BY <1>3, <1>5 DEF Overwritten, UnmarkedContext, Unmarked
<1> QED
  BY <1>1, <1>3, <1>4, <1>6 DEF Loaded

\* Of a run whose rollback is triggered, what it marked itself counts.
LEMMA LoadedBlocks ==
    ASSUME NEW r \in Run, Unmarked(trigger[r])
    PROVE  BlocksIn(Loaded(r).ser) = BlocksIn(own[r])
<1>1. CASE r \in triggered
  <2>1. Loaded(r).ser = Overwritten(own[r], trigger[r])
    BY <1>1, Halves DEF Loaded, PlusMap, Read
  <2>2. PICK f, g, h : f = own[r] /\ g = trigger[r] /\ h = Overwritten(f, g)
    OBVIOUS
  <2>3. /\ DOMAIN h = DOMAIN f \cup DOMAIN g
        /\ \A k \in DOMAIN f \ DOMAIN g : h[k] = f[k]
    BY <2>2 DEF Overwritten
  <2>4. BlocksIn(h) = BlocksIn(f)
    BY <2>2, <2>3 DEF Unmarked, BlocksIn
  <2> QED
    BY <2>1, <2>2, <2>4
<1>2. CASE r \notin triggered
  BY <1>2, Halves DEF Loaded, Read
<1> QED
  BY <1>1, <1>2

\* A step that ends in a block leaves it marked, whether it ran it or had run it.
LEMMA AfterStepBlocks ==
    ASSUME NEW r, NEW p, NEW ctx, DOMAIN ctx.des = {}
    PROVE  /\ BlocksIn(Written(ctx)) = BlocksIn(ctx.ser)
           /\ ~ReachesBlock(r, p) => AfterStep(r, p, ctx) = ctx
           /\ ReachesBlock(r, p) =>
                /\ BlocksIn(Written(AfterStep(r, p, ctx)))
                        = BlocksIn(ctx.ser) \cup {BlockOf(r, p)}
                /\ RunsBlock(r, p, ctx) <=> BlockOf(r, p) \notin BlocksIn(ctx.ser)
<1>1. PICK b : b = BlockOf(r, p)
  OBVIOUS
<1>2. BlocksIn(Written(ctx)) = BlocksIn(ctx.ser)
  <2>1. PICK row : row = Written(ctx)
    OBVIOUS
  <2>2. DOMAIN row = DOMAIN ctx.ser /\ \A k \in DOMAIN ctx.ser : row[k] = ctx.ser[k]
    BY <2>1, WrittenDeadlines
  <2> QED
    BY <2>1, <2>2 DEF BlocksIn
<1>3. FinallyRun(ctx, b) <=> b \in BlocksIn(ctx.ser)
  BY DEF FinallyRun, Has, Get, BlocksIn
<1>4. ASSUME ReachesBlock(r, p)
      PROVE  RunsBlock(r, p, ctx) <=> b \notin BlocksIn(ctx.ser)
  BY <1>1, <1>3, <1>4 DEF RunsBlock
<1>5. ASSUME ReachesBlock(r, p), RunsBlock(r, p, ctx)
      PROVE  BlocksIn(Written(AfterStep(r, p, ctx))) = BlocksIn(ctx.ser) \cup {b}
  <2>1. PICK value :
          value = IF Has(ctx, FinallyKey) THEN Combined(FinallyKey, Get(ctx, FinallyKey), {b})
                                          ELSE {b}
    OBVIOUS
  <2>2. value = BlocksIn(ctx.ser) \cup {b}
    BY <2>1, KeyAssumption DEF Has, Get, Combined, BlocksIn
  <2>3. PICK after : after = AfterStep(r, p, ctx)
    OBVIOUS
  <2>4. after = PlusElement(ctx, FinallyKey, {b})
    BY <1>1, <1>5, <2>3 DEF AfterStep, MarkFinallyRun
  <2>5. /\ after.ser = Without(ctx.ser, FinallyKey)
        /\ after.des = Overwritten(Without(ctx.des, FinallyKey), [j \in {FinallyKey} |-> value])
    BY <2>1, <2>4, Halves DEF PlusElement, Minus
  <2>6. PICK one : one = [j \in {FinallyKey} |-> value]
    OBVIOUS
  <2>7. FinallyKey \in DOMAIN after.des /\ after.des[FinallyKey] = value
    BY <2>5, <2>6 DEF Overwritten
  <2>8. FinallyKey \notin DOMAIN after.ser
    BY <2>5 DEF Without
  <2>9. PICK row : row = Written(after)
    OBVIOUS
  <2>10. FinallyKey \in DOMAIN row /\ row[FinallyKey] = value
    BY <2>7, <2>8, <2>9, WrittenDeadlines
  <2> QED
    BY <2>2, <2>3, <2>9, <2>10 DEF BlocksIn
<1>6. ASSUME ReachesBlock(r, p), ~RunsBlock(r, p, ctx)
      PROVE  BlocksIn(Written(AfterStep(r, p, ctx))) = BlocksIn(ctx.ser) \cup {b}
  <2>1. AfterStep(r, p, ctx) = ctx /\ b \in BlocksIn(ctx.ser)
    BY <1>4, <1>6 DEF AfterStep
  <2> QED
    BY <1>2, <2>1
<1>7. ~ReachesBlock(r, p) => AfterStep(r, p, ctx) = ctx
  BY DEF AfterStep, RunsBlock
<1> QED
  BY <1>1, <1>2, <1>4, <1>5, <1>6, <1>7

-----------------------------------------------------------------------------
\* No list of blocks comes down to a saga from above.

\* No saga on the way up from the scope has a tryFinallyStep.
Plain(s) == \A q \in Run \cap Lineage[s] : TrySteps(q[2]) = {}

\* A tryFinallyStep runs below no other: a rollback request carries the list of the
\* scope that makes it, and rolling_back_insert puts it in place of the run's own.
TryAlone == \A r \in Run : TrySteps(r[2]) # {} => Plain(EmittingScope(r[1]))

LEMMA PlainUp ==
    ASSUME NEW r \in Run
    PROVE  /\ Plain(r) => TrySteps(r[2]) = {} /\ Plain(EmittingScope(r[1]))
           /\ r \in Lineage[r]
<1>1. r \in Scope
  BY DEF Scope
<1>2. r \in Lineage[r]
  BY <1>1 DEF Lineage
<1>3. PICK s : s = EmittingScope(r[1])
  OBVIOUS
<1>4. \A q \in Run \cap Lineage[s] : q = r \/ q \in Lineage[r]
  <2>1. \A q \in Run : q \in Scope
    BY DEF Scope
  <2> QED
    BY <1>3, <2>1, LineageUp
<1> QED
  BY <1>2, <1>3, <1>4 DEF Plain

\* Contexts that reach no tryFinallyStep's run but its own hold no mark.
RowsUnmarked ==
    /\ \A r \in Run : Plain(r) \/ r \notin seen => Unmarked(own[r])
    /\ \A r \in Run : Plain(EmittingScope(r[1])) => Unmarked(trigger[r])

MessagesUnmarked ==
    \A m \in Message : Plain(EmittingScope(m)) =>
        Unmarked(emittedWith[m]) /\ Unmarked(requestedWith[m])

ScopesUnmarked ==
    \A w \in Worker : pc[w] = "running" =>
        /\ DOMAIN scope[w].des = {}
        /\ Plain(pick[w]) => Unmarked(scope[w].ser)

\* The inductive invariant of what is not marked.
UnmarkedInv ==
    /\ ContextInv /\ Recorded
    /\ RowsUnmarked /\ MessagesUnmarked /\ ScopesUnmarked

\* A run without a tryFinallyStep marks nothing.
LEMMA PlainWrites ==
    ASSUME ContextInv, ScopesUnmarked, NEW w \in Worker, pc[w] = "running", Plain(pick[w])
    PROVE  /\ AfterStep(pick[w], plan[w], scope[w]) = scope[w]
           /\ UnmarkedContext(scope[w]) /\ Unmarked(Written(scope[w]))
<1>1. pick[w] \in Run
  BY RunnerSeen
<1>2. TrySteps(pick[w][2]) = {}
  BY <1>1, PlainUp
<1>3. ~ReachesBlock(pick[w], plan[w])
  BY <1>2, BlockIsTryStep DEF ContextInv
<1>4. AfterStep(pick[w], plan[w], scope[w]) = scope[w]
  BY <1>3 DEF AfterStep, RunsBlock
<1>5. UnmarkedContext(scope[w])
  BY DEF ScopesUnmarked, UnmarkedContext, Unmarked
<1> QED
  BY <1>4, <1>5, WrittenUnmarked

LEMMA ScopesUnmarkedStep ==
    ASSUME UnmarkedInv, [ContextNext]_allVars
    PROVE  ScopesUnmarked'
<1> SUFFICES ASSUME NEW w \in Worker, pc'[w] = "running"
             PROVE  /\ DOMAIN scope'[w].des = {}
                    /\ Plain(pick'[w]) => Unmarked(scope'[w].ser)
  BY DEF ScopesUnmarked, Unmarked
<1>1. CASE ContextClaim(w) /\ pc[w] = "selected"
  <2>1. CompensationInv /\ Claim(w)
    BY <1>1 DEF ContextClaim, UnmarkedInv, ContextInv, UndoneInv, OutcomeInv, RunnerInv
  <2>2. PICK r, ctx : r = pick[w] /\ ctx = Loaded(r)
    OBVIOUS
  <2>3. r \in Run /\ pick'[w] = r
    BY <2>1, <2>2, Claimed
  <2>4. scope'[w] = ctx
    BY <1>1, <2>2 DEF ContextClaim, UnmarkedInv, ContextInv, ScopesOK
  <2>5. DOMAIN ctx.des = {}
    BY <2>2, <2>3, LoadedReadOnly
  <2>6. Plain(r) => Unmarked(ctx.ser)
    <3>1. Plain(r) => Unmarked(own[r]) /\ Unmarked(trigger[r])
      BY <2>3, PlainUp DEF UnmarkedInv, RowsUnmarked
    <3> QED
      BY <2>2, <3>1, LoadedUnmarked DEF UnmarkedContext
  <2> QED
    BY <2>3, <2>4, <2>5, <2>6
<1>2. CASE pc[w] = "running" /\ Stays(w) /\ scope'[w] = scope[w]
  BY <1>2 DEF Stays, UnmarkedInv, ScopesUnmarked
<1> QED
  BY <1>1, <1>2, ScopeKept DEF UnmarkedInv

LEMMA TriggerWritten ==
    ASSUME [ContextNext]_allVars, NEW r \in Run
    PROVE  trigger'[r] \in {trigger[r], requestedWith[r[1]]}
<1>1. ASSUME NEW w \in Worker, ContextReconcileCommit(w)
      PROVE  trigger'[r] \in {trigger[r], requestedWith[r[1]]}
  BY <1>1 DEF ContextReconcileCommit
<1>2. UNCHANGED trigger \/ \E w \in Worker : ContextReconcileCommit(w)
  BY DEF ContextNext, ContextClaim, ContextSuspend, ContextUndoChildren, Keep, rows,
         ContextFinish, ContextFail, ContextCrash, ContextLaunch, ContextRequestRollback,
         allVars, contexts
<1> QED
  BY <1>1, <1>2

LEMMA RowsUnmarkedStep ==
    ASSUME UnmarkedInv, [ContextNext]_allVars
    PROVE  RowsUnmarked'
<1>1. ContextInv /\ RowsUnmarked /\ MessagesUnmarked /\ ScopesUnmarked /\ [Next]_vars
  BY ContextStep DEF UnmarkedInv
<1>2. ASSUME NEW r \in Run, Plain(r) \/ r \notin seen'
      PROVE  Unmarked(own'[r])
  <2>1. CASE own'[r] = own[r] /\ (r \in seen' => r \in seen)
    <3>1. r \notin seen' => r \notin seen
      BY <1>1, SeenKept
    <3> QED
      BY <1>1, <1>2, <2>1, <3>1 DEF RowsUnmarked
  <2>2. CASE r \in seen' \ seen /\ own'[r] = emittedWith[r[1]]
    <3>1. Plain(EmittingScope(r[1])) /\ r[1] \in Message
      BY <1>2, <2>2, PlainUp, TreeTypes
    <3> QED
      BY <1>1, <2>2, <3>1 DEF MessagesUnmarked
  <2>3. ASSUME NEW w \in Worker, pc[w] = "running", pick[w] = r,
               own'[r] \in {Written(scope[w]), Written(AfterStep(pick[w], plan[w], scope[w]))}
        PROVE  Unmarked(own'[r])
    <3>1. Plain(r)
      BY <1>1, <1>2, <2>3, RunnerSeen, SeenKept
    <3> QED
      BY <1>1, <2>3, <3>1, PlainWrites
  <2> QED
    BY <1>1, <2>1, <2>2, <2>3, OwnStep
<1>3. ASSUME NEW r \in Run, Plain(EmittingScope(r[1]))
      PROVE  Unmarked(trigger'[r])
  <2>1. Unmarked(requestedWith[r[1]]) /\ Unmarked(trigger[r])
    BY <1>1, <1>3, TreeTypes DEF MessagesUnmarked, RowsUnmarked
  <2> QED
    BY <2>1, TriggerWritten
<1> QED
  BY <1>2, <1>3 DEF RowsUnmarked, Unmarked, Plain

LEMMA RequestedWritten ==
    ASSUME ContextInv, [ContextNext]_allVars, NEW m \in Message
    PROVE  \/ requestedWith'[m] \in {requestedWith[m], NoEntries}
           \/ \E w \in Worker : /\ pc[w] = "running" /\ Emitter[m] = pick[w]
                                /\ requestedWith'[m] = Written(scope[w])
<1>1. ASSUME NEW w \in Worker, ContextUndoChildren(w), requestedWith'[m] # requestedWith[m]
      PROVE  /\ pc[w] = "running" /\ Emitter[m] = pick[w]
             /\ requestedWith'[m] = Written(scope[w])
  <2>1. /\ requestedWith'[m] = Written(scope[w]) /\ requested'[m] # requested[m]
        /\ UndoChildren(w)
    BY <1>1 DEF ContextUndoChildren
  <2>2. m \in ticks[pick[w]][plan[w].step[2]].emits /\ pc[w] = "running"
    BY <2>1 DEF UndoChildren
  <2> QED
    BY <2>1, <2>2, RequestedOwn
<1>2. ASSUME NEW c \in Scope, ContextRequestRollback(c)
      PROVE  requestedWith'[m] \in {requestedWith[m], NoEntries}
  BY <1>2 DEF ContextRequestRollback
<1>3. \/ UNCHANGED requestedWith
      \/ \E w \in Worker : ContextUndoChildren(w)
      \/ \E c \in Scope : ContextRequestRollback(c)
  BY DEF ContextNext, ContextReconcileCommit, ContextClaim, ContextSuspend, ContextFinish,
         ContextFail, ContextCrash, ContextLaunch, rows, contexts, allVars
<1> QED
  BY <1>1, <1>2, <1>3

\* A message keeps the context it was launched with.
LEMMA EmittedWithWritten ==
    ASSUME [ContextNext]_allVars, NEW m \in Message, emittedWith'[m] # emittedWith[m]
    PROVE  m \in emitted' \ emitted
<1>1. ASSUME NEW ctx, LaunchedFrom(ctx)
      PROVE  m \in emitted' \ emitted
  <2>1. PICK launched : launched = emitted' \ emitted
    OBVIOUS
  <2>2. PICK a : emittedWith' = [n \in Message |->
                    IF n \in launched THEN Written(Plus(ctx, a[n])) ELSE emittedWith[n]]
    BY <1>1, <2>1 DEF LaunchedFrom
  <2> QED
    BY <2>1, <2>2
<1>2. UNCHANGED emittedWith \/ \E ctx : LaunchedFrom(ctx)
  BY DEF ContextNext, ContextReconcileCommit, ContextClaim, ContextSuspend,
         ContextUndoChildren, ContextFinish, ContextFail, ContextCrash, ContextLaunch,
         ContextRequestRollback, rows, contexts, allVars
<1> QED
  BY <1>1, <1>2

LEMMA MessagesUnmarkedStep ==
    ASSUME UnmarkedInv, [ContextNext]_allVars
    PROVE  MessagesUnmarked'
<1>1. ContextInv /\ MessagesUnmarked /\ ScopesUnmarked
  BY DEF UnmarkedInv
<1>2. ASSUME NEW w \in Worker, pc[w] = "running", NEW m \in Message, Emitter[m] = pick[w],
             Plain(EmittingScope(m))
      PROVE  Plain(pick[w])
  BY <1>1, <1>2, RunnerSeen, TreeTypes DEF EmittingScope
<1> SUFFICES ASSUME NEW m \in Message, Plain(EmittingScope(m))
             PROVE  Unmarked(emittedWith'[m]) /\ Unmarked(requestedWith'[m])
  BY DEF MessagesUnmarked, Unmarked, Plain
<1>3. Unmarked(emittedWith[m]) /\ Unmarked(requestedWith[m])
  BY <1>1 DEF MessagesUnmarked
<1>4. Unmarked(requestedWith'[m])
  <2>1. ASSUME NEW w \in Worker, pc[w] = "running", Emitter[m] = pick[w]
        PROVE  Unmarked(Written(scope[w]))
    BY <1>1, <1>2, <2>1, PlainWrites
  <2> QED
    BY <1>1, <1>3, <2>1, EmptyUnmarked, RequestedWritten
<1>5. Unmarked(emittedWith'[m])
  <2>1. CASE emittedWith'[m] = emittedWith[m]
    BY <1>3, <2>1
  <2>2. CASE emittedWith'[m] # emittedWith[m]
    <3>1. m \notin emitted /\ m \in emitted'
      BY <1>1, <2>2, LaunchStep, EmittedWithWritten
    <3>2. PICK ctx, a :
            /\ a \in Additions[m] /\ emittedWith'[m] = Written(Plus(ctx, a))
            /\ \/ ctx = EmptyContext
               \/ \E w \in Worker : LauncherOf(w, m, ctx)
      BY <1>1, <3>1, LaunchStep
    <3>3. ASSUME NEW w \in Worker, LauncherOf(w, m, ctx)
          PROVE  UnmarkedContext(ctx)
      BY <1>1, <1>2, <3>3, PlainWrites DEF LauncherOf
    <3>4. UnmarkedContext(ctx)
      BY <3>2, <3>3, EmptyUnmarked
    <3> QED
      BY <3>2, <3>4, PlusUnmarked, WrittenUnmarked
  <2> QED
    BY <2>1, <2>2
<1> QED
  BY <1>4, <1>5

LEMMA UnmarkedInductive ==
    ASSUME UnmarkedInv, [ContextNext]_allVars
    PROVE  UnmarkedInv'
<1>1. /\ [Next]_vars /\ ContextInv /\ Recorded /\ RunnerInv /\ TypeOK
  BY ContextStep DEF UnmarkedInv, ContextInv, UndoneInv, OutcomeInv, RunnerInv, CompensationInv
<1>2. ContextInv' /\ Recorded'
  BY <1>1, ContextInductive, RecordedStep
<1> QED
  BY <1>2, ScopesUnmarkedStep, RowsUnmarkedStep, MessagesUnmarkedStep DEF UnmarkedInv

LEMMA UnmarkedInitially == Init /\ ContextInit => UnmarkedInv
<1> SUFFICES ASSUME Init, ContextInit
             PROVE  UnmarkedInv
  OBVIOUS
<1>1. ContextInv /\ Recorded
  BY ContextInitially DEF Recorded, Init, LogInit, NoSnapshot
<1>2. RowsUnmarked /\ MessagesUnmarked
  BY EmptyUnmarked DEF RowsUnmarked, MessagesUnmarked, ContextInit
<1>3. ScopesUnmarked
  BY DEF ScopesUnmarked, Init
<1> QED
  BY <1>1, <1>2, <1>3 DEF UnmarkedInv

-----------------------------------------------------------------------------
\* What a run remembers of its blocks, and what became of them.

\* w leaves the run it executes with a new row of its own.
Leaves(w, r) ==
    /\ pc[w] = "running" /\ pc'[w] # "running" /\ pick[w] = r
    /\ \/ ContextSuspend(w)
       \/ own'[r] = Written(scope[w]) /\ blockRuns'[r] = blockRuns[r]
       \/ /\ ContextFail(w) /\ ~plan[w].doomed
          /\ "ROLLING_BACK" \in marks'[r] \ marks[r]
          /\ own'[r] = Written(AfterStep(r, plan[w], scope[w]))
          /\ blockRuns'[r] = blockRuns[r]

LEMMA OwnLeft ==
    ASSUME ContextInv, [ContextNext]_allVars, NEW r \in Run
    PROVE  \/ own'[r] = own[r] /\ blockRuns'[r] = blockRuns[r]
           \/ /\ r \in seen' \ seen
              /\ own'[r] = emittedWith[r[1]] /\ blockRuns'[r] = blockRuns[r]
           \/ \E w \in Worker : Leaves(w, r)
<1>1. DOMAIN own = Run /\ DOMAIN blockRuns = Run /\ pc \in [Worker -> PC]
  BY DEF ContextInv, RowsOK, BlockRunsOK, UndoneInv, OutcomeInv, RunnerInv, CompensationInv, TypeOK
<1>2. ASSUME NEW w \in Worker, ContextReconcileCommit(w)
      PROVE  \/ own'[r] = own[r] /\ blockRuns'[r] = blockRuns[r]
             \/ /\ r \in seen' \ seen
                /\ own'[r] = emittedWith[r[1]] /\ blockRuns'[r] = blockRuns[r]
  BY <1>2 DEF ContextReconcileCommit
<1>3. ASSUME NEW w \in Worker, ContextSuspend(w)
      PROVE  Leaves(w, r) \/ (own'[r] = own[r] /\ blockRuns'[r] = blockRuns[r])
  <2>1. CASE pick[w] = r
    <3>1. pc[w] = "running" /\ pc'[w] = "idle"
      BY <1>1, <1>3 DEF ContextSuspend, Suspend, ToIdle
    <3> QED
      BY <1>3, <2>1, <3>1 DEF Leaves
  <2>2. CASE pick[w] # r
    <3>1. PICK q, b, row : q = pick[w] /\ b = BlockOf(q, plan[w])
            /\ row = Written(AfterStep(q, plan[w], scope[w]))
      OBVIOUS
    <3>2. own' = [own EXCEPT ![q] = row]
      BY <1>3, <3>1 DEF ContextSuspend, Keep
    <3>3. \/ blockRuns' = blockRuns
          \/ blockRuns' = [blockRuns EXCEPT ![q][b] = @ + 1]
      BY <1>3, <3>1 DEF ContextSuspend
    <3> QED
      BY <1>1, <2>2, <3>1, <3>2, <3>3
  <2> QED
    BY <2>1, <2>2
<1>4. ASSUME NEW w \in Worker, ContextUndoChildren(w) \/ ContextFinish(w)
      PROVE  Leaves(w, r) \/ (own'[r] = own[r] /\ blockRuns'[r] = blockRuns[r])
  <2>1. pc[w] = "running" /\ blockRuns' = blockRuns
    BY <1>4 DEF ContextUndoChildren, ContextFinish, UndoChildren, Finish
  <2>2. own' = own \/ (Keep(pick[w], scope[w]) /\ pc'[w] = "idle")
    BY <1>1, <1>4 DEF ContextUndoChildren, ContextFinish, Finish, ToIdle
  <2> QED
    BY <1>1, <2>1, <2>2 DEF Keep, Leaves
<1>5. ASSUME NEW w \in Worker, ContextFail(w)
      PROVE  Leaves(w, r) \/ (own'[r] = own[r] /\ blockRuns'[r] = blockRuns[r])
  <2>1. pc[w] = "running" /\ pc'[w] = "aborting" /\ blockRuns' = blockRuns
    BY <1>1, <1>5 DEF ContextFail, Fail
  <2>2. PICK q, p : q = pick[w] /\ p = plan[w]
    OBVIOUS
  <2>3. \/ own' = own
        \/ /\ "ROLLING_BACK" \in marks'[q] \ marks[q]
           /\ Keep(q, IF p.doomed THEN scope[w] ELSE AfterStep(q, p, scope[w]))
    BY <1>5, <2>2 DEF ContextFail
  <2>4. CASE own' = own
    BY <2>1, <2>4
  <2>5. CASE /\ "ROLLING_BACK" \in marks'[q] \ marks[q] /\ p.doomed
             /\ Keep(q, scope[w])
    BY <1>1, <2>1, <2>2, <2>5 DEF Keep, Leaves
  <2>6. CASE /\ "ROLLING_BACK" \in marks'[q] \ marks[q] /\ ~p.doomed
             /\ Keep(q, AfterStep(q, p, scope[w]))
    BY <1>1, <1>5, <2>1, <2>2, <2>6 DEF Keep, Leaves
  <2> QED
    BY <2>3, <2>4, <2>5, <2>6
<1>6. \/ UNCHANGED <<own, blockRuns>>
      \/ \E w \in Worker :
            \/ ContextReconcileCommit(w) \/ ContextSuspend(w) \/ ContextUndoChildren(w)
            \/ ContextFinish(w) \/ ContextFail(w)
  BY DEF ContextNext, ContextClaim, ContextCrash, ContextLaunch, ContextRequestRollback,
         rows, contexts, allVars
<1> QED
  BY <1>2, <1>3, <1>4, <1>5, <1>6

\* A continuation remembers the blocks its run marked before.
ScopesRemember ==
    \A w \in Worker : pc[w] = "running" /\ TrySteps(pick[w][2]) # {} =>
        BlocksIn(scope[w].ser) = BlocksIn(own[pick[w]])

LEMMA ScopesRememberStep ==
    ASSUME TryAlone, UnmarkedInv, ScopesRemember, [ContextNext]_allVars
    PROVE  ScopesRemember'
<1>1. ContextInv /\ TypeOK /\ TypeOK' /\ OneHolder /\ CompensationInv
  BY ContextStep, TypesInductive
     DEF UnmarkedInv, ContextInv, UndoneInv, OutcomeInv, RunnerInv, CompensationInv, Locking
<1> SUFFICES ASSUME NEW w \in Worker, pc'[w] = "running", TrySteps(pick'[w][2]) # {}
             PROVE  BlocksIn(scope'[w].ser) = BlocksIn(own'[pick'[w]])
  BY DEF ScopesRemember, BlocksIn
<1>2. CASE ContextClaim(w) /\ pc[w] = "selected"
  <2>1. PICK r : r = pick[w]
    OBVIOUS
  <2>2. r \in Run /\ pick'[w] = r
    BY <1>1, <1>2, <2>1, Claimed DEF ContextClaim
  <2>3. scope'[w] = Loaded(r) /\ own' = own
    BY <1>1, <1>2, <2>1 DEF ContextClaim, ContextInv, ScopesOK, rows
  <2>4. Unmarked(trigger[r])
    BY <2>2 DEF TryAlone, UnmarkedInv, RowsUnmarked
  <2> QED
    BY <2>2, <2>3, <2>4, LoadedBlocks
<1>3. CASE pc[w] = "running" /\ Stays(w) /\ scope'[w] = scope[w]
  <2>1. PICK r : r = pick[w]
    OBVIOUS
  <2>2. r \in Run /\ r \in seen /\ pick'[w] = r
    BY <1>1, <1>3, <2>1, RunnerSeen DEF Stays
  <2>3. ASSUME NEW v \in Worker, Leaves(v, r)
        PROVE  FALSE
    <3>1. Holds(v, r) /\ Holds(w, r)
      BY <1>3, <2>1, <2>2, <2>3 DEF Leaves, Holds
    <3>2. v = w
      BY <1>1, <2>2, <3>1 DEF OneHolder
    <3> QED
      BY <2>3, <3>2 DEF Leaves
  <2>4. own'[r] = own[r]
    BY <1>1, <2>2, <2>3, OwnLeft
  <2> QED
    BY <1>3, <2>1, <2>2, <2>4 DEF ScopesRemember
<1> QED
  BY <1>1, <1>2, <1>3, ScopeKept

\* The marks of a run grow by the block its step ends in: if the step returns the
\* block ran, unless the mark was there; if it fails, nothing but cancelling the run
\* or its deadline made it.
Marked(w, r) ==
    LET b == BlockOf(r, plan[w])
    IN  /\ pc[w] = "running" /\ pick[w] = r /\ ReachesBlock(r, plan[w])
        /\ b \in TrySteps(r[2])
        /\ BlocksIn(own'[r]) = BlocksIn(own[r]) \cup {b}
        /\ \/ /\ b \notin BlocksIn(own[r])
              /\ blockRuns'[r] = [blockRuns[r] EXCEPT ![b] = @ + 1]
           \/ blockRuns'[r] = blockRuns[r] /\ b \in BlocksIn(own[r])
           \/ blockRuns'[r] = blockRuns[r] /\ GiveUpOnHappyPath(r)

LEMMA SuspendMarks ==
    ASSUME UnmarkedInv, ScopesRemember, NEW w \in Worker, ContextSuspend(w),
           TrySteps(pick[w][2]) # {}
    PROVE  \/ /\ ~ReachesBlock(pick[w], plan[w])
              /\ BlocksIn(own'[pick[w]]) = BlocksIn(own[pick[w]])
              /\ blockRuns'[pick[w]] = blockRuns[pick[w]]
           \/ Marked(w, pick[w])
<1>1. PICK r, p, ctx, b : r = pick[w] /\ p = plan[w] /\ ctx = scope[w] /\ b = BlockOf(r, p)
  OBVIOUS
<1>2. pc[w] = "running" /\ ContextInv
  BY DEF ContextSuspend, Suspend, UnmarkedInv
<1>3. r \in Run /\ DOMAIN own = Run /\ DOMAIN blockRuns = Run
  BY <1>1, <1>2, RunnerSeen DEF ContextInv, RowsOK, BlockRunsOK
<1>4. DOMAIN ctx.des = {} /\ BlocksIn(ctx.ser) = BlocksIn(own[r])
  BY <1>1, <1>2 DEF UnmarkedInv, ScopesUnmarked, ScopesRemember
<1>5. own'[r] = Written(AfterStep(r, p, ctx))
  BY <1>1, <1>3 DEF ContextSuspend, Keep
<1>6. blockRuns' = IF RunsBlock(r, p, ctx) THEN [blockRuns EXCEPT ![r][b] = @ + 1]
                                           ELSE blockRuns
  BY <1>1 DEF ContextSuspend
<1>7. CASE ~ReachesBlock(r, p)
  <2>1. AfterStep(r, p, ctx) = ctx
    BY <1>4, <1>7, AfterStepBlocks
  <2>2. BlocksIn(own'[r]) = BlocksIn(own[r])
    BY <1>4, <1>5, <2>1, AfterStepBlocks
  <2>3. ~RunsBlock(r, p, ctx)
    BY <1>7 DEF RunsBlock
  <2> QED
    BY <1>1, <1>6, <1>7, <2>2, <2>3
<1>8. CASE ReachesBlock(r, p)
  <2>1. /\ BlocksIn(own'[r]) = BlocksIn(own[r]) \cup {b}
        /\ RunsBlock(r, p, ctx) <=> b \notin BlocksIn(own[r])
    BY <1>1, <1>4, <1>5, <1>8, AfterStepBlocks
  <2>2. b \in TrySteps(r[2])
    BY <1>1, <1>2, <1>8, BlockIsTryStep DEF ContextInv
  <2>3. \/ b \notin BlocksIn(own[r]) /\ blockRuns'[r] = [blockRuns[r] EXCEPT ![b] = @ + 1]
        \/ blockRuns'[r] = blockRuns[r] /\ b \in BlocksIn(own[r])
    BY <1>3, <1>6, <2>1
  <2>4. Marked(w, r)
    BY <1>1, <1>2, <1>8, <2>1, <2>2, <2>3 DEF Marked
  <2> QED
    BY <1>1, <2>4
<1> QED
  BY <1>7, <1>8

LEMMA FailMarks ==
    ASSUME "finally" \notin ThrowingKinds, UnmarkedInv, ScopesRemember, NEW w \in Worker,
           Leaves(w, pick[w]), ContextFail(w), ~plan[w].doomed, TrySteps(pick[w][2]) # {},
           "ROLLING_BACK" \in marks'[pick[w]] \ marks[pick[w]],
           own'[pick[w]] = Written(AfterStep(pick[w], plan[w], scope[w])),
           blockRuns'[pick[w]] = blockRuns[pick[w]]
    PROVE  \/ BlocksIn(own'[pick[w]]) = BlocksIn(own[pick[w]])
           \/ Marked(w, pick[w])
<1>1. PICK r, p, ctx, b : r = pick[w] /\ p = plan[w] /\ ctx = scope[w] /\ b = BlockOf(r, p)
  OBVIOUS
<1>2. pc[w] = "running" /\ ContextInv /\ TypeOK /\ RunnersFit /\ RunnersMode
  BY DEF Leaves, UnmarkedInv, ContextInv, UndoneInv, OutcomeInv, RunnerInv, CompensationInv
<1>3. r \in Run
  BY <1>1, <1>2, RunnerSeen
<1>4. DOMAIN ctx.des = {} /\ BlocksIn(ctx.ser) = BlocksIn(own[r])
  BY <1>1, <1>2 DEF UnmarkedInv, ScopesUnmarked, ScopesRemember
<1>5. CASE ~ReachesBlock(r, p)
  <2>1. AfterStep(r, p, ctx) = ctx
    BY <1>4, <1>5, AfterStepBlocks
  <2> QED
    BY <1>1, <1>4, <2>1, AfterStepBlocks
<1>6. CASE ReachesBlock(r, p)
  <2>1. ~p.back
    BY <1>1, <1>2, <1>3 DEF RunnersFit, Fits, RollingBack
  <2>2. p.mode = "invoke" /\ KindOf(r, p) = "finally"
    BY <1>1, <1>2, <1>6, <2>1 DEF ReachesBlock, RunnersMode
  <2>3. GivesUp(r, p)
    BY <1>1, <2>2 DEF ContextFail
  <2>4. GiveUpOnHappyPath(r)
    BY <1>1, <2>1, <2>3 DEF GivesUp
  <2>5. BlocksIn(own'[r]) = BlocksIn(own[r]) \cup {b}
    BY <1>1, <1>4, <1>6, AfterStepBlocks
  <2>6. b \in TrySteps(r[2])
    BY <1>1, <1>2, <1>6, BlockIsTryStep DEF ContextInv
  <2>7. Marked(w, r)
    BY <1>1, <1>2, <1>6, <2>4, <2>5, <2>6 DEF Marked
  <2> QED
    BY <1>1, <2>7
<1> QED
  BY <1>5, <1>6

LEMMA MarksStep ==
    ASSUME TryAlone, "finally" \notin ThrowingKinds, UnmarkedInv, ScopesRemember,
           [ContextNext]_allVars, NEW r \in Run, TrySteps(r[2]) # {}
    PROVE  \/ BlocksIn(own'[r]) = BlocksIn(own[r]) /\ blockRuns'[r] = blockRuns[r]
           \/ \E w \in Worker : Marked(w, r)
<1>1. ContextInv
  BY DEF UnmarkedInv
<1>2. CASE /\ r \in seen' \ seen
           /\ own'[r] = emittedWith[r[1]] /\ blockRuns'[r] = blockRuns[r]
  <2>1. Unmarked(own[r]) /\ Unmarked(emittedWith[r[1]])
    BY <1>2, TreeTypes DEF TryAlone, UnmarkedInv, RowsUnmarked, MessagesUnmarked
  <2> QED
    BY <1>2, <2>1, NoBlocksInUnmarked
<1>3. ASSUME NEW w \in Worker, Leaves(w, r)
      PROVE  \/ BlocksIn(own'[r]) = BlocksIn(own[r]) /\ blockRuns'[r] = blockRuns[r]
             \/ Marked(w, r)
  <2>1. pick[w] = r /\ pc[w] = "running"
    BY <1>3 DEF Leaves
  <2>2. CASE ContextSuspend(w)
    BY <2>1, <2>2, SuspendMarks
  <2>3. CASE own'[r] = Written(scope[w]) /\ blockRuns'[r] = blockRuns[r]
    <3>1. PICK ctx : ctx = scope[w]
      OBVIOUS
    <3>2. DOMAIN ctx.des = {} /\ BlocksIn(ctx.ser) = BlocksIn(own[r])
      BY <2>1, <3>1 DEF UnmarkedInv, ScopesUnmarked, ScopesRemember
    <3> QED
      BY <2>3, <3>1, <3>2, AfterStepBlocks
  <2>4. CASE /\ ContextFail(w) /\ ~plan[w].doomed
             /\ "ROLLING_BACK" \in marks'[r] \ marks[r]
             /\ own'[r] = Written(AfterStep(r, plan[w], scope[w]))
             /\ blockRuns'[r] = blockRuns[r]
    BY <1>3, <2>1, <2>4, FailMarks
  <2> QED
    BY <1>3, <2>2, <2>3, <2>4 DEF Leaves
<1> QED
  BY <1>1, <1>2, <1>3, OwnLeft

\* A mark goes with one run of the block, unless the run gave up on the way.
Counted ==
    \A r \in Run : \A k \in TrySteps(r[2]) :
        IF k \in BlocksIn(own[r])
        THEN blockRuns[r][k] \in {0, 1} /\ (blockRuns[r][k] = 0 => GiveUpOnHappyPath(r))
        ELSE blockRuns[r][k] = 0

LEMMA GivenUpForGood ==
    ASSUME [Next]_vars, NEW r, GiveUpOnHappyPath(r)
    PROVE  GiveUpOnHappyPath(r)'
<1>1. cancelled \subseteq cancelled' /\ expired \subseteq expired'
  BY DEF Next, WorkerStep, Conclude, Resume, Environment, vars, log, ReconcileBegin,
         ReconcileLock, ReconcileCommit, Select, Claim, LosePick, Suspend, UndoChildren, Finish,
         Fail, Abort, Crash, Launch, Cancel, AskRollback, RequestRollback, WithdrawRollback, Expire
<1> QED
  BY <1>1 DEF GiveUpOnHappyPath, CancellationRequested

LEMMA CountedStep ==
    ASSUME TryAlone, "finally" \notin ThrowingKinds, UnmarkedInv, ScopesRemember, Counted,
           [ContextNext]_allVars
    PROVE  Counted'
<1> SUFFICES ASSUME NEW r \in Run, NEW k \in TrySteps(r[2])
             PROVE  IF k \in BlocksIn(own'[r])
                    THEN /\ blockRuns'[r][k] \in {0, 1}
                         /\ blockRuns'[r][k] = 0 => GiveUpOnHappyPath(r)'
                    ELSE blockRuns'[r][k] = 0
  BY DEF Counted, TrySteps, BlocksIn
<1>1. GiveUpOnHappyPath(r) => GiveUpOnHappyPath(r)'
  BY ContextStep, GivenUpForGood
<1>2. PICK f, n : f = blockRuns[r] /\ n = StepCount[r[2]]
  OBVIOUS
<1>3. f \in [1..n -> Nat]
  BY <1>2 DEF UnmarkedInv, ContextInv, BlockRunsOK
<1>4. k \in 1..n
  BY <1>2 DEF TrySteps
<1>5. IF k \in BlocksIn(own[r])
      THEN f[k] \in {0, 1} /\ (f[k] = 0 => GiveUpOnHappyPath(r))
      ELSE f[k] = 0
  BY <1>2 DEF Counted
<1>6. CASE BlocksIn(own'[r]) = BlocksIn(own[r]) /\ blockRuns'[r] = blockRuns[r]
  BY <1>1, <1>2, <1>5, <1>6
<1>7. ASSUME NEW w \in Worker, Marked(w, r)
      PROVE  IF k \in BlocksIn(own'[r])
             THEN /\ blockRuns'[r][k] \in {0, 1}
                  /\ blockRuns'[r][k] = 0 => GiveUpOnHappyPath(r)'
             ELSE blockRuns'[r][k] = 0
  <2>1. PICK b : /\ b \in TrySteps(r[2])
                 /\ BlocksIn(own'[r]) = BlocksIn(own[r]) \cup {b}
                 /\ \/ b \notin BlocksIn(own[r]) /\ blockRuns'[r] = [f EXCEPT ![b] = @ + 1]
                    \/ blockRuns'[r] = f /\ b \in BlocksIn(own[r])
                    \/ blockRuns'[r] = f /\ GiveUpOnHappyPath(r)
    BY <1>2, <1>7 DEF Marked
  <2>2. b \in 1..n
    BY <1>2, <2>1 DEF TrySteps
  <2>3. CASE k # b
    <3>1. blockRuns'[r][k] = f[k]
      BY <1>3, <1>4, <2>1, <2>2, <2>3
    <3> QED
      BY <1>1, <1>5, <2>1, <2>3, <3>1
  <2>4. CASE k = b
    <3>1. CASE b \notin BlocksIn(own[r]) /\ blockRuns'[r] = [f EXCEPT ![b] = @ + 1]
      <4>1. f[k] = 0 /\ blockRuns'[r][k] = f[k] + 1
        BY <1>3, <1>4, <1>5, <2>4, <3>1
      <4> QED
        BY <2>1, <2>4, <4>1
    <3>2. CASE blockRuns'[r] = f /\ b \in BlocksIn(own[r])
      BY <1>1, <1>5, <2>1, <2>4, <3>2
    <3>3. CASE blockRuns'[r] = f /\ GiveUpOnHappyPath(r)
      BY <1>1, <1>5, <2>1, <2>4, <3>3
    <3> QED
      BY <2>1, <3>1, <3>2, <3>3
  <2> QED
    BY <2>3, <2>4
<1>8. TrySteps(r[2]) # {}
  OBVIOUS
<1> QED
  BY <1>6, <1>7, <1>8, MarksStep

-----------------------------------------------------------------------------
\* A try step is no step whose handleChildFailures succeeds.

\* Whoever carries a handler's iteration forward has a child that rolled back: from
\* then on the run handles failures until it fails itself.
HandledForward ==
    \A r \in Run : \A i \in DOMAIN ticks[r] :
        ticks[r][i].step[1] = "do" /\ ticks[r][i].iter # Normal => HasRolledBackChild(r)

RunnersHandleForward ==
    \A w \in Worker : pc[w] = "running" /\ ~plan[w].back /\ plan[w].iter # Normal =>
        plan[w].mode = "handle" /\ HasRolledBackChild(pick[w])

TryNormal ==
    \A r \in Run : \A i \in DOMAIN ticks[r] : \A k \in TrySteps(r[2]) :
        ticks[r][i].step = <<"do", k>> => ticks[r][i].iter = Normal

HandlingInv == ContextInv /\ HandledForward /\ RunnersHandleForward /\ TryNormal

LEMMA RolledBackChildKept ==
    ASSUME TypeOK, [Next]_vars, NEW r \in Run, HasRolledBackChild(r)
    PROVE  HasRolledBackChild(r)'
<1>1. PICK c \in ChildRollingBacks(r) : TRUE
  BY DEF HasRolledBackChild
<1>2. c \in ChildrenOf(r) /\ c \in Run /\ RollingBack(c)
  BY <1>1 DEF ChildRollingBacks, ChildrenOf
<1>3. marks[c] \subseteq marks'[c]
  BY <1>2, MarksKept
<1> QED
  BY <1>1, <1>2, <1>3 DEF HasRolledBackChild, ChildRollingBacks, RollingBack, ChildrenOf

LEMMA OwnFailedIsRolledBackChild ==
    ASSUME NEW r, OwnFailed(r)
    PROVE  HasRolledBackChild(r)
BY DEF OwnFailed, HasRolledBackChild

LEMMA RunnersHandleForwardStep ==
    ASSUME HandlingInv, FailuresAreOwn, [ContextNext]_allVars
    PROVE  RunnersHandleForward'
<1>1. /\ [Next]_vars /\ TypeOK /\ Locking /\ CompensationInv /\ UndosMeanRollingBack
  BY ContextStep DEF HandlingInv, ContextInv, UndoneInv, OutcomeInv, RunnerInv, CompensationInv
<1> SUFFICES ASSUME NEW w \in Worker, pc'[w] = "running", ~plan'[w].back,
                    plan'[w].iter # Normal
             PROVE  plan'[w].mode = "handle" /\ HasRolledBackChild(pick[w])'
  BY DEF RunnersHandleForward
<1>2. CASE Claim(w) /\ pc[w] = "selected"
  <2>1. PICK r, p : /\ r \in Run /\ r = pick[w] /\ pick'[w] = r
                    /\ p = PlanFor(r) /\ plan'[w] = p
    BY <1>1, <1>2, Claimed
  <2>2. /\ ~RollingBack(r)
        /\ p.mode = IF ChildFailed(r) THEN "handle" ELSE "invoke"
        /\ p.mode # "handle" => p.iter = HappyPoint(r).iter
    BY <2>1 DEF PlanFor
  <2>3. CASE ChildFailed(r)
    <3>1. HasRolledBackChild(r)
      BY <2>1, <2>2, <2>3, OwnFailedIsRolledBackChild DEF ChildFailed, FailuresAreOwn
    <3> QED
      BY <1>1, <2>1, <2>2, <2>3, <3>1, RolledBackChildKept
  <2>4. CASE ~ChildFailed(r)
    <3>1. HasTicks(r) /\ Latest(r).iter # Normal
      BY <2>1, <2>2, <2>4 DEF HappyPoint
    <3>2. Len(ticks[r]) \in DOMAIN ticks[r] /\ Latest(r).step[1] = "do"
      BY <1>1, <2>1, <2>2, <3>1, TickTypes DEF UndosMeanRollingBack, Latest
    <3>3. HasRolledBackChild(r)
      BY <2>1, <3>1, <3>2 DEF HandlingInv, HandledForward, Latest
    <3> QED
      BY <2>2, <2>4, <3>3 DEF ChildFailed
  <2> QED
    BY <2>3, <2>4
<1>3. CASE pc[w] = "running" /\ Stays(w)
  <2>1. pick[w] \in Run /\ pick'[w] = pick[w] /\ plan'[w] = plan[w]
    BY <1>1, <1>3 DEF Stays, TypeOK
  <2>2. plan[w].mode = "handle" /\ HasRolledBackChild(pick[w])
    BY <1>3, <2>1 DEF HandlingInv, RunnersHandleForward
  <2> QED
    BY <1>1, <2>1, <2>2, RolledBackChildKept
<1> QED
  BY <1>1, <1>2, <1>3, StillRunning

\* A tick that a worker adds, with what its contexts make of it.
LEMMA ContextTick ==
    ASSUME [ContextNext]_allVars, TypeOK
    PROVE  \/ UNCHANGED ticks
           \/ \E w \in Worker : \E t :
                /\ Closes(w, t)
                /\ ContextSuspend(w) \/ (UndoChildren(w) /\ plan[w].mode = "rollback"
                                            /\ t.step[1] = "undoChildren")
<1>1. ASSUME NEW w \in Worker, ContextSuspend(w)
      PROVE  \E t : Closes(w, t)
  <2>1. PICK t : Launches(w, t)
    BY <1>1, SuspendLaunches DEF ContextSuspend
  <2> QED
    BY <2>1 DEF Launches
<1>2. ASSUME NEW w \in Worker, UndoChildren(w)
      PROVE  UNCHANGED ticks \/ \E t : Closes(w, t) /\ plan[w].mode = "rollback"
                                            /\ t.step[1] = "undoChildren"
  <2>1. CASE UNCHANGED ticks
    BY <2>1
  <2>2. ASSUME NEW t, Requests(w, t)
        PROVE  Closes(w, t) /\ plan[w].mode = "rollback" /\ t.step[1] = "undoChildren"
    BY <2>2 DEF Requests, Closes
  <2> QED
    BY <1>2, <2>1, <2>2, UndoChildrenRequests
<1>3. \/ UNCHANGED ticks
      \/ \E w \in Worker : ContextSuspend(w) \/ UndoChildren(w)
  BY DEF ContextNext, ContextReconcileCommit, ContextClaim, ContextUndoChildren,
         ContextFinish, ContextFail, ContextCrash, ContextLaunch, ContextRequestRollback,
         OtherSteps, OtherEvents, allVars, vars, log, ReconcileBegin, ReconcileLock,
         ReconcileCommit, Select, Claim, LosePick, Finish, Fail, Abort, Crash, Launch, Cancel,
         AskRollback, RequestRollback, WithdrawRollback, Expire
<1> QED
  BY <1>1, <1>2, <1>3

\* The saga's step that the runner of a plan works on is the one of its tick.
LEMMA StepOfPlan ==
    ASSUME ContextInv, NEW w \in Worker, pc[w] = "running"
    PROVE  /\ \A k : plan[w].step = <<"do", k>> => TheStep(pick[w], plan[w]) = k
           /\ \A i \in DOMAIN ticks[pick[w]] : \A s \in {"undoChildren", "undoSelf"} : \A k :
                plan[w].step = <<s, i>> /\ ticks[pick[w]][i].step = <<"do", k>> =>
                    TheStep(pick[w], plan[w]) = k
<1>1. PICK r, p : r = pick[w] /\ p = plan[w]
  OBVIOUS
<1>2. r \in Run /\ TypeOK
  BY <1>1, RunnerSeen DEF ContextInv, UndoneInv, OutcomeInv, RunnerInv, CompensationInv
<1>3. \A i \in DOMAIN ticks[r] : i # 0
  BY <1>2, TickTypes
<1>4. ASSUME NEW i \in DOMAIN ticks[r], NEW k, NEW s \in {"undoChildren", "undoSelf"},
             p.step = <<s, i>>, ticks[r][i].step = <<"do", k>>
      PROVE  TheStep(r, p) = k
  BY <1>3, <1>4 DEF TheStep, Sentinel
<1>5. \A k : p.step = <<"do", k>> => TheStep(r, p) = k
  BY DEF TheStep
<1> QED
  BY <1>1, <1>4, <1>5

\* A try step's successor is its finally step.
LEMMA TryThenFinally ==
    ASSUME NEW h \in Coroutine, NEW k \in TrySteps(h)
    PROVE  /\ k \in Nat /\ k # StepCount[h] /\ Kind[h][k] = "try"
           /\ k + 1 \in 1..StepCount[h] /\ Kind[h][k + 1] = "finally"
<1>1. PICK n, kinds : n = StepCount[h] /\ kinds = Kind[h]
  OBVIOUS
<1>2. n \in Nat
  BY <1>1, StepAssumption
<1>3. k \in 1..n /\ kinds[k] = "try"
  BY <1>1 DEF TrySteps
<1>4. /\ \A j \in 1..n : kinds[j] = "finally" <=> j > 1 /\ kinds[j - 1] = "try"
      /\ kinds[n] # "try"
  BY <1>1, ScopeContextAssumption
<1>5. k # n /\ k \in Nat
  BY <1>2, <1>3, <1>4
<1>6. k + 1 \in 1..n /\ k + 1 > 1 /\ (k + 1) - 1 = k
  BY <1>2, <1>3, <1>5
<1>7. kinds[k + 1] = "finally"
  BY <1>3, <1>4, <1>6
<1> QED
  BY <1>1, <1>3, <1>5, <1>6, <1>7

LEMMA HandledForwardStep ==
    ASSUME HandlingInv, [ContextNext]_allVars
    PROVE  HandledForward'
<1>1. [Next]_vars /\ TypeOK /\ RunnersFit
  BY ContextStep DEF HandlingInv, ContextInv, UndoneInv, OutcomeInv, RunnerInv, CompensationInv
<1> SUFFICES ASSUME NEW r \in Run, NEW i \in DOMAIN ticks'[r],
                    ticks'[r][i].step[1] = "do", ticks'[r][i].iter # Normal
             PROVE  HasRolledBackChild(r)'
  BY DEF HandledForward
<1>2. CASE i \in DOMAIN ticks[r] /\ ticks'[r][i] = ticks[r][i]
  <2>1. HasRolledBackChild(r)
    BY <1>2 DEF HandlingInv, HandledForward
  <2> QED
    BY <1>1, <2>1, RolledBackChildKept
<1>3. ASSUME NEW w \in Worker, NEW t, Closes(w, t),
             ~(i \in DOMAIN ticks[r] /\ ticks'[r][i] = ticks[r][i])
      PROVE  HasRolledBackChild(r)'
  <2>1. /\ pick[w] \in Run /\ AppendTick(pick[w], t) /\ pc[w] = "running"
        /\ t.step = plan[w].step /\ t.iter = plan[w].iter
    BY <1>1, <1>3 DEF Closes, TypeOK
  <2>2. pick[w] = r /\ ticks'[r][i] = t
    BY <1>1, <1>3, <2>1, AppendedTick
  <2>3. ~plan[w].back
    BY <1>1, <2>1, <2>2 DEF RunnersFit, Fits
  <2>4. HasRolledBackChild(r)
    BY <2>1, <2>2, <2>3 DEF HandlingInv, RunnersHandleForward
  <2> QED
    BY <1>1, <2>4, RolledBackChildKept
<1>4. UNCHANGED ticks => i \in DOMAIN ticks[r] /\ ticks'[r][i] = ticks[r][i]
  OBVIOUS
<1> QED
  BY <1>1, <1>2, <1>3, <1>4, TicksStep

LEMMA TryNormalStep ==
    ASSUME HandlingInv, [ContextNext]_allVars
    PROVE  TryNormal'
<1>1. [Next]_vars /\ TypeOK /\ RunnersFit /\ ContextInv
  BY ContextStep DEF HandlingInv, ContextInv, UndoneInv, OutcomeInv, RunnerInv, CompensationInv
<1> SUFFICES ASSUME NEW r \in Run, NEW i \in DOMAIN ticks'[r], NEW k \in TrySteps(r[2]),
                    ticks'[r][i].step = <<"do", k>>
             PROVE  ticks'[r][i].iter = Normal
  BY DEF TryNormal, TrySteps
<1>2. CASE i \in DOMAIN ticks[r] /\ ticks'[r][i] = ticks[r][i]
  BY <1>2 DEF HandlingInv, TryNormal
<1>3. ASSUME NEW w \in Worker, NEW t, Closes(w, t),
             ContextSuspend(w) \/ t.step[1] = "undoChildren",
             ~(i \in DOMAIN ticks[r] /\ ticks'[r][i] = ticks[r][i])
      PROVE  ticks'[r][i].iter = Normal
  <2>1. /\ pick[w] \in Run /\ AppendTick(pick[w], t) /\ pc[w] = "running"
        /\ t.step = plan[w].step /\ t.iter = plan[w].iter
    BY <1>1, <1>3 DEF Closes, TypeOK
  <2>2. pick[w] = r /\ ticks'[r][i] = t /\ plan[w].step = <<"do", k>>
    BY <1>1, <1>3, <2>1, AppendedTick
  <2>3. ContextSuspend(w) /\ ~plan[w].back
    BY <1>1, <1>3, <2>1, <2>2 DEF RunnersFit, Fits
  <2>4. TheStep(r, plan[w]) = k
    BY <1>1, <2>1, <2>2, StepOfPlan
  <2>5. KindOf(r, plan[w]) = "try"
    BY <2>4 DEF KindOf, TrySteps
  <2>6. plan[w].mode # "handle"
    BY <2>2, <2>3, <2>5 DEF ContextSuspend
  <2> QED
    BY <2>1, <2>2, <2>3, <2>6 DEF HandlingInv, RunnersHandleForward
<1>4. UNCHANGED ticks => i \in DOMAIN ticks[r] /\ ticks'[r][i] = ticks[r][i]
  OBVIOUS
<1> QED
  BY <1>1, <1>2, <1>3, <1>4, ContextTick

LEMMA HandlingInductive ==
    ASSUME HandlingInv, FailuresAreOwn, [ContextNext]_allVars
    PROVE  HandlingInv'
<1>1. ContextInv'
  BY ContextInductive DEF HandlingInv
<1> QED
  BY <1>1, RunnersHandleForwardStep, HandledForwardStep, TryNormalStep DEF HandlingInv

-----------------------------------------------------------------------------
\* A block that a run has yet to reach.

\* The run left its try step on tick i and has not marked the block.
Open(r, i, k) ==
    /\ i \in DOMAIN ticks[r] /\ ticks[r][i].step = <<"do", k>>
    /\ k \notin BlocksIn(own[r])

\* It goes on to the finally step, or undoes that try step first of all...
OpenTicks ==
    \A r \in Run : \A k \in TrySteps(r[2]) : \A i \in DOMAIN ticks[r] : Open(r, i, k) =>
        /\ ticks[r][i].next = k + 1
        /\ \A j \in DOMAIN ticks[r] : i < j => ticks[r][j].step = <<"undoChildren", i>>

\* ...either of which ends in the block.  To handle the failure of a child is beyond
\* either step.
WaysToBlock(i, k, p) ==
    /\ ~p.last
    /\ \/ p.mode = "invoke" /\ p.step = <<"do", k + 1>>
       \/ p.mode = "rollback" /\ p.step \in {<<"undoChildren", i>>, <<"undoSelf", i>>}
       \/ p.mode = "handle" /\ p.step \in {<<"do", k>>, <<"undoChildren", i>>}

OpenPlans ==
    \A w \in Worker : pc[w] = "running" =>
        \A k \in TrySteps(pick[w][2]) : \A i \in DOMAIN ticks[pick[w]] :
            Open(pick[w], i, k) => WaysToBlock(i, k, plan[w])

EndsWell(r) == marks[r] \cap {"COMMITTED", "ROLLED_BACK"} # {}

EndedClosed ==
    \A r \in Run : EndsWell(r) =>
        \A k \in TrySteps(r[2]) : \A i \in DOMAIN ticks[r] : ~Open(r, i, k)

\* The inductive invariant.
TryInv ==
    /\ UnmarkedInv /\ ScopesRemember /\ Counted
    /\ HandlingInv
    /\ OpenTicks /\ OpenPlans /\ EndedClosed

\* A mark is never lost.
LEMMA BlocksKept ==
    ASSUME TryAlone, "finally" \notin ThrowingKinds, UnmarkedInv, ScopesRemember,
           [ContextNext]_allVars, NEW r \in Run, NEW k \in TrySteps(r[2])
    PROVE  k \in BlocksIn(own[r]) => k \in BlocksIn(own'[r])
<1>1. TrySteps(r[2]) # {}
  OBVIOUS
<1> QED
  BY <1>1, MarksStep DEF Marked

LEMMA OpenBefore ==
    ASSUME TryAlone, "finally" \notin ThrowingKinds, UnmarkedInv, ScopesRemember,
           [ContextNext]_allVars, NEW r \in Run, NEW k \in TrySteps(r[2]),
           NEW i \in DOMAIN ticks[r], Open(r, i, k)'
    PROVE  Open(r, i, k)
<1>1. TypeOK /\ [Next]_vars
  BY ContextStep DEF UnmarkedInv, ContextInv, UndoneInv, OutcomeInv, RunnerInv, CompensationInv
<1>2. ticks'[r][i] = ticks[r][i]
  BY <1>1, OriginalsKept
<1>3. k \notin BlocksIn(own'[r]) /\ ticks'[r][i].step = <<"do", k>>
  BY DEF Open, BlocksIn
<1> QED
  BY <1>2, <1>3, BlocksKept DEF Open

\* Of the ways to the block, what suspends on them is the undoing of the children:
\* the others have reached it.
LEMMA ClosesTheBlock ==
    ASSUME TryAlone, "finally" \notin ThrowingKinds, UnmarkedInv, ScopesRemember,
           NEW w \in Worker, ContextSuspend(w), NEW k \in TrySteps(pick[w][2]),
           NEW i \in DOMAIN ticks[pick[w]], Open(pick[w], i, k), WaysToBlock(i, k, plan[w])
    PROVE  k \in BlocksIn(own'[pick[w]])
<1>1. PICK r, p, h : r = pick[w] /\ p = plan[w] /\ h = r[2]
  OBVIOUS
<1>2. pc[w] = "running" /\ ContextInv /\ RunsUserCode(p)
  BY <1>1 DEF ContextSuspend, Suspend, UnmarkedInv
<1>3. r \in Run /\ h \in Coroutine
  BY <1>1, <1>2, RunnerSeen, TreeTypes
<1>4. ticks[r][i].step = <<"do", k>>
  BY <1>1 DEF Open
<1>5. k \in Nat /\ Kind[h][k] = "try" /\ Kind[h][k + 1] = "finally"
  BY <1>1, <1>3, TryThenFinally
<1>6. CASE p.mode = "invoke" /\ p.step = <<"do", k + 1>>
  <2>1. TheStep(r, p) = k + 1
    BY <1>1, <1>2, <1>6, StepOfPlan
  <2>2. KindOf(r, p) = "finally" /\ BlockOf(r, p) = k
    BY <1>1, <1>5, <2>1 DEF KindOf, BlockOf
  <2>3. ReachesBlock(r, p)
    BY <1>2, <1>6, <2>2 DEF ReachesBlock
  <2>4. Marked(w, r)
    BY <1>1, <2>3, SuspendMarks
  <2> QED
    BY <1>1, <2>2, <2>4 DEF Marked
<1>7. CASE p.mode = "rollback" /\ p.step \in {<<"undoChildren", i>>, <<"undoSelf", i>>}
  <2>1. p.step = <<"undoSelf", i>>
    BY <1>2, <1>7 DEF RunsUserCode
  <2>2. TheStep(r, p) = k
    BY <1>1, <1>2, <1>4, <2>1, StepOfPlan
  <2>3. KindOf(r, p) = "try" /\ BlockOf(r, p) = k
    BY <1>1, <1>5, <2>2 DEF KindOf, BlockOf
  <2>4. ReachesBlock(r, p)
    BY <1>2, <1>7, <2>1, <2>3 DEF ReachesBlock
  <2>5. Marked(w, r)
    BY <1>1, <2>4, SuspendMarks
  <2> QED
    BY <1>1, <2>3, <2>5 DEF Marked
<1>8. CASE p.mode = "handle" /\ p.step \in {<<"do", k>>, <<"undoChildren", i>>}
  <2>1. TheStep(r, p) = k
    BY <1>1, <1>2, <1>4, <1>8, StepOfPlan
  <2>2. KindOf(r, p) = "try"
    BY <1>1, <1>5, <2>1 DEF KindOf
  <2> QED
    BY <1>1, <1>8, <2>2 DEF ContextSuspend
<1> QED
  BY <1>1, <1>6, <1>7, <1>8 DEF WaysToBlock

LEMMA OpenTicksStep ==
    ASSUME TryAlone, "finally" \notin ThrowingKinds, TryInv, [ContextNext]_allVars
    PROVE  OpenTicks'
<1>1. /\ [Next]_vars /\ TypeOK /\ RunnersFit /\ ContextInv
      /\ UnmarkedInv /\ ScopesRemember /\ OpenTicks /\ OpenPlans
  BY ContextStep
     DEF TryInv, UnmarkedInv, ContextInv, UndoneInv, OutcomeInv, RunnerInv, CompensationInv
<1> SUFFICES ASSUME NEW r \in Run, NEW k \in TrySteps(r[2]), NEW i \in DOMAIN ticks'[r],
                    Open(r, i, k)'
             PROVE  /\ ticks'[r][i].next = k + 1
                    /\ \A j \in DOMAIN ticks'[r] :
                        i < j => ticks'[r][j].step = <<"undoChildren", i>>
  BY DEF OpenTicks, TrySteps
<1>2. i \in DOMAIN ticks[r] => Open(r, i, k)
  BY <1>1, OpenBefore
<1>3. CASE ticks'[r] = ticks[r]
  <2>1. i \in DOMAIN ticks[r] /\ Open(r, i, k)
    BY <1>2, <1>3
  <2>2. /\ ticks[r][i].next = k + 1
        /\ \A j \in DOMAIN ticks[r] : i < j => ticks[r][j].step = <<"undoChildren", i>>
    BY <1>1, <2>1 DEF OpenTicks
  <2> QED
    BY <1>3, <2>2
<1>4. ASSUME NEW w \in Worker, NEW t, Closes(w, t), pick[w] = r,
             ContextSuspend(w) \/ (UndoChildren(w) /\ plan[w].mode = "rollback"
                                      /\ t.step[1] = "undoChildren")
      PROVE  /\ ticks'[r][i].next = k + 1
             /\ \A j \in DOMAIN ticks'[r] :
                 i < j => ticks'[r][j].step = <<"undoChildren", i>>
  <2>1. PICK l : l = Len(ticks[r])
    OBVIOUS
  <2>2. /\ AppendTick(r, t) /\ pc[w] = "running" /\ t.step = plan[w].step
        /\ DOMAIN ticks[r] = 1..l /\ l \in Nat
    BY <1>1, <1>4, <2>1, TickTypes DEF Closes
  <2>3. /\ DOMAIN ticks'[r] = 1..l \cup {l + 1} /\ ticks'[r][l + 1] = t
        /\ \A j \in 1..l : ticks'[r][j] = ticks[r][j]
    BY <1>1, <2>1, <2>2, AppendedTick
  <2>4. CASE i \in 1..l
    <3>1. Open(r, i, k)
      BY <1>2, <2>2, <2>4
    <3>2. WaysToBlock(i, k, plan[w])
      BY <1>1, <1>4, <2>2, <2>4, <3>1 DEF OpenPlans
    <3>3. k \notin BlocksIn(own'[r])
      BY DEF Open, BlocksIn
    <3>4. ~ContextSuspend(w)
      BY <1>1, <1>4, <2>2, <2>4, <3>1, <3>2, <3>3, ClosesTheBlock
    <3>5. t.step = <<"undoChildren", i>>
      BY <1>4, <2>2, <3>2, <3>4 DEF WaysToBlock
    <3>6. /\ ticks[r][i].next = k + 1
          /\ \A j \in 1..l : i < j => ticks[r][j].step = <<"undoChildren", i>>
      BY <1>1, <2>2, <2>4, <3>1 DEF OpenTicks
    <3> QED
      BY <2>3, <2>4, <3>5, <3>6
  <2>5. CASE i \notin 1..l
    <3>1. i = l + 1 /\ t.step = <<"do", k>>
      BY <2>3, <2>5 DEF Open
    <3>2. plan[w].step = <<"do", k>> /\ ContextSuspend(w) /\ ~plan[w].back
      <4>1. t.step[1] = "do"
        BY <3>1
      <4>2. plan[w].step = <<"do", k>> /\ ContextSuspend(w)
        BY <1>4, <2>2, <3>1, <4>1
      <4> QED
        BY <1>1, <1>4, <2>2, <4>1, <4>2 DEF RunnersFit, Fits
    <3>3. TheStep(r, plan[w]) = k
      BY <1>1, <1>4, <2>2, <3>2, StepOfPlan
    <3>4. r[2] \in Coroutine
      BY TreeTypes
    <3>5. KindOf(r, plan[w]) # "plain" /\ Continue(r, plan[w]) = k + 1
      BY <3>3, <3>4, TryThenFinally DEF KindOf, Continue
    <3>6. ticks'[r][Len(ticks'[r])].next = k + 1
      BY <1>4, <3>2, <3>5 DEF ContextSuspend
    <3>7. Len(ticks'[r]) = l + 1
      <4>1. ticks \in [Run -> Seq(Tick)]
        BY <1>1 DEF TypeOK, LogTypeOK
      <4>2. ticks'[r] = Append(ticks[r], t)
        BY <2>2, <4>1 DEF AppendTick
      <4> QED
        BY <2>1, <4>1, <4>2
    <3> QED
      BY <2>2, <2>3, <3>1, <3>6, <3>7
  <2> QED
    BY <2>4, <2>5
<1>5. ASSUME NEW w \in Worker, NEW t, Closes(w, t), pick[w] # r
      PROVE  ticks'[r] = ticks[r]
  <2>1. pick[w] \in Run /\ AppendTick(pick[w], t)
    BY <1>1, <1>5 DEF Closes, TypeOK
  <2> QED
    BY <1>1, <1>5, <2>1, AppendedTick
<1> QED
  BY <1>1, <1>3, <1>4, <1>5, ContextTick

\* The continuation that is built for such a run.
LEMMA PlansToBlock ==
    ASSUME TryInv, NEW r \in Run, ~NotFound(r), NEW k \in TrySteps(r[2]),
           NEW i \in DOMAIN ticks[r], Open(r, i, k)
    PROVE  WaysToBlock(i, k, PlanFor(r))
<1>1. TypeOK /\ UndosMeanRollingBack /\ TryNormal /\ OpenTicks
  BY DEF TryInv, HandlingInv, ContextInv, UndoneInv, OutcomeInv, RunnerInv, CompensationInv
<1>2. PICK p, l : p = PlanFor(r) /\ l = Len(ticks[r])
  OBVIOUS
<1>3. /\ l \in Nat /\ DOMAIN ticks[r] = 1..l /\ i \in 1..l /\ l \in 1..l
      /\ HasTicks(r) /\ Latest(r) = ticks[r][l]
  BY <1>1, <1>2, TickTypes DEF Latest, HasTicks
<1>4. /\ ticks[r][i].step = <<"do", k>> /\ ticks[r][i].iter = Normal
      /\ ticks[r][i].next = k + 1
      /\ i < l => ticks[r][l].step = <<"undoChildren", i>>
  BY <1>1, <1>3 DEF Open, TryNormal, OpenTicks
<1>5. k \in Nat /\ k + 1 # 0
  BY TreeTypes, TryThenFinally
<1>6. i \in Originals(r)
  BY <1>3, <1>4 DEF Originals
<1>7. CASE ~RollingBack(r)
  <2>1. i = l
    <3>1. ticks[r][l].step[1] = "do"
      BY <1>1, <1>3, <1>7 DEF UndosMeanRollingBack
    <3> QED
      BY <1>3, <1>4, <3>1
  <2>2. HappyPoint(r) = [next |-> <<"do", k + 1>>, previous |-> <<"do", k>>, last |-> FALSE,
                         iter |-> Normal]
    BY <1>3, <1>4, <1>5, <2>1 DEF HappyPoint
  <2> QED
    BY <1>2, <1>7, <2>2 DEF PlanFor, WaysToBlock
<1>8. CASE RollingBack(r) /\ i = l
  <2>1. /\ ~RollbackPoint(r).last
        /\ RollbackPoint(r).next = <<"undoChildren", i>>
        /\ RollbackPoint(r).previous = <<"undoChildren", i>>
    BY <1>2, <1>3, <1>4, <1>8 DEF RollbackPoint
  <2> QED
    BY <1>2, <1>8, <2>1 DEF PlanFor, WaysToBlock
<1>9. CASE RollingBack(r) /\ i # l
  <2>1. Latest(r).step = <<"undoChildren", i>>
    BY <1>3, <1>4, <1>9
  <2>2. Namesakes(r, i) = {i}
    BY <1>3, <1>4 DEF Namesakes
  <2>3. Found(r, Latest(r).step) = <<"undoChildren", i>>
    BY <2>1, <2>2 DEF Found
  <2>4. PICK s : s = <<"undoChildren", i>>
    OBVIOUS
  <2>5. ~IsLastSubStep(r, s) /\ SubStepAfter(r, s) = <<"undoSelf", i>>
    BY <1>4, <2>4 DEF IsLastSubStep, SubStepAfter
  <2>6. /\ ~RollbackPoint(r).last
        /\ RollbackPoint(r).next = <<"undoSelf", i>>
        /\ RollbackPoint(r).previous = <<"undoChildren", i>>
    BY <1>3, <2>1, <2>3, <2>4, <2>5 DEF RollbackPoint
  <2> QED
    BY <1>2, <1>9, <2>6 DEF PlanFor, WaysToBlock
<1> QED
  BY <1>3, <1>7, <1>8, <1>9

LEMMA OpenPlansStep ==
    ASSUME TryAlone, "finally" \notin ThrowingKinds, TryInv, [ContextNext]_allVars
    PROVE  OpenPlans'
<1>1. /\ [Next]_vars /\ TypeOK /\ ContextInv /\ CompensationInv
      /\ UnmarkedInv /\ ScopesRemember /\ OpenPlans /\ Locking
  BY ContextStep
     DEF TryInv, UnmarkedInv, ContextInv, UndoneInv, OutcomeInv, RunnerInv, CompensationInv
<1> SUFFICES ASSUME NEW w \in Worker, pc'[w] = "running", NEW k \in TrySteps(pick'[w][2]),
                    NEW i \in DOMAIN ticks'[pick'[w]], Open(pick[w], i, k)'
             PROVE  WaysToBlock(i, k, plan'[w])
  BY DEF OpenPlans, TrySteps, WaysToBlock
<1>2. CASE Claim(w) /\ pc[w] = "selected"
  <2>1. PICK r : /\ r \in Run /\ r = pick[w] /\ pick'[w] = r /\ ~NotFound(r)
                 /\ plan'[w] = PlanFor(r) /\ ticks' = ticks
    BY <1>1, <1>2, Claimed DEF log
  <2>2. Open(r, i, k)'
    BY <2>1
  <2>3. Open(r, i, k)
    BY <1>1, <2>1, <2>2, OpenBefore
  <2> QED
    BY <2>1, <2>3, PlansToBlock
<1>3. CASE pc[w] = "running" /\ Stays(w) /\ ticks'[pick[w]] = ticks[pick[w]]
  <2>1. PICK r : r \in Run /\ r = pick[w] /\ pick'[w] = r /\ plan'[w] = plan[w]
    BY <1>1, <1>3 DEF Stays, TypeOK
  <2>2. Open(r, i, k)' /\ i \in DOMAIN ticks[r]
    BY <1>3, <2>1
  <2>3. Open(r, i, k)
    BY <1>1, <2>1, <2>2, OpenBefore
  <2> QED
    BY <1>1, <1>3, <2>1, <2>2, <2>3 DEF OpenPlans
<1> QED
  BY <1>1, <1>2, <1>3, StillRunning

LEMMA EndedClosedStep ==
    ASSUME TryAlone, "finally" \notin ThrowingKinds, TryInv, [ContextNext]_allVars
    PROVE  EndedClosed'
<1>1. /\ [Next]_vars /\ TypeOK /\ UndosRequested /\ RunnersFit
      /\ UnmarkedInv /\ ScopesRemember /\ OpenPlans /\ EndedClosed
  BY ContextStep
     DEF TryInv, UnmarkedInv, ContextInv, UndoneInv, OutcomeInv, RunnerInv, CompensationInv,
         Locking
<1> SUFFICES ASSUME NEW r \in Run, EndsWell(r)', NEW k \in TrySteps(r[2]),
                    NEW i \in DOMAIN ticks'[r], Open(r, i, k)'
             PROVE  FALSE
  BY DEF EndedClosed, TrySteps
<1>2. i \in DOMAIN ticks[r] => Open(r, i, k)
  BY <1>1, OpenBefore
<1>3. CASE EndsWell(r)
  <2>1. i \notin DOMAIN ticks[r]
    BY <1>1, <1>2, <1>3 DEF EndedClosed
  <2>2. PICK w \in Worker : \E t : Closes(w, t)
    BY <1>1, <2>1, TicksStep
  <2>3. PICK t : Closes(w, t)
    BY <2>2
  <2>4. /\ pick[w] \in Run /\ AppendTick(pick[w], t) /\ pc[w] = "running"
        /\ t.step = plan[w].step
    BY <1>1, <2>3 DEF Closes, TypeOK
  <2>5. pick[w] = r /\ ticks'[r][i] = t
    BY <1>1, <2>1, <2>4, AppendedTick
  <2>6. t.step[1] = "do"
    BY <2>5 DEF Open
  <2> QED
    BY <1>1, <1>3, <2>4, <2>5, <2>6 DEF RunnersFit, Fits, EndsWell, RollbackOver
<1>4. CASE ~EndsWell(r)
  <2>1. PICK mark \in {"COMMITTED", "ROLLED_BACK"} : mark \in marks'[r] /\ mark \notin marks[r]
    BY <1>4 DEF EndsWell
  <2>2. PICK w \in Worker : pc[w] = "running" /\ pick[w] = r /\ Ends(w, mark)
    BY <1>1, <2>1, MarkWritten DEF Breaks
  <2>3. plan[w].last
    BY <2>2 DEF Ends
  <2>4. UNCHANGED ticks
    BY <1>1, <2>1, TickWritten DEF Launches, Requests
  <2>5. i \in DOMAIN ticks[r] /\ Open(r, i, k)
    BY <1>2, <2>4
  <2>6. WaysToBlock(i, k, plan[w])
    BY <1>1, <2>2, <2>5 DEF OpenPlans
  <2> QED
    BY <2>3, <2>6 DEF WaysToBlock
<1> QED
  BY <1>3, <1>4

-----------------------------------------------------------------------------
LEMMA TryInductive ==
    ASSUME TryAlone, "finally" \notin ThrowingKinds, TryInv, FailuresAreOwn,
           [ContextNext]_allVars
    PROVE  TryInv'
<1>1. UnmarkedInv' /\ ScopesRemember' /\ Counted'
  BY UnmarkedInductive, ScopesRememberStep, CountedStep DEF TryInv
<1>2. HandlingInv'
  BY HandlingInductive DEF TryInv
<1> QED
  BY <1>1, <1>2, OpenTicksStep, OpenPlansStep, EndedClosedStep DEF TryInv

LEMMA TryInitially == Init /\ ContextInit => TryInv
<1> SUFFICES ASSUME Init, ContextInit
             PROVE  TryInv
  OBVIOUS
<1>1. UnmarkedInv /\ ContextInv
  BY UnmarkedInitially DEF UnmarkedInv
<1>2. /\ \A w \in Worker : pc[w] = "idle"
      /\ \A r \in Run : ticks[r] = <<>> /\ marks[r] = {} /\ own[r] = NoEntries
  BY DEF Init, LogInit, ContextInit
<1>3. ScopesRemember /\ OpenPlans /\ RunnersHandleForward
  BY <1>2 DEF ScopesRemember, OpenPlans, RunnersHandleForward
<1>4. OpenTicks /\ HandledForward /\ TryNormal /\ EndedClosed
  BY <1>2 DEF OpenTicks, Open, HandledForward, TryNormal, EndedClosed, EndsWell
<1>5. Counted
  <2> SUFFICES ASSUME NEW r \in Run, NEW k \in TrySteps(r[2])
               PROVE  k \notin BlocksIn(own[r]) /\ blockRuns[r][k] = 0
    BY DEF Counted
  <2>1. BlocksIn(own[r]) = {}
    BY <1>2, EmptyUnmarked, NoBlocksInUnmarked
  <2> QED
    BY <2>1 DEF ContextInit, TrySteps
<1> QED
  BY <1>1, <1>3, <1>4, <1>5 DEF TryInv, HandlingInv

LEMMA OnceFromInv == TryInv => FinallyRunsOnceUnlessGivenUp
<1> SUFFICES ASSUME TryInv, NEW r \in Run, ~GiveUpOnHappyPath(r), NEW k \in TrySteps(r[2])
             PROVE  /\ blockRuns[r][k] <= 1
                    /\ EndsWell(r) /\ (\E i \in DOMAIN ticks[r] : ticks[r][i].step = <<"do", k>>)
                            => blockRuns[r][k] = 1
  BY DEF FinallyRunsOnceUnlessGivenUp, BlocksRanOnce, GiveUpOnHappyPath, EndsWell
<1>1. /\ k \in BlocksIn(own[r]) => blockRuns[r][k] = 1
      /\ k \notin BlocksIn(own[r]) => blockRuns[r][k] = 0
  BY DEF TryInv, Counted
<1>2. ASSUME EndsWell(r), NEW i \in DOMAIN ticks[r], ticks[r][i].step = <<"do", k>>
      PROVE  k \in BlocksIn(own[r])
  BY <1>2 DEF TryInv, EndedClosed, Open
<1> QED
  BY <1>1, <1>2

\* A finally block takes effect once in every run that ends well having left its try
\* step, whoever rolled it back and when, however often its steps were tried and
\* resumed, unless it gave up (TryFinally.ts, finallyRun and markFinallyRun;
\* EventLoop.ts, latestScopeContext.plus).  The hypotheses are what goes wrong otherwise: a
\* tryFinallyStep below another loses its marks to the list a rollback request
\* brings, a block that throws is marked all the same, and a failure that is another
\* run's makes the try step one that handled a failure, which is not undone.
THEOREM FinallyOnce ==
    ASSUME TryAlone, "finally" \notin ThrowingKinds
    PROVE  ContextSpec /\ []FailuresAreOwn => []FinallyRunsOnceUnlessGivenUp
<1>1. TryInv /\ FailuresAreOwn /\ [ContextNext]_allVars => TryInv'
  BY TryInductive
<1> QED
  BY <1>1, TryInitially, OnceFromInv, PTL DEF ContextSpec

\* In particular where no two runs of a coroutine are about at the same time.
COROLLARY FinallyOnceAlone ==
    ASSUME TryAlone, "finally" \notin ThrowingKinds,
           \A r, q \in Run : r[2] = q[2] => r = q
    PROVE  ContextSpec => []FinallyRunsOnceUnlessGivenUp
<1>1. FailuresAreOwn
  BY DEF FailuresAreOwn, SeesFailedRollback, OwnFailed, Candidates, RunsOf
<1> QED
  BY <1>1, FinallyOnce, PTL
=============================================================================
