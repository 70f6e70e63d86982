---------------------------- MODULE ScopeContext ----------------------------
(***************************************************************************)
(* What the context column of the log holds while the event loop runs: the *)
(* context a message is launched with, the one each row of a run keeps for *)
(* its next continuation, the one a rollback trigger brings along; and     *)
(* tryFinallyStep, which keeps its memory there.                           *)
(*                                                                         *)
(* Every action is an action of EventLoop, together with what it reads and *)
(* writes of contexts.                                                     *)
(***************************************************************************)
EXTENDS EventLoop, CooperationContext

CONSTANTS
    Kind,          \* coroutine -> what its builder declared, step by step
    ThrowingKinds, \* bound: kinds of steps whose invoke may throw
    Additions      \* message -> what its launch may add to the context

\* tryFinallyStep declares two steps, "try" and then "finally".
StepKinds == {"plain", "try", "finally"}

\* An additionalContext: one Element, or a CooperationContextMap of several.
Addition == [entries : {f \in UNION {[D -> Nat] : D \in SUBSET Key} : IsRow(f)},
             map : BOOLEAN]

ASSUME ScopeContextAssumption ==
    /\ Kind \in [Coroutine -> Seq(StepKinds)]
    /\ \A h \in Coroutine :
        /\ Len(Kind[h]) = StepCount[h]
        /\ \A k \in 1..StepCount[h] :
            Kind[h][k] = "finally" <=> k > 1 /\ Kind[h][k - 1] = "try"
        /\ Kind[h][StepCount[h]] # "try"
    /\ ThrowingKinds \subseteq StepKinds
    /\ \A m \in Message : \A a \in Additions[m] :
        /\ IsRow(a.entries) /\ FinallyKey \notin DOMAIN a.entries
        /\ a.map \in BOOLEAN
        /\ ~a.map => \E k \in Key : DOMAIN a.entries = {k}

VARIABLES
    emittedWith,   \* message -> the context of its EMITTED row
    asked,         \* message -> what its launch added (history)
    requestedWith, \* message -> the context of its ROLLBACK_EMITTED row
    own,           \* run -> the context its own newest row keeps
    trigger,       \* run -> the context of a ROLLING_BACK row of reconcile
    triggered,     \* runs whose newest row is that ROLLING_BACK row
    scope,         \* worker -> scope.context of the continuation it runs
    blockRuns      \* run -> step -> how often its finally block took effect

rows == <<emittedWith, asked, requestedWith, own, trigger, triggered>>
contexts == <<rows, scope, blockRuns>>
allVars == <<vars, contexts>>

ContextInit ==
    /\ emittedWith = [m \in Message |-> NoEntries]
    /\ asked = [m \in Message |-> NoEntries]
    /\ requestedWith = [m \in Message |-> NoEntries]
    /\ own = [r \in Run |-> NoEntries]
    /\ trigger = [r \in Run |-> NoEntries]
    /\ triggered = {}
    /\ scope = [w \in Worker |-> EmptyContext]
    /\ blockRuns = [r \in Run |-> [k \in 1..StepCount[r[2]] |-> 0]]

-----------------------------------------------------------------------------
\* scope.context.plus(additionalContext ?? emptyContext())
Plus(ctx, a) ==
    IF a.map THEN PlusMap(ctx, Built(a.entries))
    ELSE LET k == CHOOSE j \in Key : DOMAIN a.entries = {j}
         IN  PlusElement(ctx, k, a.entries[k])

\* The messages of a step or a client, each launched with one of its additions.
LaunchedFrom(ctx) ==
    LET launched == emitted' \ emitted
    IN  \E a \in [launched -> UNION {Additions[m] : m \in launched}] :
        /\ \A m \in launched : a[m] \in Additions[m]
        /\ emittedWith' = [m \in Message |->
                IF m \in launched THEN Written(Plus(ctx, a[m])) ELSE emittedWith[m]]
        /\ asked' = [m \in Message |-> IF m \in launched THEN a[m].entries ELSE asked[m]]

\* The row a run writes of itself becomes the one it resumes from.
Keep(r, ctx) ==
    /\ own' = [own EXCEPT ![r] = Written(ctx)]
    /\ triggered' = triggered \ {r}
    /\ UNCHANGED trigger

\* Mutant of Loaded: leaves out latest_scope_context.
LoadedFromTrigger(r) ==
    IF r \in triggered THEN Read(trigger[r]) ELSE Read(own[r])

\* latestScopeContext.plus(latestContext): of a run that a trigger takes back
\* into rollback, the context it ended with is the second to last one.
Loaded(r) ==
    IF r \in triggered THEN PlusMap(Read(own[r]), Read(trigger[r])) ELSE Read(own[r])

-----------------------------------------------------------------------------
\* tryFinallyStep

\* The saga's step on which the plan works; the sentinel is made of the first one.
TheStep(r, p) ==
    IF p.step[1] = "do" THEN p.step[2]
    ELSE IF p.step = Sentinel THEN 1
    ELSE ticks[r][p.step[2]].step[2]

KindOf(r, p) == Kind[r[2]][TheStep(r, p)]

\* Mutant of BlockOf: the finally step marks its own name.
OwnName(r, p) == TheStep(r, p)

\* The name of a block is the index its try step has in builder.steps.
BlockOf(r, p) == IF KindOf(r, p) = "finally" THEN TheStep(r, p) - 1 ELSE TheStep(r, p)

FinallyRun(ctx, name) == Has(ctx, FinallyKey) /\ name \in Get(ctx, FinallyKey)

MarkFinallyRun(ctx, name) == PlusElement(ctx, FinallyKey, {name})

\* The steps that end in the block: the finally step, the try step's rollback.
ReachesBlock(r, p) ==
    /\ RunsUserCode(p)
    /\ \/ p.mode = "invoke" /\ KindOf(r, p) = "finally"
       \/ p.mode = "rollback" /\ p.step[1] = "undoSelf" /\ KindOf(r, p) = "try"

RunsBlock(r, p, ctx) == ReachesBlock(r, p) /\ ~FinallyRun(ctx, BlockOf(r, p))

\* scope.context once the step has run, or has thrown from its block: the mark
\* is set before the block is called.
AfterStep(r, p, ctx) ==
    IF RunsBlock(r, p, ctx) THEN MarkFinallyRun(ctx, BlockOf(r, p)) ELSE ctx

\* The next step that step.invoke of SagaBuilder.step returns.
Continue(r, p) == IF TheStep(r, p) = StepCount[r[2]] THEN 0 ELSE TheStep(r, p) + 1

-----------------------------------------------------------------------------
\* The actions of EventLoop, with their contexts.

\* seen_insert and rolling_back_insert copy the context of the row that asks.
ContextReconcileCommit(w) ==
    /\ ReconcileCommit(w)
    /\ own' = [r \in Run |-> IF r \in seen' \ seen THEN emittedWith[r[1]] ELSE own[r]]
    /\ LET undone == {r \in Run : marks'[r] # marks[r]}
       IN  /\ trigger' = [r \in Run |->
                    IF r \in undone THEN requestedWith[r[1]] ELSE trigger[r]]
           /\ triggered' = triggered \cup undone
    /\ UNCHANGED <<emittedWith, asked, requestedWith, scope, blockRuns>>

ContextClaim(w) ==
    /\ Claim(w)
    /\ scope' = [scope EXCEPT ![w] =
            IF pc'[w] = "running" THEN Loaded(pick[w]) ELSE EmptyContext]
    /\ UNCHANGED <<rows, blockRuns>>

\* Neither step of tryFinallyStep has a handleChildFailures, which throws then on
\* either path; and both advance with Continue.
ContextSuspend(w) ==
    LET r == pick[w]
        p == plan[w]
        ctx == AfterStep(r, p, scope[w])
    IN  /\ Suspend(w)
        /\ KindOf(r, p) # "plain" =>
            /\ p.mode # "handle"
            /\ ~p.back => ticks'[r][Len(ticks'[r])].next = Continue(r, p)
        /\ LaunchedFrom(ctx)
        /\ Keep(r, ctx)
        /\ blockRuns' = IF RunsBlock(r, p, scope[w])
                        THEN [blockRuns EXCEPT ![r][BlockOf(r, p)] = @ + 1]
                        ELSE blockRuns
        /\ scope' = [scope EXCEPT ![w] = EmptyContext]
        /\ UNCHANGED requestedWith

\* The rollback requests carry scope.context; a request that fails leaves no row.
ContextUndoChildren(w) ==
    /\ UndoChildren(w)
    /\ requestedWith' = [m \in Message |->
            IF requested'[m] # requested[m] THEN Written(scope[w]) ELSE requestedWith[m]]
    /\ IF pc'[w] = "idle" THEN Keep(pick[w], scope[w]) ELSE UNCHANGED <<own, trigger, triggered>>
    /\ scope' = [scope EXCEPT ![w] = EmptyContext]
    /\ UNCHANGED <<emittedWith, asked, blockRuns>>

ContextFinish(w) ==
    /\ Finish(w)
    /\ Keep(pick[w], scope[w])
    /\ scope' = [scope EXCEPT ![w] = EmptyContext]
    /\ UNCHANGED <<emittedWith, asked, requestedWith, blockRuns>>

\* ROLLING_BACK takes the context the scope has when the step fails, although
\* what the step did is undone.  ROLLBACK_FAILED is no row to resume from.
ContextFail(w) ==
    LET r == pick[w]
        p == plan[w]
    IN  /\ Fail(w)
        /\ \/ GivesUp(r, p)
           \/ p.mode = "invoke" => KindOf(r, p) \in ThrowingKinds
        /\ IF "ROLLING_BACK" \in marks'[r] \ marks[r]
           THEN Keep(r, IF p.doomed THEN scope[w] ELSE AfterStep(r, p, scope[w]))
           ELSE UNCHANGED <<own, trigger, triggered>>
        /\ scope' = [scope EXCEPT ![w] = EmptyContext]
        /\ UNCHANGED <<emittedWith, asked, requestedWith, blockRuns>>

ContextCrash(w) ==
    /\ Crash(w)
    /\ scope' = [scope EXCEPT ![w] = EmptyContext]
    /\ UNCHANGED <<rows, blockRuns>>

\* launchOnGlobalScope writes the context it is given.
ContextLaunch(m) ==
    /\ Launch(m)
    /\ LaunchedFrom(EmptyContext)
    /\ UNCHANGED <<requestedWith, own, trigger, triggered, scope, blockRuns>>

\* A client's request carries no context.
ContextRequestRollback(s) ==
    /\ RequestRollback(s)
    /\ requestedWith' = [m \in Message |->
            IF requested'[m] # requested[m] THEN NoEntries ELSE requestedWith[m]]
    /\ UNCHANGED <<emittedWith, asked, own, trigger, triggered, scope, blockRuns>>

\* Steps that neither read nor write a context.
OtherSteps(w) ==
    ReconcileBegin(w) \/ ReconcileLock(w) \/ Select(w) \/ LosePick(w) \/ Abort(w)

\* Nor does a request to cancel, or one to roll back before it is committed; that a
\* deadline passes is an event of its own.
OtherEvents ==
    \/ \E s \in Scope : Cancel(s) \/ AskRollback(s) \/ WithdrawRollback(s)
    \/ \E r \in Run, path \in Path : Expire(r, path)

ContextNext ==
    \/ \E w \in Worker :
        \/ ContextReconcileCommit(w) \/ ContextClaim(w)
        \/ ContextSuspend(w) \/ ContextUndoChildren(w)
        \/ ContextFinish(w) \/ ContextFail(w) \/ ContextCrash(w)
        \/ OtherSteps(w) /\ UNCHANGED contexts
    \/ \E m \in Message : ContextLaunch(m)
    \/ \E s \in Scope : ContextRequestRollback(s)
    \/ OtherEvents /\ UNCHANGED contexts

ContextSpec == Init /\ ContextInit /\ [][ContextNext]_allVars

-----------------------------------------------------------------------------
TrySteps(h) == {k \in 1..StepCount[h] : Kind[h][k] = "try"}

\* Names of blocks: what a list of blocks that ran may hold.
IsScopeRow(f) ==
    /\ IsRow(f)
    /\ FinallyKey \in DOMAIN f =>
        f[FinallyKey] \subseteq UNION {TrySteps(h) : h \in Coroutine}

\* Every row and every scope is a context whose deadlines are instants and whose
\* list of finally blocks names steps that are try steps.
ContextTypeOK ==
    /\ \A m \in Message :
        IsScopeRow(emittedWith[m]) /\ IsRow(asked[m]) /\ IsScopeRow(requestedWith[m])
    /\ \A r \in Run : IsScopeRow(own[r]) /\ IsScopeRow(trigger[r])
    /\ triggered \subseteq {r \in Run : RollingBack(r)}
    /\ \A w \in Worker : IsScopeRow(scope[w].ser) /\ IsScopeRow(scope[w].des)
    /\ \A r \in Run : blockRuns[r] \in [1..StepCount[r[2]] -> Nat]

\* Every try step the run left had its block take effect once.
BlocksRanOnce(r) ==
    \A k \in TrySteps(r[2]) :
        /\ blockRuns[r][k] <= 1
        /\ LET ended == marks[r] \cap {"COMMITTED", "ROLLED_BACK"} # {}
               left  == \E i \in DOMAIN ticks[r] : ticks[r][i].step = <<"do", k>>
           IN  ended /\ left => blockRuns[r][k] = 1

\* TryFinally: "finally blocks run exactly once, whether the saga completes
\* successfully or rolls back" - in every run that came to its end.
FinallyRunsOnce == \A r \in Run : BlocksRanOnce(r)

\* The same of the runs nobody cancels and whose time is not up, whoever asks for
\* the rollback and whenever, however often a step is tried or its run resumed:
\* the marks survive in whatever row the next continuation starts from.
FinallyRunsOnceUnlessGivenUp ==
    \A r \in Run :
        \/ CancellationRequested(r)
        \/ <<r, "happy">> \in expired
        \/ BlocksRanOnce(r)

\* f bounds the life of a run at least as tightly as limits asks.
NoLaterThan(f, limits) ==
    \A k \in DeadlineKeys \cap DOMAIN limits : k \in DOMAIN f /\ f[k] <= limits[k]

\* What the clients asked for the trees the scope is part of.
TreeLimits(s) == {asked[m] : m \in {n \in RootMessage : RootScope(n) \in Lineage[s]}}

\* Deadline: "When multiple deadlines of the same type are combined, the earliest
\* deadline wins" - a message is launched with no later deadline than its launch
\* asked for, nor than the client put on the tree it belongs to; and no row of a
\* run below, a rollback trigger's included, puts that one off.
EarliestDeadlineWins ==
    /\ \A m \in emitted :
        /\ NoLaterThan(emittedWith[m], asked[m])
        /\ \A limits \in TreeLimits(EmittingScope(m)) : NoLaterThan(emittedWith[m], limits)
    /\ \A r \in seen : \A limits \in TreeLimits(r) : NoLaterThan(own[r], limits)
=============================================================================
