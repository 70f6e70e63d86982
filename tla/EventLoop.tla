------------------------------ MODULE EventLoop ------------------------------
(***************************************************************************)
(* The event loop: workers that reconcile (insert the SEEN and             *)
(* ROLLING_BACK rows that are due) and drain (pick a ready run under a row *)
(* lock, execute one step of it in one transaction, record the outcome).   *)
(*                                                                         *)
(* A transaction is two or more steps: what it reads first may be stale by *)
(* the time it locks and writes.  Only the writes of a tick that must      *)
(* survive its own abort (ROLLING_BACK, ROLLBACK_FAILED) are committed     *)
(* while it still holds the lock.                                          *)
(***************************************************************************)
EXTENDS MessageEvents

CONSTANTS
    Worker,      \* event-loop workers: one per subscription of an instance
    Serves,      \* worker -> the coroutine it ticks
    MayThrow,    \* <<run, mode>> whose user code may throw
    EmittedIn,   \* message -> the modes in which its emitter may launch it
    Looping,     \* coroutines whose steps may return Repeat or GoTo
    MaxTicks,    \* bound: a run with this many ticks only continues
    MaxRecover,  \* bound: handleChildFailures invocations of a run that return
    MaxAborts,   \* bound: crashes and infrastructure failures
    CancelScopes, RollbackScopes,  \* scopes a client may cancel / roll back
    EagerScopes, \* scopes it may ask to roll back before their saga is completed
    Deadlines    \* <<run, path>> that carry a deadline

\* What a resumed continuation calls: step.invoke, step.handleChildFailures
\* or step.rollback.
Mode == {"invoke", "handle", "rollback"}

ASSUME EventLoopAssumption ==
    /\ Serves \in [Worker -> Coroutine]
    /\ MayThrow \subseteq Run \X Mode
    /\ EmittedIn \in [Message -> SUBSET Mode]
    /\ Looping \subseteq Coroutine
    /\ MaxTicks \in Nat /\ MaxRecover \in Nat /\ MaxAborts \in Nat
    /\ CancelScopes \subseteq Scope /\ RollbackScopes \subseteq Scope
    /\ EagerScopes \subseteq Scope
    /\ Deadlines \subseteq Run \X Path

VARIABLES
    pc,          \* worker -> where its transaction is
    pick,        \* worker -> the run it selected or holds, or Outside
    plan,        \* worker -> the continuation it built for that run
    snapshot,    \* worker -> the rows its reconcile statement selected
    aborts       \* crashes and infrastructure failures so far

tx == <<pc, pick, plan, snapshot, aborts>>
vars == <<log, tx>>

PC == {"idle", "reconciling", "inserting", "selected", "running", "aborting"}

\* back: built by buildRollbackPathContinuation.  last: suspended after the
\* last step.  doomed: the give-up check before the step found a reason.
Plan == [mode : Mode, step : Step, iter : Nat,
         back : BOOLEAN, last : BOOLEAN, doomed : BOOLEAN]

NoPlan == [mode |-> "invoke", step |-> <<"do", 0>>, iter |-> Normal,
           back |-> FALSE, last |-> FALSE, doomed |-> FALSE]

\* A user step of the run's saga, or any synthetic step.
IsStepOf(r, s) == s[1] = "do" => s[2] \in 1..StepCount[r[2]]

Snapshot == [starts : SUBSET Run, undos : SUBSET Run, heals : SUBSET Run]

NoSnapshot == [starts |-> {}, undos |-> {}, heals |-> {}]

Init ==
    /\ LogInit
    /\ pc = [w \in Worker |-> "idle"]
    /\ pick = [w \in Worker |-> Outside]
    /\ plan = [w \in Worker |-> NoPlan]
    /\ snapshot = [w \in Worker |-> NoSnapshot]
    /\ aborts = 0

\* Some row carries the lineage of the scope.
Exists(s) == s \in seen \/ \E m \in emitted \cap RootMessage : s = RootScope(m)

\* message_id_lookup: the message of ANY row of the lineage, the emissions of
\* the scope's run included.
MessagesIn(s) == {s[1]} \cup (EmittedBy(s) \cap emitted)

\* Every variable has the shape the code gives it, and every user step is one
\* of the saga's: what fetchSomePendingCoroutineState would throw on is never
\* written ("next_step is out of bounds").  The unique index keeps a client's row
\* the only one of its message.
TypeOK ==
    /\ LogTypeOK
    /\ pc \in [Worker -> PC]
    /\ pick \in [Worker -> Run \cup {Outside}]
    /\ plan \in [Worker -> Plan]
    /\ snapshot \in [Worker -> Snapshot]
    /\ aborts \in Nat
    /\ \A w \in Worker : pc[w] \in {"selected", "running", "aborting"} => pick[w] \in Run
    /\ \A w \in Worker : pc[w] = "running" => IsStepOf(pick[w], plan[w].step)
    /\ \A r \in Run : \A i \in DOMAIN ticks[r] :
        /\ IsStepOf(r, ticks[r][i].step)
        /\ ticks[r][i].next \in 0..StepCount[r[2]]
    /\ \A q \in asking :
        /\ q.scope \in RollbackScopes /\ Exists(q.scope)
        /\ q.message \in MessagesIn(q.scope) /\ requested[q.message] = Outside
        /\ \A p \in asking : p.message = q.message => p = q

-----------------------------------------------------------------------------
\* FOR UPDATE SKIP LOCKED on SEEN rows, held until the transaction ends.

\* The rows a reconcile pass locked: the emitters of what it starts, the scopes
\* that request what it rolls back, the rows whose stamp it clears.
RowsLocked(sn) ==
    sn.heals \cup {Emitter[c[1]] : c \in sn.starts} \cup {requested[c[1]] : c \in sn.undos}

Holds(w, r) ==
    /\ r \in Run
    /\ \/ pc[w] \in {"running", "aborting"} /\ pick[w] = r
       \/ pc[w] = "inserting" /\ r \in RowsLocked(snapshot[w])

Locked(s) == \E w \in Worker : Holds(w, s)

\* Messages with a ROLLBACK_EMITTED row that is not committed: it is in the unique
\* index, and others who insert one wait for it.
Asked == {q.message : q \in asking}

ToIdle(w) ==
    /\ pc' = [pc EXCEPT ![w] = "idle"]
    /\ pick' = [pick EXCEPT ![w] = Outside]
    /\ plan' = [plan EXCEPT ![w] = NoPlan]
    /\ snapshot' = [snapshot EXCEPT ![w] = NoSnapshot]

-----------------------------------------------------------------------------
\* Reconcile: one statement.  It selects from the snapshot taken when it starts,
\* attempts its row locks while it runs, and its inserts show when it commits.

Due(h) == [starts |-> {c \in RunsOf(h) : StartEligible(c)},
           undos  |-> {c \in RunsOf(h) : RollbackEligible(c)},
           heals  |-> {r \in RunsOf(h) : StaleSettled(r) \/ (RollbackEligible(r) /\ r \in settled)}]

\* A pass that selects nothing changes nothing.
ReconcileBegin(w) ==
    /\ pc[w] = "idle"
    /\ Due(Serves[w]) # NoSnapshot
    /\ pc' = [pc EXCEPT ![w] = "reconciling"]
    /\ snapshot' = [snapshot EXCEPT ![w] = Due(Serves[w])]
    /\ UNCHANGED <<log, pick, plan, aborts>>

\* Mutant of Unlocked: does not ask for the emitter's row.
UnlockedButEmitters(sn) ==
    LET undos == {c \in sn.undos : ~Locked(requested[c[1]])}
    IN  [starts |-> sn.starts,
         undos  |-> undos,
         heals  |-> {r \in sn.heals : ~Locked(r) /\ (r \in sn.undos => r \in undos)}]

\* What is left of the selection once the rows locked by others are skipped.  A
\* start needs the emitter's row and an undo the requesting scope's, where they
\* have one; rolling_back_unsettle takes those of the undone rows that carried a stamp.
Unlocked(sn) ==
    LET undos == {c \in sn.undos : ~Locked(requested[c[1]])}
    IN  [starts |-> {c \in sn.starts : ~Locked(Emitter[c[1]])},
         undos  |-> undos,
         heals  |-> {r \in sn.heals : ~Locked(r) /\ (r \in sn.undos => r \in undos)}]

ReconcileLock(w) ==
    /\ pc[w] = "reconciling"
    /\ pc' = [pc EXCEPT ![w] = "inserting"]
    /\ snapshot' = [snapshot EXCEPT ![w] = Unlocked(snapshot[w])]
    /\ UNCHANGED <<log, pick, plan, aborts>>

\* seen_insert, rolling_back_insert (both ON CONFLICT DO NOTHING) and the unsettles.
ReconcileCommit(w) ==
    LET started == snapshot[w].starts \ seen
        undone  == {c \in snapshot[w].undos : ~RollingBack(c)}
    IN  /\ pc[w] = "inserting"
        /\ seen' = seen \cup started
        /\ marks' = [r \in Run |-> IF r \in undone THEN marks[r] \cup {"ROLLING_BACK"}
                                                   ELSE marks[r]]
        /\ lastEvent' = [r \in Run |-> IF r \in undone THEN "ROLLING_BACK"
                                       ELSE IF r \in started THEN "SEEN"
                                       ELSE lastEvent[r]]
        /\ settled' = settled \ snapshot[w].heals
        /\ ToIdle(w)
        /\ UNCHANGED <<emitted, ticks, requested, asking, cancelled, expired, aborts>>

-----------------------------------------------------------------------------
\* Picking a run: the first query, then the same query again under the lock.

Select(w) ==
    /\ pc[w] = "idle"
    /\ \E r \in RunsOf(Serves[w]) :
        /\ Ready(r)
        /\ ~Locked(r)
        /\ pc' = [pc EXCEPT ![w] = "selected"]
        /\ pick' = [pick EXCEPT ![w] = r]
    /\ UNCHANGED <<log, plan, snapshot, aborts>>

\* The ticks on which the rollback path works: those of user steps.
Originals(r) == {i \in DOMAIN ticks[r] : ticks[r][i].step[1] = "do"}

\* buildRollbackSteps lists, newest tick first, undoChildren(i) and, unless the
\* tick was a handleChildFailures, undoSelf(i).
NewestNotAbove(r, i) ==  \* mutant of NewestBelow: off by one
    CHOOSE j \in Originals(r) : j <= i /\ \A k \in Originals(r) : k <= i => k <= j

NewestBelow(r, i) ==
    CHOOSE j \in Originals(r) : j < i /\ \A k \in Originals(r) : k < i => k <= j

HasOlder(r, i) == \E j \in Originals(r) : j < i

IsLastSubStep(r, s) ==
    /\ ~HasOlder(r, s[2])
    /\ s[1] = "undoChildren" => ticks[r][s[2]].iter # Normal

SubStepAfter(r, s) ==
    IF s[1] = "undoChildren" /\ ticks[r][s[2]].iter = Normal
    THEN <<"undoSelf", s[2]>>
    ELSE <<"undoChildren", NewestBelow(r, s[2])>>

\* The synthetic step of a rollback with nothing to roll back.
Sentinel == <<"undoSelf", 0>>

\* The sentinel is no sub-step of any plan built later.
NotFound(r) == RollingBack(r) /\ HasTicks(r) /\ Latest(r).step = Sentinel

\* The ticks whose rollback steps have the name of tick i's.  A name is made of the
\* saga's step, its iteration and the handler's iteration: each tick that carries no
\* handler iteration counts as one of the step, the others share the latest count.
Namesakes(r, i) ==
    {j \in DOMAIN ticks[r] :
        \/ j = i
        \/ /\ ticks[r][j].step = ticks[r][i].step
           /\ ticks[r][j].iter = ticks[r][i].iter
           /\ ticks[r][i].iter # Normal}

\* rollbackSteps.findIndex: the first sub-step of the list that has the name.
Found(r, s) ==
    <<s[1], CHOOSE j \in Namesakes(r, s[2]) : \A k \in Namesakes(r, s[2]) : k <= j>>

\* The suspension point: the step to run on success, the one whose
\* handleChildFailures runs otherwise, the carried handler iteration.
HappyPoint(r) ==
    IF ~HasTicks(r) THEN
        [next |-> <<"do", 1>>, previous |-> <<"do", 1>>, last |-> FALSE, iter |-> Normal]
    ELSE IF Latest(r).next = 0 THEN
        [next |-> <<"do", StepCount[r[2]]>>, previous |-> <<"do", StepCount[r[2]]>>,
         last |-> TRUE, iter |-> Latest(r).iter]
    ELSE
        [next |-> <<"do", Latest(r).next>>, previous |-> Latest(r).step,
         last |-> FALSE, iter |-> Latest(r).iter]

RollbackPoint(r) ==
    IF ~HasTicks(r) THEN
        [next |-> Sentinel, previous |-> Sentinel, last |-> TRUE, iter |-> Normal]
    ELSE IF Latest(r).step[1] = "do" THEN
        LET first == <<"undoChildren", Len(ticks[r])>>
        IN  [next |-> first, previous |-> first, last |-> FALSE, iter |-> Normal]
    ELSE
        LET s == Found(r, Latest(r).step)
        IN  IF IsLastSubStep(r, s)
            THEN [next |-> s, previous |-> s, last |-> TRUE, iter |-> Latest(r).iter]
            ELSE [next |-> SubStepAfter(r, s), previous |-> s, last |-> FALSE,
                  iter |-> Latest(r).iter]

\* Mutant of ChildFailed: overlooks the children whose rollback succeeded.
ChildRollbackFailed(r) == SeesFailedRollback(r)

\* RollbackState and LastStepResult: any rollback that failed below is a child
\* failure; a child that rolled back is one only to a run still on its happy path.
ChildFailed(r) ==
    SeesFailedRollback(r) \/ (HasRolledBackChild(r) /\ ~RollingBack(r))

PlanFor(r) ==
    LET back  == RollingBack(r)
        point == IF back THEN RollbackPoint(r) ELSE HappyPoint(r)
        mode  == IF ChildFailed(r) THEN "handle"
                 ELSE IF back THEN "rollback" ELSE "invoke"
    IN  [mode   |-> mode,
         step   |-> IF mode = "handle" THEN point.previous ELSE point.next,
         iter   |-> IF mode = "handle" THEN point.iter + 1 ELSE point.iter,
         back   |-> back,
         last   |-> point.last,
         doomed |-> IF back THEN GiveUpOnRollbackPath(r) ELSE GiveUpOnHappyPath(r)]

\* Mutant of Claim: trusts the first query.
ClaimUnchecked(w) ==
    /\ pc[w] = "selected"
    /\ ~Locked(pick[w])
    /\ pc' = [pc EXCEPT ![w] = "running"]
    /\ plan' = [plan EXCEPT ![w] = PlanFor(pick[w])]
    /\ UNCHANGED <<log, pick, snapshot, aborts>>

\* The lock is taken, the second query still finds the run: build its continuation.
Claim(w) ==
    /\ pc[w] = "selected"
    /\ Ready(pick[w])
    /\ ~Locked(pick[w])
    /\ IF NotFound(pick[w])
       THEN pc' = [pc EXCEPT ![w] = "aborting"] /\ UNCHANGED plan
       ELSE /\ pc' = [pc EXCEPT ![w] = "running"]
            /\ plan' = [plan EXCEPT ![w] = PlanFor(pick[w])]
    /\ UNCHANGED <<log, pick, snapshot, aborts>>

\* The row is locked by someone else, or the second query no longer finds it.
LosePick(w) ==
    /\ pc[w] = "selected"
    /\ ~Ready(pick[w]) \/ Locked(pick[w])
    /\ ToIdle(w)
    /\ UNCHANGED <<log, aborts>>

-----------------------------------------------------------------------------
\* The outcomes of resumeWith, each with the row that records it.

AppendTick(r, tick) == ticks' = [ticks EXCEPT ![r] = Append(@, tick)]

\* Mutant of NextChoices: the last step is followed by one more.
NextChoicesPastTheEnd(r, s) == IF s[1] # "do" THEN {0} ELSE {s[2] + 1}

\* markSuspended: Continue past the last step, and every rollback sub-step,
\* leave next_step NULL.
NextChoices(r, s) ==
    IF s[1] # "do" THEN {0}
    ELSE {IF s[2] = StepCount[r[2]] THEN 0 ELSE s[2] + 1} \cup
         (IF r[2] \in Looping /\ Len(ticks[r]) < MaxTicks THEN 1..StepCount[r[2]] ELSE {})

Recoveries(r) == Cardinality({i \in DOMAIN ticks[r] : ticks[r][i].iter # Normal})

\* handleFailuresOrResume runs user code: not the no-op after the last step,
\* not the rollback half of the synthetic undoChildren step.
RunsUserCode(p) ==
    \/ p.mode = "handle"
    \/ ~p.last /\ p.step[1] # "undoChildren"

\* User code returned, having launched some messages.
Suspend(w) ==
    LET r == pick[w]
        p == plan[w]
    IN  /\ pc[w] = "running"
        /\ ~p.doomed
        /\ RunsUserCode(p)
        /\ p.mode = "handle" => Recoveries(r) < MaxRecover
        /\ \E launched \in SUBSET {m \in EmittedBy(r) \ emitted : p.mode \in EmittedIn[m]} :
           \E next \in NextChoices(r, p.step) :
            /\ emitted' = emitted \cup launched
            /\ AppendTick(r, [step |-> p.step, next |-> next, iter |-> p.iter,
                           emits |-> launched, undoes |-> {}])
        /\ lastEvent' = [lastEvent EXCEPT ![r] = "SUSPENDED"]
        /\ ToIdle(w)
        /\ UNCHANGED <<seen, marks, requested, asking, cancelled, settled, expired, aborts>>

\* emitRollbacksForEmissions: requests the rollback of everything the tick
\* emitted.  ROLLBACK_EMITTED is unique per message: a second request makes the
\* insert, and with it the tick, fail as an infrastructure failure; for one that is
\* not committed yet it waits.
UndoChildren(w) ==
    LET r == pick[w]
        p == plan[w]
        undoes == ticks[r][p.step[2]].emits
    IN  /\ pc[w] = "running"
        /\ ~p.doomed
        /\ ~p.last /\ p.mode = "rollback" /\ p.step[1] = "undoChildren"
        /\ \/ /\ \A m \in undoes : requested[m] = Outside /\ m \notin Asked
              /\ requested' = [m \in Message |-> IF m \in undoes THEN r ELSE requested[m]]
              /\ AppendTick(r, [step |-> p.step, next |-> 0, iter |-> p.iter,
                             emits |-> {}, undoes |-> undoes])
              /\ lastEvent' = [lastEvent EXCEPT ![r] = "SUSPENDED"]
              /\ ToIdle(w)
           \/ /\ \E m \in undoes : requested[m] # Outside
              /\ pc' = [pc EXCEPT ![w] = "aborting"]
              /\ UNCHANGED <<requested, ticks, lastEvent, pick, plan, snapshot>>
        /\ UNCHANGED <<emitted, seen, marks, asking, cancelled, settled, expired, aborts>>

\* Nothing left to run: COMMITTED or ROLLED_BACK, stamping settled_at.
Finish(w) ==
    LET r == pick[w]
        p == plan[w]
        mark == IF p.back THEN "ROLLED_BACK" ELSE "COMMITTED"
    IN  /\ pc[w] = "running"
        /\ ~p.doomed
        /\ p.last /\ p.mode # "handle"
        /\ marks' = [marks EXCEPT ![r] = @ \cup {mark}]
        /\ lastEvent' = [lastEvent EXCEPT ![r] = mark]
        /\ settled' = settled \cup {r}
        /\ ToIdle(w)
        /\ UNCHANGED <<emitted, seen, ticks, requested, asking, cancelled, expired, aborts>>

GivesUp(r, p) ==
    \/ p.doomed
    \/ IF p.back THEN GiveUpOnRollbackPath(r) ELSE GiveUpOnHappyPath(r)

\* The step throws or the run gives up: ROLLING_BACK or ROLLBACK_FAILED goes to
\* the log in a transaction of its own, while the tick still holds the row lock;
\* so the settled_at update of that transaction skips the row.  A ROLLING_BACK
\* that is already there makes the insert an infrastructure failure.
Fail(w) ==
    LET r == pick[w]
        p == plan[w]
        mark == IF p.back THEN "ROLLBACK_FAILED" ELSE "ROLLING_BACK"
    IN  /\ pc[w] = "running"
        /\ \/ GivesUp(r, p)
           \/ RunsUserCode(p) /\ <<r, p.mode>> \in MayThrow
        /\ pc' = [pc EXCEPT ![w] = "aborting"]
        /\ IF mark \in marks[r]
           THEN UNCHANGED <<marks, lastEvent>>
           ELSE /\ marks' = [marks EXCEPT ![r] = @ \cup {mark}]
                /\ lastEvent' = [lastEvent EXCEPT ![r] = mark]
        /\ UNCHANGED <<emitted, seen, ticks, requested, asking, cancelled, settled, expired,
                       pick, plan, snapshot, aborts>>

\* inStepTransaction rethrows: the tick's transaction rolls back.
Abort(w) ==
    /\ pc[w] = "aborting"
    /\ ToIdle(w)
    /\ UNCHANGED <<log, aborts>>

\* The process dies or one of its queries fails: the transaction rolls back and
\* the run stays as its last committed step left it.
Crash(w) ==
    /\ pc[w] \in {"reconciling", "inserting", "selected", "running"}
    /\ aborts < MaxAborts
    /\ aborts' = aborts + 1
    /\ ToIdle(w)
    /\ UNCHANGED log

-----------------------------------------------------------------------------
\* What clients and the clock do.

\* launchOnGlobalScope
Launch(m) ==
    /\ m \in RootMessage \ emitted
    /\ emitted' = emitted \cup {m}
    /\ UNCHANGED <<seen, ticks, marks, lastEvent, requested, asking, cancelled, settled,
                   expired, tx>>

NoteInLineage(s, type) ==
    lastEvent' = [r \in Run |-> IF r = s THEN type ELSE lastEvent[r]]

\* The row is stamped when it is inserted and shows when the client commits: it may
\* be behind any row of the run but its first.
Cancel(s) ==
    /\ s \in CancelScopes \ cancelled
    /\ Exists(s)
    /\ cancelled' = cancelled \cup {s}
    /\ \/ NoteInLineage(s, "CANCELLATION_REQUESTED")
       \/ /\ s \in Run => lastEvent[s] # "SEEN"
          /\ UNCHANGED lastEvent
    /\ UNCHANGED <<emitted, seen, ticks, marks, requested, asking, settled, expired, tx>>

\* Every handler above or below the scope (itself excluded) is done.
TreeIsQuiet(s) ==
    \A t \in seen \cap (Above(s) \cup Below(s)) :
        marks[t] \cap {"COMMITTED", "ROLLBACK_FAILED"} # {}

\* The runs a scope stands for: itself, or the handlers of a global message.
SagasOf(s) == IF s \in Run THEN {s} ELSE {r \in Run : RootScope(r[1]) = s}

TicksOf(s) == IF s \in Run THEN Len(ticks[s]) ELSE 0

\* insertRollbackEmittedEvent on the snapshot of its statement: the tree is quiet and
\* the message has no request, so a row is inserted, which nobody sees yet.  rollback
\* is for "an already-completed saga", which eager clients do not wait for.
AskRollback(s) ==
    /\ s \in RollbackScopes
    /\ s \in EagerScopes \/ \A r \in SagasOf(s) : Terminated(r)
    /\ Exists(s)
    /\ TreeIsQuiet(s)
    /\ \E m \in MessagesIn(s) :
        /\ requested[m] = Outside /\ m \notin Asked
        /\ asking' = asking \cup {[message |-> m, scope |-> s, ticks |-> TicksOf(s)]}
    /\ UNCHANGED <<emitted, seen, ticks, marks, lastEvent, requested, cancelled, settled,
                   expired, tx>>

\* The client commits, whatever has happened to the tree since: the row shows, behind
\* the rows of steps that ended meanwhile.
RequestRollback(s) ==
    /\ \E q \in asking :
        /\ q.scope = s
        /\ asking' = asking \ {q}
        /\ requested' = [requested EXCEPT ![q.message] = s]
        /\ IF q.ticks = TicksOf(s) THEN NoteInLineage(s, "ROLLBACK_EMITTED")
                                   ELSE UNCHANGED lastEvent
    /\ UNCHANGED <<emitted, seen, ticks, marks, cancelled, settled, expired, tx>>

\* The client's transaction fails.
WithdrawRollback(s) ==
    /\ \E q \in asking : q.scope = s /\ asking' = asking \ {q}
    /\ UNCHANGED <<emitted, seen, ticks, marks, lastEvent, requested, cancelled, settled,
                   expired, tx>>

\* A deadline in the context of a SEEN, SUSPENDED or ROLLING_BACK row passes.
Expire(r, path) ==
    /\ <<r, path>> \in Deadlines \ expired
    /\ r \in seen
    /\ path = "rollback" => HasTicks(r) \/ RollingBack(r)
    /\ expired' = expired \cup {<<r, path>>}
    /\ UNCHANGED <<emitted, seen, ticks, marks, lastEvent, requested, asking, cancelled,
                   settled, tx>>

-----------------------------------------------------------------------------
Resume(w) == Suspend(w) \/ UndoChildren(w) \/ Finish(w) \/ Fail(w)

\* What ends a transaction that started.
Conclude(w) ==
    \/ ReconcileLock(w) \/ ReconcileCommit(w)
    \/ Claim(w) \/ LosePick(w) \/ Resume(w) \/ Abort(w)

WorkerStep(w) ==
    \/ ReconcileBegin(w) \/ Select(w)
    \/ Conclude(w)
    \/ Crash(w)

Environment ==
    \/ \E m \in Message : Launch(m)
    \/ \E s \in Scope :
        Cancel(s) \/ AskRollback(s) \/ RequestRollback(s) \/ WithdrawRollback(s)
    \/ \E r \in Run, path \in Path : Expire(r, path)

Next == (\E w \in Worker : WorkerStep(w)) \/ Environment

Spec == Init /\ [][Next]_vars

\* tick reconciles and then drains, again and again, so neither half is put off
\* for ever by the other; a transaction that started ends, a client's too.
Fairness ==
    /\ \A w \in Worker :
        /\ SF_vars(ReconcileBegin(w))
        /\ SF_vars(Select(w))
        /\ WF_vars(Conclude(w))
    /\ \A s \in Scope : WF_vars(RequestRollback(s) \/ WithdrawRollback(s))

FairSpec == Spec /\ Fairness

-----------------------------------------------------------------------------
\* Safety.

\* Runs a drain transaction is on.
Executing == {pick[w] : w \in {v \in Worker : pc[v] \in {"running", "aborting"}}}

\* No child that has started and may still run forward.
Active(c) ==
    c \in seen /\ ~Terminated(c) /\ ~RollingBack(c) /\ requested[c[1]] = Outside

\* candidateSeensWaitingToBeProcessed: "all children finished before the parent
\* resumes".  While a worker executes a step of a run, every handler started by
\* what the run's latest step launched has terminated, however many workers
\* reconcile and drain meanwhile.
ChildrenFinishedBeforeParentMoves ==
    \A w \in Worker : pc[w] = "running" =>
        \A c \in ChildSeens(pick[w]) : Terminated(c)

\* Its rollback half: the next compensation waits for every child that rolls
\* back at the request of the latest one.
ChildrenUndoneBeforeParentMoves ==
    \A w \in Worker : pc[w] = "running" =>
        \A c \in ChildRollingBacks(pick[w]) :
            c[1] \in LatestUndoes(pick[w]) => RollbackOver(c)

\* The same of every earlier step: no handler is left running forward behind a
\* run that moves on.  It may be behind one that gave up while handlers were being
\* started and then recovers from a failed rollback before it asked them to roll
\* back (NothingLeftBehind in EventLoopTree_proofs says when it may not).
NoChildLeftBehind ==
    \A w \in Worker : pc[w] = "running" =>
        \A c \in ChildrenOf(pick[w]) : ~Active(c)

\* A run commits only when every handler of everything it launched committed:
\* handleChildFailures may retry, but what it repairs is never taken for success.
CommittedMeansTreeCommitted ==
    \A r \in Run : "COMMITTED" \in marks[r] =>
        \A i \in DOMAIN ticks[r] : ticks[r][i].step[1] = "do" =>
            \A m \in ticks[r][i].emits : \A h \in Listeners[m] :
                "COMMITTED" \in marks[<<m, h>>]

\* insertRollbackEmittedEvent: "if something rolled back, then everything
\* must've rolled back" - every user step undone, every handler it started too.
RolledBackMeansTreeRolledBack ==
    \A r \in Run : "ROLLED_BACK" \in marks[r] =>
        \A i \in Originals(r) :
            /\ ticks[r][i].iter = Normal =>
                \E j \in DOMAIN ticks[r] : ticks[r][j].step = <<"undoSelf", i>>
            /\ \A c \in ChildrenOf(r) :
                c \in seen /\ c[1] \in ticks[r][i].emits => "ROLLED_BACK" \in marks[c]

\* s comes before t, or is t, in the list buildRollbackSteps makes.
NotAfter(s, t) ==
    \/ t[2] < s[2]
    \/ t[2] = s[2] /\ (s[1] = "undoSelf" => t[1] = "undoSelf")

DistinctNames(r) == \A i \in Originals(r) : Namesakes(r, i) = {i}

\* A step is compensated at most once, children first, newest step first: the
\* rollback rows of a run follow the list of buildRollbackSteps, and only a
\* handler of failed children stays on a sub-step that has its row already.  Of a
\* saga that loops after handleChildFailures was called, two sub-steps may have one
\* name, and what was to follow the second follows the first.
CompensatedOnceInReverse ==
    \A r \in Run : \A i, j \in DOMAIN ticks[r] :
        LET earlier == ticks[r][i]
            later   == ticks[r][j]
        IN  i < j /\ earlier.step[1] # "do" =>
            /\ later.step[1] # "do"
            /\ DistinctNames(r) =>
                /\ NotAfter(earlier.step, later.step)
                /\ later.step = earlier.step => later.iter # Normal

\* "prevent the child-starts-while-parent-rolls-back race": a handler starts
\* only while its emitter is suspended on the step that launched the message.
StartsUnderSuspendedParent ==
    [][\A c \in Run : c \in seen' \ seen =>
        LET p == Emitter[c[1]]
        IN  p # Outside =>
            p \notin Executing /\ lastEvent[p] = "SUSPENDED" /\ c[1] \in LatestEmits(p)]_vars

\* A run that entered rollback never executes a forward step again, and a
\* terminated rollback is final.
NoForwardStepAfterRollback ==
    [][\A r \in Run : RollingBack(r) =>
        /\ \A i \in DOMAIN ticks'[r] \ DOMAIN ticks[r] : ticks'[r][i].step[1] # "do"
        /\ RollbackOver(r) => ticks'[r] = ticks[r] /\ marks'[r] = marks[r]]_vars

-----------------------------------------------------------------------------
\* The promise the log keeps.  A run counts as rolling back from the moment its
\* rollback is requested: from then on it is no candidate until it does.

StatusOf(r) ==
    CASE r \notin seen -> "absent"
      [] "ROLLED_BACK" \in marks[r] -> "rolledBack"
      [] "ROLLBACK_FAILED" \in marks[r] -> "rollbackFailed"
      [] OTHER -> IF RollingBack(r) \/ requested[r[1]] # Outside THEN "rollingBack"
                  ELSE IF "COMMITTED" \in marks[r] THEN "committed" ELSE "started"

\* Messages launched by rollback steps.
Repairs ==
    {m \in emitted : Emitter[m] # Outside /\
        \E i \in DOMAIN ticks[Emitter[m]] :
            m \in ticks[Emitter[m]][i].emits /\ ticks[Emitter[m]][i].step[1] # "do"}

Promise == INSTANCE StructuredCooperation WITH
    launched <- emitted,
    repairs <- Repairs,
    status <- [r \in Run |-> StatusOf(r)],
    busy <- Executing

\* The event loop implements structured cooperation.
KeepsPromise == Promise!Spec

-----------------------------------------------------------------------------
\* Liveness.
Over(r) == Terminated(r) /\ (RollingBack(r) => RollbackOver(r))

\* Whatever is launched is, in the end, handled by every listener, and whatever
\* rolls back gets to the end of it.
EverythingEnds ==
    []<>(\A r \in Run :
        /\ r[1] \in emitted => Over(r)
        /\ RollingBack(r) => RollbackOver(r))

\* A run that entered rollback gets to the end of it.
EveryRollbackEnds == \A r \in Run : RollingBack(r) ~> RollbackOver(r)

\* CancellationTest, "cancellation works": a run that is cancelled, itself or
\* through a scope above it, comes to its end.
EveryCancelledRunEnds ==
    \A r \in Run : (r \in seen /\ CancellationRequested(r)) ~> Over(r)
=============================================================================
