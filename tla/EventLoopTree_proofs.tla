------------------------ MODULE EventLoopTree_proofs ------------------------
(***************************************************************************)
(* What the outcome of a run says about the runs below it, for every       *)
(* hierarchy, every number of workers and every bound: what it commits     *)
(* over, what it compensates over, and that it never turns back.           *)
(***************************************************************************)
EXTENDS EventLoop_proofs

\* What a step writes, as far as the tree is concerned.

\* w commits a tick in which user code ran.
Launches(w, t) ==
    /\ Closes(w, t)
    /\ ~plan[w].doomed /\ RunsUserCode(plan[w])
    /\ t.undoes = {}
    /\ t.emits \subseteq EmittedBy(pick[w])
    /\ emitted' = emitted \cup t.emits
    /\ UNCHANGED <<seen, marks, requested>>

\* w commits a tick that requests the rollback of what an earlier one launched.
Requests(w, t) ==
    /\ Closes(w, t)
    /\ ~plan[w].doomed
    /\ ~plan[w].last /\ plan[w].mode = "rollback" /\ plan[w].step[1] = "undoChildren"
    /\ t.emits = {}
    /\ t.undoes = ticks[pick[w]][plan[w].step[2]].emits
    /\ \A m \in t.undoes : requested[m] = Outside
    /\ requested' = [m \in Message |-> IF m \in t.undoes THEN pick[w] ELSE requested[m]]
    /\ UNCHANGED <<emitted, seen, marks>>

LEMMA UndoChildrenRequests ==
    ASSUME TypeOK, NEW w \in Worker, UndoChildren(w)
    PROVE  UNCHANGED <<ticks, requested>> \/ \E t : Requests(w, t)
<1> DEFINE t == [step |-> plan[w].step, next |-> 0, iter |-> plan[w].iter,
                 emits |-> {}, undoes |-> ticks[pick[w]][plan[w].step[2]].emits]
<1>1. /\ t.step = plan[w].step /\ t.iter = plan[w].iter
      /\ t.emits = {} /\ t.undoes = ticks[pick[w]][plan[w].step[2]].emits
  OBVIOUS
<1> SUFFICES ASSUME ~UNCHANGED <<ticks, requested>>
             PROVE  Requests(w, t)
  OBVIOUS
<1>2. /\ \A m \in t.undoes : requested[m] = Outside
      /\ requested' = [m \in Message |-> IF m \in t.undoes THEN pick[w] ELSE requested[m]]
      /\ AppendTick(pick[w], t)
      /\ ToIdle(w)
  BY DEF UndoChildren
<1>3. /\ pc[w] = "running" /\ ~plan[w].last /\ ~plan[w].doomed
      /\ plan[w].mode = "rollback" /\ plan[w].step[1] = "undoChildren"
      /\ UNCHANGED <<emitted, seen, marks>>
  BY DEF UndoChildren
<1>4. pc'[w] = "idle"
  BY <1>2 DEF ToIdle, TypeOK
<1> HIDE DEF t
<1> QED
  BY <1>1, <1>2, <1>3, <1>4 DEF Requests, Closes

LEMMA SuspendLaunches ==
    ASSUME TypeOK, NEW w \in Worker, Suspend(w)
    PROVE  \E t : Launches(w, t)
<1>1. PICK launched \in SUBSET {m \in EmittedBy(pick[w]) \ emitted :
                                  plan[w].mode \in EmittedIn[m]} :
      \E next \in NextChoices(pick[w], plan[w].step) :
        /\ emitted' = emitted \cup launched
        /\ AppendTick(pick[w], [step |-> plan[w].step, next |-> next, iter |-> plan[w].iter,
                                emits |-> launched, undoes |-> {}])
  BY DEF Suspend
<1>2. PICK next :
        AppendTick(pick[w], [step |-> plan[w].step, next |-> next, iter |-> plan[w].iter,
                             emits |-> launched, undoes |-> {}])
  BY <1>1
<1>3. /\ pc[w] = "running" /\ pc'[w] = "idle" /\ (plan[w].last => plan[w].mode = "handle")
      /\ ~plan[w].doomed /\ RunsUserCode(plan[w]) /\ UNCHANGED <<seen, marks, requested>>
  BY DEF Suspend, ToIdle, RunsUserCode, TypeOK
<1> QED
  BY <1>1, <1>2, <1>3 DEF Launches, Closes

LEMMA TickWritten ==
    ASSUME TypeOK, [Next]_vars
    PROVE  UNCHANGED ticks \/ \E w \in Worker : \E t : Launches(w, t) \/ Requests(w, t)
<1>1. ASSUME NEW w \in Worker, Suspend(w)
      PROVE  \E t : Launches(w, t)
  BY <1>1, SuspendLaunches
<1>2. ASSUME NEW w \in Worker, UndoChildren(w)
      PROVE  UNCHANGED ticks \/ \E t : Requests(w, t)
  BY <1>2, UndoChildrenRequests
<1>3. UNCHANGED ticks \/ \E w \in Worker : Suspend(w) \/ UndoChildren(w)
  BY DEF Next, WorkerStep, Conclude, Resume, Environment, vars, log, ReconcileBegin,
         ReconcileLock, ReconcileCommit, Select, Claim, LosePick, Finish, Fail,
         Abort, Crash, Launch, Cancel, AskRollback, RequestRollback, WithdrawRollback, Expire
<1> QED
  BY <1>1, <1>2, <1>3

\* No SEEN row is taken back.
LEMMA SeenKept ==
    ASSUME [Next]_vars
    PROVE  seen \subseteq seen'
BY DEF Next, WorkerStep, Conclude, Resume, Environment, vars, log, ReconcileBegin,
       ReconcileLock, ReconcileCommit, Select, Claim, LosePick, Suspend, UndoChildren, Finish,
       Fail, Abort, Crash, Launch, Cancel, AskRollback, RequestRollback, WithdrawRollback, Expire

\* w writes the last row of the run it executes.
Ends(w, mark) ==
    /\ pc'[w] = "idle"
    /\ ~plan[w].doomed
    /\ plan[w].last /\ plan[w].mode # "handle"
    /\ mark = IF plan[w].back THEN "ROLLED_BACK" ELSE "COMMITTED"

\* w writes, ahead of its abort, that the run it executes failed.
Breaks(w, mark) ==
    /\ pc'[w] = "aborting"
    /\ mark = IF plan[w].back THEN "ROLLBACK_FAILED" ELSE "ROLLING_BACK"

LEMMA MarkWritten ==
    ASSUME TypeOK, UndosRequested, [Next]_vars,
           NEW r \in Run, NEW mark \in marks'[r], mark \notin marks[r]
    PROVE  \/ /\ mark = "ROLLING_BACK"
              /\ requested[r[1]] # Outside
              /\ \E v \in Worker : pc[v] = "inserting" /\ r \in snapshot[v].undos
           \/ \E w \in Worker : /\ pc[w] = "running" /\ pick[w] = r
                                /\ Ends(w, mark) \/ Breaks(w, mark)
<1>1. ASSUME NEW w \in Worker, ReconcileCommit(w)
      PROVE  /\ mark = "ROLLING_BACK" /\ requested[r[1]] # Outside
             /\ pc[w] = "inserting" /\ r \in snapshot[w].undos
  BY <1>1 DEF ReconcileCommit, UndosRequested
<1>2. ASSUME NEW w \in Worker, Finish(w)
      PROVE  pc[w] = "running" /\ pick[w] = r /\ Ends(w, mark)
  BY <1>2 DEF Finish, Ends, ToIdle, TypeOK, LogTypeOK
<1>3. ASSUME NEW w \in Worker, Fail(w)
      PROVE  pc[w] = "running" /\ pick[w] = r /\ Breaks(w, mark)
  <2>1. PICK new : new = IF plan[w].back THEN "ROLLBACK_FAILED" ELSE "ROLLING_BACK"
    OBVIOUS
  <2>2. /\ pc[w] = "running" /\ pc' = [pc EXCEPT ![w] = "aborting"]
        /\ UNCHANGED marks \/ marks' = [marks EXCEPT ![pick[w]] = @ \cup {new}]
    BY <1>3, <2>1 DEF Fail
  <2>3. pick[w] = r /\ mark = new
    <3>1. marks \in [Run -> SUBSET MarkType]
      BY DEF TypeOK, LogTypeOK
    <3> QED
      BY <2>2, <3>1
  <2>4. pc'[w] = "aborting"
    BY <2>2 DEF TypeOK
  <2> QED
    BY <2>1, <2>2, <2>3, <2>4 DEF Breaks
<1>4. ~UNCHANGED marks
  OBVIOUS
<1> QED
  BY <1>1, <1>2, <1>3, <1>4
     DEF Next, WorkerStep, Conclude, Resume, Environment, vars, log, ReconcileBegin,
         ReconcileLock, Select, Claim, LosePick, Suspend, UndoChildren,
         Abort, Crash, Launch, Cancel, AskRollback, RequestRollback, WithdrawRollback, Expire

LEMMA RequestWritten ==
    ASSUME TypeOK, [Next]_vars, NEW m \in Message, requested'[m] # requested[m]
    PROVE  \/ \E w \in Worker : \E t : Requests(w, t) /\ m \in t.undoes
           \/ \E q \in asking : q.message = m /\ requested'[m] = q.scope
<1>1. ASSUME NEW w \in Worker, UndoChildren(w)
      PROVE  \E t : Requests(w, t) /\ m \in t.undoes
  <2>1. PICK t : Requests(w, t)
    BY <1>1, UndoChildrenRequests
  <2> QED
    BY <2>1 DEF Requests
<1>2. ASSUME NEW s \in Scope, RequestRollback(s)
      PROVE  \E q \in asking : q.message = m /\ requested'[m] = q.scope
  BY <1>2 DEF RequestRollback, TypeOK, LogTypeOK
<1>3. \/ \E w \in Worker : UndoChildren(w)
      \/ \E s \in Scope : RequestRollback(s)
  <2>1. ~UNCHANGED requested
    OBVIOUS
  <2> QED
    BY <2>1
       DEF Next, WorkerStep, Conclude, Resume, Environment, vars, log, tx, ReconcileBegin,
           ReconcileLock, ReconcileCommit, Select, Claim, LosePick, Suspend, Finish, Fail,
           Abort, Crash, Launch, Cancel, AskRollback, WithdrawRollback, Expire
<1> QED
  BY <1>1, <1>2, <1>3

-----------------------------------------------------------------------------
\* The run a worker executes, and what its ticks say.

\* Every handler of what the i-th tick launched started and came to its end.
Ended(r, i) ==
    \A m \in ticks[r][i].emits : \A h \in Listeners[m] :
        <<m, h>> \in seen /\ Terminated(<<m, h>>)

AllCommitted(r, i) ==
    \A m \in ticks[r][i].emits : \A h \in Listeners[m] : "COMMITTED" \in marks[<<m, h>>]

\* Only what rolls back ends its rollback.
OverMeansRollingBack == \A r \in Run : RollbackOver(r) => RollingBack(r)

TickOwned(r, i) ==
    /\ ticks[r][i].emits \subseteq EmittedBy(r)
    /\ ticks[r][i].undoes # {} => ticks[r][i].step[1] # "do"
    /\ \A m \in ticks[r][i].undoes : requested[m] = r

TicksOwned == \A r \in Run : \A i \in DOMAIN ticks[r] : TickOwned(r, i)

\* A continuation runs in the direction in which it was built, a run without a
\* request in the direction its marks say, and never past its end.
Fits(r, p) ==
    /\ r \in seen
    /\ ~RollbackOver(r)
    /\ p.back <=> p.step[1] # "do"
    /\ p.back => RollingBack(r)
    /\ ~p.back => "COMMITTED" \notin marks[r]
    /\ ~p.back /\ requested[r[1]] = Outside => ~RollingBack(r)

RunnersFit == \A w \in Worker : pc[w] = "running" => Fits(pick[w], plan[w])

RunnerInv ==
    /\ CompensationInv
    /\ OverMeansRollingBack
    /\ TicksOwned
    /\ RunnersFit

\* What Claim finds and builds.
LEMMA Claimed ==
    ASSUME CompensationInv, NEW w \in Worker, Claim(w), pc'[w] = "running"
    PROVE  /\ pick[w] \in Run /\ pick'[w] = pick[w] /\ Ready(pick[w]) /\ Candidate(pick[w])
           /\ ~NotFound(pick[w]) /\ plan'[w] = PlanFor(pick[w])
           /\ UNCHANGED log
<1>1. pick[w] \in Run /\ pick' = pick /\ Ready(pick[w]) /\ UNCHANGED log
  BY DEF Claim, CompensationInv, TypeOK
<1>2. ~NotFound(pick[w])
  BY DEF Claim, CompensationInv, TypeOK
<1>3. plan'[w] = PlanFor(pick[w])
  BY <1>2 DEF Claim, CompensationInv, TypeOK
<1> QED
  BY <1>1, <1>2, <1>3 DEF Ready

LEMMA PlanDirection ==
    ASSUME CompensationInv, NEW r \in Run, ~NotFound(r)
    PROVE  /\ PlanFor(r).back <=> RollingBack(r)
           /\ PlanFor(r).back <=> PlanFor(r).step[1] # "do"
           /\ ~PlanFor(r).back /\ ~PlanFor(r).doomed => ~GiveUpOnHappyPath(r)
           /\ ~PlanFor(r).back /\ PlanFor(r).mode # "handle" => ~HasRolledBackChild(r)
<1>1. PlanFor(r).back <=> RollingBack(r)
  BY DEF PlanFor
<1>2. CASE RollingBack(r)
  BY <1>1, <1>2, RollbackPointOK DEF PlanFor, CompensationInv
<1>3. CASE ~RollingBack(r)
  <2>1. HasTicks(r) => Latest(r).step[1] = "do"
    BY <1>3, TickTypes DEF CompensationInv, UndosMeanRollingBack, Latest
  <2>2. HappyPoint(r).next[1] = "do" /\ HappyPoint(r).previous[1] = "do"
    BY <2>1 DEF HappyPoint
  <2> QED
    BY <1>1, <1>3, <2>2 DEF PlanFor, ChildFailed
<1> QED
  BY <1>2, <1>3

LEMMA OverStep ==
    ASSUME RunnerInv, [Next]_vars
    PROVE  OverMeansRollingBack'
<1> SUFFICES ASSUME NEW r \in Run, RollbackOver(r)'
             PROVE  RollingBack(r)'
  BY DEF OverMeansRollingBack
<1>1. TypeOK /\ UndosRequested
  BY DEF RunnerInv, CompensationInv, Locking
<1>2. PICK mark \in {"ROLLED_BACK", "ROLLBACK_FAILED"} : mark \in marks'[r]
  BY DEF RollbackOver
<1>3. CASE mark \in marks[r]
  BY <1>1, <1>2, <1>3, MarksKept DEF RunnerInv, OverMeansRollingBack, RollbackOver, RollingBack
<1>4. CASE mark \notin marks[r]
  <2>1. PICK w \in Worker : pc[w] = "running" /\ pick[w] = r /\ (Ends(w, mark) \/ Breaks(w, mark))
    BY <1>1, <1>2, <1>4, MarkWritten
  <2>2. plan[w].back
    BY <1>2, <2>1 DEF Ends, Breaks
  <2> QED
    BY <1>1, <2>1, <2>2, MarksKept DEF RunnerInv, RunnersFit, Fits, RollingBack
<1> QED
  BY <1>3, <1>4

LEMMA TicksOwnedStep ==
    ASSUME RunnerInv, [Next]_vars
    PROVE  TicksOwned'
<1>1. TypeOK
  BY DEF RunnerInv, CompensationInv
<1>2. ASSUME NEW r \in Run, NEW i \in DOMAIN ticks[r], ticks'[r][i] = ticks[r][i]
      PROVE  TickOwned(r, i)'
  <2>1. ticks[r][i].undoes \in SUBSET Message /\ Outside \notin Run
    BY <1>1, TickTypes, TreeTypes
  <2> QED
    BY <1>1, <1>2, <2>1, RequestsKept DEF RunnerInv, TicksOwned, TickOwned, EmittedBy
<1>3. CASE UNCHANGED ticks
  BY <1>2, <1>3 DEF TicksOwned
<1>4. ASSUME NEW w \in Worker, NEW t, Launches(w, t) \/ Requests(w, t)
      PROVE  TicksOwned'
  <2>1. pick[w] \in Run /\ Closes(w, t) /\ AppendTick(pick[w], t) /\ t.step = plan[w].step
    BY <1>1, <1>4 DEF Launches, Requests, Closes, TypeOK
  <2>2. PICK r, n : r \in Run /\ r = pick[w] /\ n = Len(ticks[r]) + 1
    BY <2>1
  <2>3. /\ DOMAIN ticks'[r] = DOMAIN ticks[r] \cup {n}
        /\ ticks'[r][n] = t
        /\ \A i \in DOMAIN ticks[r] : ticks'[r][i] = ticks[r][i]
        /\ \A q \in Run : q # r => ticks'[q] = ticks[q]
    BY <1>1, <2>1, <2>2, AppendedTick
  <2>4. TickOwned(r, n)'
    <3>1. CASE Launches(w, t)
      BY <2>2, <2>3, <3>1 DEF TickOwned, Launches
    <3>2. CASE Requests(w, t)
      <4>1. plan[w].step[2] \in DOMAIN ticks[r]
        <5>1. InRange(r, plan[w].step)
          BY <2>1, <2>2 DEF RunnerInv, CompensationInv, Ranged, Closes
        <5> QED
          BY <3>2, <5>1 DEF Requests, InRange, Sentinel, Originals
      <4>2. t.undoes \in SUBSET Message
        BY <1>1, <2>2, <3>2, <4>1, TickTypes DEF Requests
      <4>3. \A m \in t.undoes : requested'[m] = r
        BY <2>2, <3>2, <4>2 DEF Requests
      <4>4. t.emits = {} /\ t.step[1] # "do"
        BY <2>1, <3>2 DEF Requests
      <4> QED
        BY <2>3, <4>3, <4>4 DEF TickOwned
    <3> QED
      BY <1>4, <3>1, <3>2
  <2> QED
    <3> SUFFICES ASSUME NEW q \in Run, NEW i \in DOMAIN ticks'[q]
                 PROVE  TickOwned(q, i)'
      BY DEF TicksOwned
    <3>1. CASE q = r /\ i = n
      BY <2>4, <3>1
    <3>2. CASE ~(q = r /\ i = n)
      BY <1>2, <2>3, <3>2
    <3> QED
      BY <3>1, <3>2
<1> QED
  BY <1>1, <1>3, <1>4, TickWritten

\* A run that a worker executes gets no mark from anybody else, except the
\* ROLLING_BACK that was asked for.
LEMMA MarksOfRunner ==
    ASSUME RunnerInv, [Next]_vars, NEW w \in Worker, pc[w] = "running", Stays(w),
           NEW mark \in marks'[pick[w]], mark \notin marks[pick[w]]
    PROVE  /\ mark = "ROLLING_BACK"
           /\ requested[pick[w][1]] # Outside
           /\ \E v \in Worker : pc[v] = "inserting" /\ pick[w] \in snapshot[v].undos
<1>1. TypeOK /\ UndosRequested /\ OneHolder /\ pick[w] \in Run
  BY DEF RunnerInv, CompensationInv, Locking, TypeOK
<1>2. ASSUME NEW v \in Worker, pc[v] = "running", pick[v] = pick[w], Ends(v, mark) \/ Breaks(v, mark)
      PROVE  FALSE
  <2>1. v = w
    BY <1>1, <1>2 DEF OneHolder, Holds
  <2>2. CASE Breaks(v, mark)
    BY <2>1, <2>2 DEF Breaks, Stays
  <2>3. CASE Ends(v, mark)
    BY <2>1, <2>3 DEF Ends, Stays
  <2> QED
    BY <1>2, <2>2, <2>3
<1> QED
  BY <1>1, <1>2, MarkWritten

LEMMA RunnersFitStep ==
    ASSUME RunnerInv, [Next]_vars
    PROVE  RunnersFit'
<1> SUFFICES ASSUME NEW w \in Worker, pc'[w] = "running"
             PROVE  Fits(pick[w], plan[w])'
  BY DEF RunnersFit
<1>1. TypeOK /\ Locking /\ CompensationInv
  BY DEF RunnerInv, CompensationInv
<1>2. CASE Claim(w) /\ pc[w] = "selected"
  <2>1. PICK r \in Run : /\ r = pick[w] /\ pick'[w] = r /\ Ready(r) /\ Candidate(r)
                         /\ ~NotFound(r) /\ plan'[w] = PlanFor(r)
                         /\ UNCHANGED <<seen, marks, requested>>
    BY <1>1, <1>2, Claimed DEF log
  <2>2. Fits(r, PlanFor(r))
    <3>1. RollbackOver(r) => RollingBack(r)
      BY DEF RunnerInv, OverMeansRollingBack
    <3> QED
      BY <1>1, <2>1, <3>1, PlanDirection DEF Fits, Candidate, RollingBack
  <2> QED
    BY <2>1, <2>2 DEF Fits, RollbackOver, RollingBack
<1>3. CASE pc[w] = "running" /\ Stays(w)
  <2>1. PICK r, p : /\ r \in Run /\ r = pick[w] /\ pick'[w] = r /\ p = plan[w] /\ plan'[w] = p
                    /\ Fits(r, p)
    BY <1>1, <1>3 DEF Stays, TypeOK, RunnerInv, RunnersFit
  <2>2. seen \subseteq seen' /\ marks[r] \subseteq marks'[r]
    BY <1>1, <2>1, SeenKept, MarksKept
  <2>3. \A mark \in marks'[r] :
          \/ mark \in marks[r]
          \/ mark = "ROLLING_BACK" /\ requested[r[1]] # Outside
    BY <1>3, <2>1, MarksOfRunner
  <2>4. requested'[r[1]] = Outside => requested[r[1]] = Outside
    <3>1. r[1] \in Message
      BY <2>1, TreeTypes
    <3> QED
      BY <1>1, <3>1, RequestsKept
  <2>5. RollingBack(r)' /\ ~RollingBack(r) => requested'[r[1]] # Outside
    BY <2>3, <2>4 DEF RollingBack
  <2>6. ~RollbackOver(r)' /\ (p.back => RollingBack(r)') /\ (~p.back => "COMMITTED" \notin marks'[r])
    BY <2>1, <2>2, <2>3 DEF Fits, RollbackOver, RollingBack
  <2> QED
    BY <2>1, <2>2, <2>4, <2>5, <2>6 DEF Fits, RollbackOver, RollingBack
<1> QED
  BY <1>1, <1>2, <1>3, StillRunning

LEMMA RunnerInductive == RunnerInv /\ [Next]_vars => RunnerInv'
BY CompensationInductive, OverStep, TicksOwnedStep, RunnersFitStep DEF RunnerInv

LEMMA RunnerInitially == Init => RunnerInv
<1> SUFFICES ASSUME Init
             PROVE  RunnerInv
  OBVIOUS
<1>1. OverMeansRollingBack /\ TicksOwned /\ RunnersFit
  BY DEF Init, LogInit, OverMeansRollingBack, TicksOwned, RunnersFit, RollbackOver
<1> QED
  BY <1>1, CompensationInitially DEF RunnerInv

-----------------------------------------------------------------------------
\* A run that goes on has waited for everything it ever launched.

WaitedFor ==
    /\ \A r \in Run : \A i, j \in DOMAIN ticks[r] :
        i < j /\ ticks[r][j].step[1] = "do" => Ended(r, i)
    /\ \A w \in Worker : pc[w] = "running" /\ ~plan[w].back /\ ~plan[w].doomed =>
        \A i \in DOMAIN ticks[pick[w]] :
            /\ Ended(pick[w], i)
            /\ plan[w].mode # "handle" => AllCommitted(pick[w], i)

\* The inductive invariant: a run that has COMMITTED gets no forward tick any
\* more, and the one that committed had waited for every tick and found none of
\* its children rolling back.
OutcomeInv ==
    /\ RunnerInv
    /\ Windows
    /\ WaitedFor
    /\ CommittedMeansTreeCommitted

\* The pair of a message and one of its listeners is a child of who launched it.
LEMMA ListenersAreChildren ==
    ASSUME RunnerInv, NEW r \in Run, NEW i \in DOMAIN ticks[r],
           NEW m \in ticks[r][i].emits, NEW h \in Listeners[m]
    PROVE  <<m, h>> \in ChildrenOf(r)
<1>1. m \in Message /\ Emitter[m] = r
  BY DEF RunnerInv, TicksOwned, TickOwned, EmittedBy
<1>2. <<m, h>> \in Run
  BY <1>1 DEF Run
<1> QED
  BY <1>1, <1>2 DEF ChildrenOf

LEMMA EndedKept ==
    ASSUME RunnerInv, [Next]_vars, NEW r \in Run, NEW i \in DOMAIN ticks[r],
           ticks'[r][i] = ticks[r][i]
    PROVE  /\ Ended(r, i) => Ended(r, i)'
           /\ AllCommitted(r, i) => AllCommitted(r, i)'
<1>1. \A m \in ticks[r][i].emits : \A h \in Listeners[m] :
        marks[<<m, h>>] \subseteq marks'[<<m, h>>] /\ seen \subseteq seen'
  BY ListenersAreChildren, MarksKept, SeenKept DEF ChildrenOf, RunnerInv, CompensationInv
<1> QED
  BY <1>1 DEF Ended, AllCommitted, Terminated

\* What the readiness query asks of a run that is to go on forward.
LEMMA ReadyHasWaited ==
    ASSUME OutcomeInv, NEW r \in Run, Ready(r), ~RollingBack(r), ~GiveUpOnHappyPath(r),
           NEW i \in DOMAIN ticks[r]
    PROVE  Ended(r, i)
<1>1. TypeOK /\ RunnerInv /\ UndosMeanRollingBack
  BY DEF OutcomeInv, RunnerInv, CompensationInv
<1>2. /\ Len(ticks[r]) \in DOMAIN ticks[r] /\ HasTicks(r)
      /\ ticks[r][Len(ticks[r])].step[1] = "do"
      /\ DOMAIN ticks[r] = 1 .. Len(ticks[r]) /\ Len(ticks[r]) \in Nat
  BY <1>1, TickTypes DEF UndosMeanRollingBack, HasTicks
<1>3. CASE i = Len(ticks[r])
  <2>1. LatestUndoes(r) = {} /\ LatestEmits(r) = ticks[r][i].emits
    BY <1>1, <1>2, <1>3 DEF RunnerInv, TicksOwned, TickOwned, LatestUndoes, LatestEmits, Latest
  <2>2. ResumeHappyPath(r) /\ Candidate(r) /\ \A c \in ChildSeens(r) : Terminated(c)
    BY <2>1 DEF Ready
  <2>3. ASSUME NEW m \in ticks[r][i].emits, NEW h \in Listeners[m]
        PROVE  <<m, h>> \in seen /\ Terminated(<<m, h>>)
    <3>1. <<m, h>> \in Run /\ Emitter[m] = r
      BY <1>1, ListenersAreChildren DEF ChildrenOf
    <3>2. r \in Candidates(r[2])
      BY <2>2 DEF Candidates, RunsOf
    <3>3. <<m, h>> \in seen
      BY <2>1, <2>2, <2>3, <3>2 DEF ResumeHappyPath, AllStarted
    <3>4. <<m, h>> \in ChildSeens(r)
      BY <2>1, <3>1, <3>3 DEF ChildSeens
    <3> QED
      BY <2>2, <3>3, <3>4
  <2> QED
    BY <2>3 DEF Ended
<1>4. CASE i # Len(ticks[r])
  BY <1>2, <1>4 DEF OutcomeInv, WaitedFor
<1> QED
  BY <1>3, <1>4

LEMMA WaitedForStep ==
    ASSUME OutcomeInv, [Next]_vars
    PROVE  WaitedFor'
<1>1. TypeOK /\ Locking /\ CompensationInv /\ RunnerInv
  BY DEF OutcomeInv, RunnerInv, CompensationInv
<1>2. ASSUME NEW w \in Worker, pc'[w] = "running", ~plan'[w].back, ~plan'[w].doomed,
             NEW i \in DOMAIN ticks'[pick'[w]]
      PROVE  /\ Ended(pick[w], i)'
             /\ plan'[w].mode # "handle" => AllCommitted(pick[w], i)'
  <2>1. CASE Claim(w) /\ pc[w] = "selected"
    <3>1. PICK r \in Run : /\ r = pick[w] /\ pick'[w] = r /\ Ready(r)
                           /\ ~NotFound(r) /\ plan'[w] = PlanFor(r)
                           /\ UNCHANGED <<ticks, marks, seen>>
      BY <1>1, <2>1, <1>2, Claimed DEF log
    <3>2. ~RollingBack(r) /\ ~GiveUpOnHappyPath(r) /\ i \in DOMAIN ticks[r]
      BY <1>1, <1>2, <3>1, PlanDirection
    <3>3. Ended(r, i)
      BY <3>1, <3>2, ReadyHasWaited
    <3>4. plan'[w].mode # "handle" => AllCommitted(r, i)
      <4> SUFFICES ASSUME plan'[w].mode # "handle",
                          NEW m \in ticks[r][i].emits, NEW h \in Listeners[m]
                   PROVE  "COMMITTED" \in marks[<<m, h>>]
        BY DEF AllCommitted
      <4>1. ~HasRolledBackChild(r)
        BY <1>1, <1>2, <3>1, PlanDirection
      <4>2. <<m, h>> \in ChildrenOf(r) /\ <<m, h>> \in Run
        BY <1>1, <3>2, ListenersAreChildren DEF ChildrenOf
      <4>3. ~RollingBack(<<m, h>>) /\ ~RollbackOver(<<m, h>>)
        BY <1>1, <4>1, <4>2 DEF HasRolledBackChild, ChildRollingBacks, RunnerInv,
                                OverMeansRollingBack
      <4>4. Terminated(<<m, h>>)
        BY <3>3 DEF Ended
      <4> QED
        BY <4>3, <4>4 DEF Terminated, RollbackOver
    <3> QED
      BY <3>1, <3>3, <3>4 DEF Ended, AllCommitted, Terminated
  <2>2. CASE pc[w] = "running" /\ Stays(w) /\ ticks'[pick[w]] = ticks[pick[w]]
    <3>1. PICK r, p : /\ r \in Run /\ r = pick[w] /\ pick'[w] = r /\ p = plan[w] /\ plan'[w] = p
                      /\ ticks'[r] = ticks[r]
      BY <1>1, <2>2 DEF Stays, TypeOK
    <3>2. Ended(r, i) /\ (p.mode # "handle" => AllCommitted(r, i))
      BY <1>2, <2>2, <3>1 DEF OutcomeInv, WaitedFor
    <3> QED
      BY <1>1, <1>2, <3>1, <3>2, EndedKept
  <2> QED
    BY <1>1, <1>2, <2>1, <2>2, StillRunning
<1>3. ASSUME NEW r \in Run, NEW i \in DOMAIN ticks'[r], NEW j \in DOMAIN ticks'[r],
             i < j, ticks'[r][j].step[1] = "do"
      PROVE  Ended(r, i)'
  <2>1. CASE i \in DOMAIN ticks[r] /\ j \in DOMAIN ticks[r]
             /\ ticks'[r][i] = ticks[r][i] /\ ticks'[r][j] = ticks[r][j]
    BY <1>1, <1>3, <2>1, EndedKept DEF OutcomeInv, WaitedFor
  <2>2. ASSUME NEW w \in Worker, NEW t, Launches(w, t) \/ Requests(w, t),
               ~(i \in DOMAIN ticks[r] /\ j \in DOMAIN ticks[r]
                 /\ ticks'[r][i] = ticks[r][i] /\ ticks'[r][j] = ticks[r][j])
        PROVE  Ended(r, i)'
    <3>1. /\ pick[w] \in Run /\ Closes(w, t) /\ AppendTick(pick[w], t)
          /\ pc[w] = "running" /\ ~plan[w].doomed /\ t.step = plan[w].step
      BY <1>1, <2>2 DEF Launches, Requests, Closes, TypeOK
    <3>2. PICK n : n = Len(ticks[r]) + 1
      OBVIOUS
    <3>3. r = pick[w]
      BY <1>1, <1>3, <2>2, <3>1, AppendedTick
    <3>4. /\ DOMAIN ticks'[r] = DOMAIN ticks[r] \cup {n}
          /\ ticks'[r][n] = t
          /\ \A k \in DOMAIN ticks[r] : ticks'[r][k] = ticks[r][k]
      BY <1>1, <3>1, <3>2, <3>3, AppendedTick
    <3>5. DOMAIN ticks[r] = 1 .. Len(ticks[r]) /\ Len(ticks[r]) \in Nat
      BY <1>1, TickTypes
    <3>6. j = n /\ i \in DOMAIN ticks[r] /\ ticks'[r][i] = ticks[r][i] /\ t.step[1] = "do"
      BY <1>3, <2>2, <3>2, <3>4, <3>5
    <3>7. ~plan[w].back
      BY <1>1, <3>1, <3>6 DEF RunnerInv, RunnersFit, Fits
    <3>8. Ended(r, i)
      BY <3>1, <3>3, <3>6, <3>7 DEF OutcomeInv, WaitedFor
    <3> QED
      BY <1>1, <3>6, <3>8, EndedKept
  <2> QED
    BY <1>1, <1>3, <2>1, <2>2, TickWritten
<1> QED
  BY <1>2, <1>3 DEF WaitedFor

LEMMA CommittedStep ==
    ASSUME OutcomeInv, [Next]_vars
    PROVE  CommittedMeansTreeCommitted'
<1>1. TypeOK /\ UndosRequested /\ RunnerInv
  BY DEF OutcomeInv, RunnerInv, CompensationInv, Locking
<1> SUFFICES ASSUME NEW r \in Run, "COMMITTED" \in marks'[r],
                    NEW i \in DOMAIN ticks'[r], ticks'[r][i].step[1] = "do"
             PROVE  AllCommitted(r, i)'
  BY DEF CommittedMeansTreeCommitted, AllCommitted
<1>2. CASE i \in DOMAIN ticks[r] /\ ticks'[r][i] = ticks[r][i] /\ "COMMITTED" \in marks[r]
  <2>1. AllCommitted(r, i)
    BY <1>2 DEF OutcomeInv, CommittedMeansTreeCommitted, AllCommitted
  <2> QED
    BY <1>1, <1>2, <2>1, EndedKept
<1>3. ASSUME NEW w \in Worker, NEW t, Launches(w, t) \/ Requests(w, t)
      PROVE  AllCommitted(r, i)'
  <2>1. /\ pick[w] \in Run /\ Closes(w, t) /\ AppendTick(pick[w], t) /\ marks' = marks
        /\ pc[w] = "running" /\ t.step = plan[w].step
    BY <1>1, <1>3 DEF Launches, Requests, Closes, TypeOK
  <2>2. i \in DOMAIN ticks[r] /\ ticks'[r][i] = ticks[r][i]
    <3> SUFFICES ASSUME ~(i \in DOMAIN ticks[r] /\ ticks'[r][i] = ticks[r][i])
                 PROVE  FALSE
      OBVIOUS
    <3>1. r = pick[w] /\ ticks'[r][i] = t
      BY <1>1, <2>1, AppendedTick
    <3>2. ~plan[w].back
      BY <1>1, <2>1, <3>1 DEF RunnerInv, RunnersFit, Fits
    <3> QED
      BY <1>1, <2>1, <3>1, <3>2 DEF RunnerInv, RunnersFit, Fits
  <2> QED
    BY <1>2, <2>1, <2>2
<1>4. CASE UNCHANGED ticks /\ "COMMITTED" \notin marks[r]
  <2>1. PICK w \in Worker : /\ pc[w] = "running" /\ pick[w] = r
                            /\ Ends(w, "COMMITTED") \/ Breaks(w, "COMMITTED")
    BY <1>1, <1>4, MarkWritten
  <2>2. ~plan[w].back /\ ~plan[w].doomed /\ plan[w].mode # "handle"
    BY <2>1 DEF Ends, Breaks
  <2>3. AllCommitted(r, i)
    BY <1>4, <2>1, <2>2 DEF OutcomeInv, WaitedFor
  <2> QED
    BY <1>1, <1>4, <2>3, EndedKept
<1> QED
  BY <1>1, <1>2, <1>3, <1>4, TickWritten

LEMMA OutcomeInductive == OutcomeInv /\ [Next]_vars => OutcomeInv'
<1> SUFFICES ASSUME OutcomeInv, [Next]_vars
             PROVE  OutcomeInv'
  OBVIOUS
<1>1. RunnerInv' /\ Windows'
  BY RunnerInductive, WindowsKept DEF OutcomeInv, RunnerInv, CompensationInv
<1> QED
  BY <1>1, WaitedForStep, CommittedStep DEF OutcomeInv

LEMMA OutcomeInitially == Init => OutcomeInv
<1> SUFFICES ASSUME Init
             PROVE  OutcomeInv
  OBVIOUS
<1>1. Windows /\ WaitedFor /\ CommittedMeansTreeCommitted
  BY DEF Init, LogInit, Windows, WaitedFor, CommittedMeansTreeCommitted
<1> QED
  BY <1>1, RunnerInitially DEF OutcomeInv

\* A run commits only over a tree that committed: whatever fails, is handled,
\* retried, given up or rolled back from outside on the way
\* (EventLoop.ts, markCommitted and the LastStepResult a run is resumed with).
THEOREM CommitsTheTree == Spec => []CommittedMeansTreeCommitted
<1>1. OutcomeInv => CommittedMeansTreeCommitted
  BY DEF OutcomeInv
<1> QED
  BY <1>1, OutcomeInitially, OutcomeInductive, PTL DEF Spec

-----------------------------------------------------------------------------
\* Which ticks are compensated, and when.

\* Of what a rollback of children takes up nothing runs forward: it is the
\* latest tick, whose children the readiness query has waited for, or one that
\* an even later user step has waited for.
NextInLine(r, p) ==
    p.mode = "rollback" /\ ~p.last /\ p.step[1] = "undoChildren" =>
        p.step[2] = Len(ticks[r]) \/ \E j \in Originals(r) : p.step[2] < j

UndoneInLine == \A w \in Worker : pc[w] = "running" => NextInLine(pick[w], plan[w])

LEMMA OriginalsKept ==
    ASSUME TypeOK, [Next]_vars, NEW r \in Run
    PROVE  /\ Originals(r) \subseteq Originals(r)'
           /\ \A i \in DOMAIN ticks[r] : i \in DOMAIN ticks'[r] /\ ticks'[r][i] = ticks[r][i]
<1>1. CASE UNCHANGED ticks
  BY <1>1 DEF Originals
<1>2. ASSUME NEW w \in Worker, NEW t, Closes(w, t)
      PROVE  \A i \in DOMAIN ticks[r] : i \in DOMAIN ticks'[r] /\ ticks'[r][i] = ticks[r][i]
  <2>1. pick[w] \in Run /\ AppendTick(pick[w], t)
    BY <1>2 DEF Closes, TypeOK
  <2> QED
    BY <2>1, AppendedTick
<1>3. ASSUME \A i \in DOMAIN ticks[r] : i \in DOMAIN ticks'[r] /\ ticks'[r][i] = ticks[r][i]
      PROVE  Originals(r) \subseteq Originals(r)'
  BY <1>3 DEF Originals
<1> QED
  BY <1>1, <1>2, <1>3, TicksStep

LEMMA RollbackPlans ==
    ASSUME CompensationInv, NEW r \in Run, ~NotFound(r)
    PROVE  NextInLine(r, PlanFor(r))
<1>1. TypeOK /\ Ranged
  BY DEF CompensationInv
<1>2. CASE ~RollingBack(r)
  <2>1. PlanFor(r).step[1] = "do"
    BY <1>2, PlanDirection
  <2> QED
    BY <2>1 DEF NextInLine
<1>3. CASE RollingBack(r)
  <2> DEFINE pt == RollbackPoint(r)
  <2>1. /\ PlanFor(r).step \in {pt.next, pt.previous}
        /\ PlanFor(r).mode = "rollback" => PlanFor(r).step = pt.next
        /\ PlanFor(r).last = pt.last
    BY <1>3 DEF PlanFor
  <2>2. CASE ~HasTicks(r)
    BY <2>1, <2>2 DEF RollbackPoint, NextInLine, Sentinel
  <2>3. CASE HasTicks(r)
    <3>1. PICK l, s : l = Latest(r).step /\ s = Found(r, l)
      OBVIOUS
    <3>2. /\ InRange(r, l) /\ l # Sentinel /\ l \in Step
          /\ Len(ticks[r]) \in DOMAIN ticks[r] /\ Len(ticks[r]) \in Nat
      BY <1>1, <1>3, <2>3, <3>1, TickTypes DEF Ranged, Latest, NotFound
    <3>3. CASE l[1] = "do"
      <4>1. Len(ticks[r]) \in Originals(r)
        BY <3>1, <3>2, <3>3 DEF Originals, Latest
      <4>2. pt.next = <<"undoChildren", Len(ticks[r])>> /\ pt.previous = pt.next
        BY <2>3, <3>1, <3>3 DEF RollbackPoint
      <4> QED
        BY <2>1, <4>1, <4>2 DEF NextInLine
    <3>6. ASSUME l[1] # "do" PROVE s[2] \in Originals(r) /\ s[2] \in Nat
      BY <1>1, <3>1, <3>2, <3>6, FoundIsTick DEF InRange
    <3>4. CASE l[1] # "do" /\ IsLastSubStep(r, s)
      <4>1. pt.next = s /\ pt.previous = s /\ pt.last
        BY <2>3, <3>1, <3>4 DEF RollbackPoint
      <4> QED
        BY <2>1, <3>4, <3>6, <4>1 DEF NextInLine
    <3>5. CASE l[1] # "do" /\ ~IsLastSubStep(r, s)
      <4>1. pt.next = SubStepAfter(r, s) /\ pt.previous = s
        BY <2>3, <3>1, <3>5 DEF RollbackPoint
      <4>2. s[2] \in Originals(r) /\ s[2] \in Nat
        BY <3>5, <3>6
      <4>3. CASE s[1] = "undoChildren" /\ ticks[r][s[2]].iter = Normal
        <5>1. SubStepAfter(r, s) = <<"undoSelf", s[2]>>
          BY <4>3 DEF SubStepAfter
        <5> QED
          BY <2>1, <4>1, <4>2, <4>3, <5>1 DEF NextInLine
      <4>4. CASE ~(s[1] = "undoChildren" /\ ticks[r][s[2]].iter = Normal)
        <5>1. HasOlder(r, s[2])
          BY <3>5, <4>4 DEF IsLastSubStep
        <5>2. NewestBelow(r, s[2]) \in Originals(r) /\ NewestBelow(r, s[2]) < s[2]
          BY <1>1, <4>2, <5>1, NewestBelowIsTick
        <5>3. SubStepAfter(r, s) = <<"undoChildren", NewestBelow(r, s[2])>>
          BY <4>4 DEF SubStepAfter
        <5> QED
          BY <1>3, <2>1, <4>1, <4>2, <5>2, <5>3, PlanDirection DEF NextInLine, PlanFor
      <4> QED
        BY <4>3, <4>4
    <3> QED
      BY <3>3, <3>4, <3>5
  <2> QED
    BY <2>2, <2>3
<1> QED
  BY <1>2, <1>3

LEMMA InLineStep ==
    ASSUME CompensationInv, UndoneInLine, [Next]_vars
    PROVE  UndoneInLine'
<1>1. TypeOK /\ Locking /\ Ranged
  BY DEF CompensationInv
<1> SUFFICES ASSUME NEW w \in Worker, pc'[w] = "running"
             PROVE  NextInLine(pick[w], plan[w])'
  BY DEF UndoneInLine
<1>2. CASE Claim(w) /\ pc[w] = "selected"
  <2>1. PICK r, p : /\ r \in Run /\ r = pick[w] /\ pick'[w] = r /\ ~NotFound(r)
                    /\ p = PlanFor(r) /\ plan'[w] = p /\ UNCHANGED ticks
    BY <1>1, <1>2, Claimed DEF log
  <2>2. NextInLine(r, p)
    BY <2>1, RollbackPlans
  <2> QED
    BY <2>1, <2>2 DEF NextInLine, Originals
<1>3. CASE pc[w] = "running" /\ Stays(w) /\ ticks'[pick[w]] = ticks[pick[w]]
  <2>1. PICK r, p : /\ r \in Run /\ r = pick[w] /\ pick'[w] = r /\ p = plan[w] /\ plan'[w] = p
                    /\ ticks'[r] = ticks[r] /\ NextInLine(r, p)
    BY <1>1, <1>3 DEF Stays, TypeOK, UndoneInLine
  <2> QED
    BY <2>1 DEF NextInLine, Originals
<1> QED
  BY <1>1, <1>2, <1>3, StillRunning

-----------------------------------------------------------------------------
\* The next compensation waits for the rollbacks the latest one asked for.

\* What a tick asked to roll back is not run forward by anybody.
UndoneNotForward ==
    \A r \in Run : \A i \in DOMAIN ticks[r] : \A m \in ticks[r][i].undoes :
        \A w \in Worker : pc[w] = "running" /\ pick[w][1] = m => plan[w].back

\* The inductive invariant: a child can start to roll back behind the back of a
\* run that executes only through the run's own locked row, or by failing itself,
\* and what was asked to roll back is not there to fail.
UndoneInv ==
    /\ OutcomeInv
    /\ ChildrenFinishedBeforeParentMoves
    /\ UndoneInLine
    /\ UndoneNotForward
    /\ ChildrenUndoneBeforeParentMoves

\* When its rollback is requested by its parent, a run has terminated.
LEMMA RequestedHasTerminated ==
    ASSUME UndoneInv, NEW v \in Worker, NEW t, Requests(v, t),
           NEW c \in Run, c \in seen, c[1] \in t.undoes
    PROVE  Terminated(c)
<1>1. TypeOK /\ RunnerInv /\ CompensationInv /\ Ranged
  BY DEF UndoneInv, OutcomeInv, RunnerInv, CompensationInv
<1>2. PICK r, k : /\ r \in Run /\ r = pick[v] /\ k = plan[v].step[2] /\ pc[v] = "running"
                  /\ t.undoes = ticks[r][k].emits
  BY <1>1 DEF Requests, Closes, TypeOK
<1>3. k \in DOMAIN ticks[r]
  <2>1. InRange(r, plan[v].step)
    BY <1>1, <1>2 DEF Ranged
  <2>2. plan[v].step[1] = "undoChildren"
    BY DEF Requests
  <2>3. plan[v].step[2] \in DOMAIN ticks[r]
    BY <2>1, <2>2 DEF InRange, Sentinel, Originals
  <2> QED
    BY <1>2, <2>3
<1>4. Emitter[c[1]] = r
  BY <1>1, <1>2, <1>3 DEF RunnerInv, TicksOwned, TickOwned, EmittedBy
<1>5. k = Len(ticks[r]) \/ \E j \in Originals(r) : k < j
  BY <1>2 DEF UndoneInv, UndoneInLine, NextInLine, Requests
<1>6. CASE k = Len(ticks[r])
  <2>1. c \in ChildSeens(r)
    BY <1>2, <1>3, <1>4, <1>6 DEF ChildSeens, LatestEmits, Latest, HasTicks
  <2> QED
    BY <1>2, <2>1 DEF UndoneInv, ChildrenFinishedBeforeParentMoves
<1>7. ASSUME NEW j \in Originals(r), k < j
      PROVE  Terminated(c)
  <2>1. Ended(r, k)
    BY <1>2, <1>3, <1>7 DEF UndoneInv, OutcomeInv, WaitedFor, Originals
  <2>2. c[2] \in Listeners[c[1]] /\ c = <<c[1], c[2]>>
    BY DEF Run
  <2> QED
    BY <1>2, <2>1, <2>2 DEF Ended
<1> QED
  BY <1>5, <1>6, <1>7

\* A run that somebody executes forward is on its way.
LEMMA ForwardIsOnItsWay ==
    ASSUME RunnerInv, NEW w \in Worker, pc[w] = "running", ~plan[w].back,
           requested[pick[w][1]] = Outside
    PROVE  pick[w] \in seen /\ ~Terminated(pick[w]) /\ ~RollingBack(pick[w])
BY DEF RunnerInv, RunnersFit, Fits, Terminated, RollbackOver

LEMMA NotForwardStep ==
    ASSUME UndoneInv, [Next]_vars
    PROVE  UndoneNotForward'
<1>1. TypeOK /\ Locking /\ RunnerInv /\ CompensationInv
  BY DEF UndoneInv, OutcomeInv, RunnerInv, CompensationInv
<1> SUFFICES ASSUME NEW r \in Run, NEW i \in DOMAIN ticks'[r], NEW m \in ticks'[r][i].undoes,
                    NEW w \in Worker, pc'[w] = "running", pick'[w][1] = m
             PROVE  plan'[w].back
  BY DEF UndoneNotForward
<1>2. CASE Claim(w) /\ pc[w] = "selected"
  <2>1. /\ pick[w] \in Run /\ pick[w][1] = m /\ Candidate(pick[w]) /\ ~NotFound(pick[w])
        /\ plan'[w] = PlanFor(pick[w]) /\ UNCHANGED <<ticks, requested>>
    BY <1>1, <1>2, Claimed DEF log
  <2>2. requested[m] = r /\ Outside \notin Run
    BY <1>1, <2>1, TreeTypes DEF RunnerInv, TicksOwned, TickOwned
  <2>3. RollingBack(pick[w])
    BY <2>1, <2>2 DEF Candidate
  <2> QED
    BY <1>1, <2>1, <2>3, PlanDirection
<1>3. CASE pc[w] = "running" /\ Stays(w)
  <2>1. pick[w] \in Run /\ pick[w][1] = m /\ plan'[w] = plan[w]
    BY <1>1, <1>3 DEF Stays, TypeOK
  <2>2. CASE i \in DOMAIN ticks[r]
    BY <1>1, <1>3, <2>1, <2>2, OriginalsKept DEF UndoneInv, UndoneNotForward
  <2>3. ASSUME NEW v \in Worker, NEW t, Launches(v, t) \/ Requests(v, t), i \notin DOMAIN ticks[r]
        PROVE  plan[w].back
    <3>1. pick[v] \in Run /\ AppendTick(pick[v], t)
      BY <1>1, <2>3 DEF Launches, Requests, Closes, TypeOK
    <3>2. pick[v] = r /\ ticks'[r][i] = t
      BY <1>1, <2>3, <3>1, AppendedTick
    <3>3. Requests(v, t) /\ m \in t.undoes /\ requested[m] = Outside
      BY <2>3, <3>2 DEF Launches, Requests
    <3> SUFFICES ASSUME ~plan[w].back
                 PROVE  FALSE
      OBVIOUS
    <3>4. pick[w] \in seen /\ ~Terminated(pick[w])
      BY <1>1, <1>3, <2>1, <3>3, ForwardIsOnItsWay
    <3> QED
      BY <2>1, <3>3, <3>4, RequestedHasTerminated
  <2> QED
    BY <1>1, <2>1, <2>2, <2>3, TickWritten
<1> QED
  BY <1>1, <1>2, <1>3, StillRunning

LEMMA UndoneStep ==
    ASSUME UndoneInv, [Next]_vars
    PROVE  ChildrenUndoneBeforeParentMoves'
<1>1. TypeOK /\ Locking /\ UndosRequested /\ OneHolder /\ RunnerInv /\ CompensationInv
  BY DEF UndoneInv, OutcomeInv, RunnerInv, CompensationInv, Locking
<1> SUFFICES ASSUME NEW w \in Worker, pc'[w] = "running",
                    NEW c \in ChildRollingBacks(pick[w])', c[1] \in LatestUndoes(pick[w])'
             PROVE  RollbackOver(c)'
  BY DEF ChildrenUndoneBeforeParentMoves
<1>2. CASE Claim(w) /\ pc[w] = "selected"
  <2>1. PICK r \in Run : r = pick[w] /\ pick'[w] = r /\ Ready(r) /\ UNCHANGED <<ticks, marks>>
    BY <1>1, <1>2, Claimed DEF log
  <2>2. c \in ChildRollingBacks(r) /\ c[1] \in LatestUndoes(r)
    BY <2>1 DEF ChildRollingBacks, RollingBack, LatestUndoes, HasTicks, Latest
  <2>3. RollbackOver(c)
    BY <2>1, <2>2 DEF Ready
  <2> QED
    BY <2>1, <2>3 DEF RollbackOver
<1>3. CASE pc[w] = "running" /\ Stays(w) /\ ticks'[pick[w]] = ticks[pick[w]]
  <2>1. PICK r \in Run : r = pick[w] /\ pick'[w] = r /\ ticks'[r] = ticks[r]
    BY <1>1, <1>3 DEF Stays, TypeOK
  <2>2. c \in ChildrenOf(r) /\ c \in Run /\ RollingBack(c)' /\ c[1] \in LatestUndoes(r)
    BY <2>1 DEF ChildRollingBacks, ChildrenOf, LatestUndoes, HasTicks, Latest
  <2>3. CASE RollingBack(c)
    <3>1. RollbackOver(c)
      BY <1>3, <2>1, <2>2, <2>3 DEF UndoneInv, ChildrenUndoneBeforeParentMoves, ChildRollingBacks
    <3> QED
      BY <1>1, <2>2, <3>1, MarksKept DEF RollbackOver
  <2>4. CASE ~RollingBack(c)
    <3>1. Len(ticks[r]) \in DOMAIN ticks[r] /\ c[1] \in ticks[r][Len(ticks[r])].undoes
      BY <1>1, <2>2, TickTypes DEF LatestUndoes, Latest
    <3>2. requested[c[1]] = r
      BY <1>1, <3>1 DEF RunnerInv, TicksOwned, TickOwned
    <3>3. ASSUME NEW v \in Worker, pc[v] = "inserting", c \in snapshot[v].undos
          PROVE  FALSE
      <4>1. Holds(v, r) /\ Holds(w, r)
        BY <1>3, <2>1, <3>2, <3>3 DEF Holds, RowsLocked
      <4> QED
        BY <1>1, <1>3, <3>3, <4>1 DEF OneHolder
    <3>4. ASSUME NEW v \in Worker, pc[v] = "running", pick[v] = c,
                 Ends(v, "ROLLING_BACK") \/ Breaks(v, "ROLLING_BACK")
          PROVE  FALSE
      <4>1. ~plan[v].back
        BY <3>4 DEF Ends, Breaks
      <4> QED
        BY <3>1, <3>4, <4>1 DEF UndoneInv, UndoneNotForward
    <3> QED
      BY <1>1, <2>2, <2>4, <3>3, <3>4, MarkWritten DEF RollingBack
  <2> QED
    BY <2>3, <2>4
<1> QED
  BY <1>1, <1>2, <1>3, StillRunning

LEMMA UndoneInductive == UndoneInv /\ [Next]_vars => UndoneInv'
<1> SUFFICES ASSUME UndoneInv, [Next]_vars
             PROVE  UndoneInv'
  OBVIOUS
<1>1. OutcomeInv' /\ CompensationInv /\ WaitingInv
  BY OutcomeInductive DEF UndoneInv, OutcomeInv, RunnerInv, CompensationInv, WaitingInv
<1>2. ChildrenFinishedBeforeParentMoves' /\ UndoneInLine'
  BY <1>1, WaitingStep, InLineStep DEF UndoneInv
<1> QED
  BY <1>1, <1>2, NotForwardStep, UndoneStep DEF UndoneInv

LEMMA UndoneInitially == Init => UndoneInv
<1> SUFFICES ASSUME Init
             PROVE  UndoneInv
  OBVIOUS
<1>1. /\ ChildrenFinishedBeforeParentMoves /\ UndoneInLine
      /\ UndoneNotForward /\ ChildrenUndoneBeforeParentMoves
  BY DEF Init, LogInit, ChildrenFinishedBeforeParentMoves, UndoneInLine,
         UndoneNotForward, ChildrenUndoneBeforeParentMoves
<1> QED
  BY <1>1, OutcomeInitially DEF UndoneInv

\* While a worker executes a step of a run, every child that rolls back at the
\* request of the run's latest step has come to the end of it: whoever else
\* reconciles, fails or asks for rollbacks (PendingCoroutineRunSql.ts, the second
\* half of candidateSeensWaitingToBeProcessed).
THEOREM ParentWaitsForRollbacks == Spec => []ChildrenUndoneBeforeParentMoves
<1>1. UndoneInv => ChildrenUndoneBeforeParentMoves
  BY DEF UndoneInv
<1> QED
  BY <1>1, UndoneInitially, UndoneInductive, PTL DEF Spec

-----------------------------------------------------------------------------
\* A run that entered rollback never goes forward again.

\* No client's request is on its way to a handler that may still run forward: what a
\* client finds when it asks is to hold until it has committed.
RequestsInTime ==
    \A q \in asking : \A c \in Run :
        c \in seen /\ c[1] = q.message /\ c # q.scope => Terminated(c)

\* A request reaches a run that executes forward only through the row lock of
\* the run itself, which is taken.
ForwardUnturned ==
    \A w \in Worker : pc[w] = "running" /\ ~plan[w].back =>
        /\ requested[pick[w][1]] \in {Outside, pick[w]}
        /\ ~RollingBack(pick[w])

TurnInv == UndoneInv /\ ForwardUnturned

LEMMA UnturnedStep ==
    ASSUME RequestsInTime, TurnInv, [Next]_vars
    PROVE  ForwardUnturned'
<1>1. TypeOK /\ Locking /\ OneHolder /\ RunnerInv /\ CompensationInv /\ UndoneInv
  BY DEF TurnInv, UndoneInv, OutcomeInv, RunnerInv, CompensationInv, Locking
<1> SUFFICES ASSUME NEW w \in Worker, pc'[w] = "running", ~plan'[w].back
             PROVE  /\ requested'[pick'[w][1]] \in {Outside, pick'[w]}
                    /\ ~RollingBack(pick[w])'
  BY DEF ForwardUnturned
<1>2. CASE Claim(w) /\ pc[w] = "selected"
  <2>1. PICK r \in Run : /\ r = pick[w] /\ pick'[w] = r /\ Candidate(r)
                         /\ ~NotFound(r) /\ plan'[w] = PlanFor(r)
                         /\ UNCHANGED <<marks, requested>>
    BY <1>1, <1>2, Claimed DEF log
  <2>2. ~RollingBack(r)
    BY <1>1, <2>1, PlanDirection
  <2> QED
    BY <2>1, <2>2 DEF Candidate, RollingBack
<1>3. CASE pc[w] = "running" /\ Stays(w)
  <2>1. PICK r \in Run : /\ r = pick[w] /\ pick'[w] = r /\ ~plan[w].back
                         /\ requested[r[1]] \in {Outside, r} /\ ~RollingBack(r)
                         /\ r[1] \in Message
    BY <1>1, <1>3, TreeTypes DEF Stays, TypeOK, TurnInv, ForwardUnturned
  <2>2. r \in seen /\ ~RollbackOver(r) /\ "COMMITTED" \notin marks[r] /\ ~Terminated(r)
    BY <1>1, <1>3, <2>1 DEF RunnerInv, RunnersFit, Fits, Terminated, RollbackOver
  <2>3. requested'[r[1]] \in {Outside, r}
    <3> SUFFICES ASSUME requested'[r[1]] # Outside, requested[r[1]] = Outside
                 PROVE  requested'[r[1]] = r
      BY <1>1, <2>1, RequestsKept
    <3>1. ASSUME NEW v \in Worker, NEW t, Requests(v, t), r[1] \in t.undoes
          PROVE  FALSE
      BY <1>1, <2>2, <3>1, RequestedHasTerminated
    <3>2. ASSUME NEW q \in asking, q.message = r[1]
          PROVE  q.scope = r
      BY <2>2, <3>2 DEF RequestsInTime
    <3> QED
      BY <1>1, <2>1, <3>1, <3>2, RequestWritten
  <2>4. "ROLLING_BACK" \notin marks'[r]
    <3> SUFFICES ASSUME "ROLLING_BACK" \in marks'[r]
                 PROVE  FALSE
      OBVIOUS
    <3>1. PICK v \in Worker : pc[v] = "inserting" /\ r \in snapshot[v].undos
      BY <1>1, <1>3, <2>1, MarksOfRunner DEF RollingBack
    <3>2. requested[r[1]] = r
      BY <1>1, <1>3, <2>1, MarksOfRunner DEF RollingBack
    <3>3. Holds(v, r) /\ Holds(w, r)
      BY <1>3, <2>1, <3>1, <3>2 DEF Holds, RowsLocked
    <3> QED
      BY <1>1, <1>3, <3>1, <3>3 DEF OneHolder
  <2> QED
    BY <2>1, <2>3, <2>4 DEF RollingBack
<1> QED
  BY <1>1, <1>2, <1>3, StillRunning

LEMMA TurnInductive == TurnInv /\ RequestsInTime /\ [Next]_vars => TurnInv'
BY UndoneInductive, UnturnedStep DEF TurnInv

LEMMA TurnInitially == Init => TurnInv
<1> SUFFICES ASSUME Init
             PROVE  TurnInv
  OBVIOUS
<1>1. ForwardUnturned
  BY DEF Init, ForwardUnturned
<1> QED
  BY <1>1, UndoneInitially DEF TurnInv

LEMMA NoForwardStep ==
    ASSUME TurnInv, [Next]_vars, NEW r \in Run, RollingBack(r)
    PROVE  /\ \A i \in DOMAIN ticks'[r] \ DOMAIN ticks[r] : ticks'[r][i].step[1] # "do"
           /\ RollbackOver(r) => ticks'[r] = ticks[r] /\ marks'[r] = marks[r]
<1>1. TypeOK /\ UndosRequested /\ RunnerInv
  BY DEF TurnInv, UndoneInv, OutcomeInv, RunnerInv, CompensationInv, Locking
<1>2. ASSUME NEW w \in Worker, pc[w] = "running", pick[w] = r
      PROVE  plan[w].step[1] # "do" /\ ~RollbackOver(r)
  <2>1. plan[w].back
    BY <1>2 DEF TurnInv, ForwardUnturned
  <2> QED
    BY <1>1, <1>2, <2>1 DEF RunnerInv, RunnersFit, Fits
<1>3. ASSUME NEW w \in Worker, NEW t, Closes(w, t)
      PROVE  /\ \A i \in DOMAIN ticks'[r] \ DOMAIN ticks[r] : ticks'[r][i].step[1] # "do"
             /\ RollbackOver(r) => ticks'[r] = ticks[r]
  <2>1. /\ pick[w] \in Run /\ AppendTick(pick[w], t) /\ pc[w] = "running"
        /\ t.step = plan[w].step
    BY <1>1, <1>3 DEF Closes, TypeOK
  <2> QED
    BY <1>1, <1>2, <2>1, AppendedTick
<1>4. ASSUME RollbackOver(r), NEW mark \in marks'[r], mark \notin marks[r]
      PROVE  FALSE
  BY <1>1, <1>2, <1>4, MarkWritten DEF RollingBack
<1>5. marks'[r] = marks[r] \/ ~RollbackOver(r)
  BY <1>1, <1>4, MarksKept
<1> QED
  BY <1>1, <1>3, <1>5, TicksStep

\* As long as no client's request is overtaken by the handlers it is for, a run that
\* entered rollback never executes a forward step again and the end of its rollback is
\* final, whoever fails, requests or reads late (MessageEventRepository.ts,
\* insertRollbackEmittedEvent and the lock of rollback_emitted_missing_rolling_back).
THEOREM NeverForwardAgain == Spec /\ []RequestsInTime => NoForwardStepAfterRollback
<1>1. TurnInv /\ [Next]_vars =>
        [\A r \in Run : RollingBack(r) =>
            /\ \A i \in DOMAIN ticks'[r] \ DOMAIN ticks[r] : ticks'[r][i].step[1] # "do"
            /\ RollbackOver(r) => ticks'[r] = ticks[r] /\ marks'[r] = marks[r]]_vars
  BY NoForwardStep
<1>2. Init => TurnInv
  BY TurnInitially
<1>3. TurnInv /\ RequestsInTime /\ [Next]_vars => TurnInv'
  BY TurnInductive
<1> QED
  BY <1>1, <1>2, <1>3, PTL DEF Spec, NoForwardStepAfterRollback

-----------------------------------------------------------------------------
\* Nothing runs forward behind a run that goes on.

\* Every message a run launched is in one of its ticks, and only a message that
\* was launched has handlers.
Recorded ==
    /\ \A m \in emitted : Emitter[m] \in Run =>
        \E i \in DOMAIN ticks[Emitter[m]] : m \in ticks[Emitter[m]][i].emits
    /\ \A c \in seen : c[1] \in emitted
    /\ \A w \in Worker : \A c \in snapshot[w].starts : c[1] \in emitted

LEMMA EmittedWritten ==
    ASSUME TypeOK, [Next]_vars
    PROVE  /\ emitted \subseteq emitted'
           /\ \A m \in emitted' \ emitted :
                \/ Emitter[m] = Outside
                \/ \E w \in Worker : \E t : Launches(w, t) /\ m \in t.emits
<1>1. CASE UNCHANGED emitted
  BY <1>1
<1>2. ASSUME NEW n \in Message, Launch(n)
      PROVE  emitted' = emitted \cup {n} /\ Emitter[n] = Outside
  BY <1>2 DEF Launch, RootMessage
<1>3. ASSUME NEW w \in Worker, Suspend(w)
      PROVE  /\ emitted \subseteq emitted'
             /\ \A m \in emitted' \ emitted : \E t : Launches(w, t) /\ m \in t.emits
  <2>1. PICK t : Launches(w, t)
    BY <1>3, SuspendLaunches
  <2> QED
    BY <2>1 DEF Launches
<1>4. \/ UNCHANGED emitted
      \/ \E n \in Message : Launch(n)
      \/ \E w \in Worker : Suspend(w)
  BY DEF Next, WorkerStep, Conclude, Resume, Environment, vars, log, ReconcileBegin,
         ReconcileLock, ReconcileCommit, Select, Claim, LosePick, UndoChildren, Finish, Fail,
         Abort, Crash, Cancel, AskRollback, RequestRollback, WithdrawRollback, Expire
<1> QED
  BY <1>1, <1>2, <1>3, <1>4

\* What a worker is about to start it found launched.
LEMMA StartsWritten ==
    ASSUME TypeOK, [Next]_vars, NEW w \in Worker, NEW c \in snapshot'[w].starts
    PROVE  c \in snapshot[w].starts \/ StartEligible(c)
<1>1. CASE Stays(w)
  BY <1>1 DEF Stays
<1>2. CASE WorkerStep(w)
  <2>1. CASE snapshot'[w] = NoSnapshot
    BY <2>1 DEF NoSnapshot
  <2>2. CASE snapshot'[w] = snapshot[w]
    BY <2>2
  <2>3. CASE ReconcileBegin(w)
    <3>1. snapshot'[w] = Due(Serves[w])
      BY <2>3 DEF ReconcileBegin, TypeOK
    <3> QED
      BY <3>1 DEF Due
  <2>4. CASE ReconcileLock(w)
    <3>1. snapshot'[w] = Unlocked(snapshot[w])
      BY <2>4 DEF ReconcileLock, TypeOK
    <3> QED
      BY <3>1 DEF Unlocked
  <2> QED
    BY <1>2, <2>1, <2>2, <2>3, <2>4
       DEF WorkerStep, Conclude, Resume, ReconcileCommit, Select, Claim, LosePick, Suspend,
           UndoChildren, Finish, Fail, Abort, Crash, ToIdle, TypeOK
<1> QED
  BY <1>1, <1>2, OthersStay, NobodyMoves DEF Next

\* A handler starts when a reconcile pass that picked it commits.
LEMMA SeenWritten ==
    ASSUME [Next]_vars, NEW c \in seen', c \notin seen
    PROVE  \E v \in Worker : pc[v] = "inserting" /\ c \in snapshot[v].starts
<1>1. PICK v \in Worker : ReconcileCommit(v)
  BY DEF Next, WorkerStep, Conclude, Resume, Environment, vars, log, ReconcileBegin,
         ReconcileLock, Select, Claim, LosePick, Suspend, UndoChildren, Finish, Fail,
         Abort, Crash, Launch, Cancel, AskRollback, RequestRollback, WithdrawRollback, Expire
<1> QED
  BY <1>1 DEF ReconcileCommit

LEMMA RecordedStep ==
    ASSUME TypeOK, Recorded, [Next]_vars
    PROVE  Recorded'
<1>1. emitted \subseteq emitted'
  BY EmittedWritten
<1>2. ASSUME NEW m \in emitted', Emitter[m] \in Run
      PROVE  \E i \in DOMAIN ticks'[Emitter[m]] : m \in ticks'[Emitter[m]][i].emits
  <2>1. CASE m \in emitted
    <3>1. PICK i \in DOMAIN ticks[Emitter[m]] : m \in ticks[Emitter[m]][i].emits
      BY <1>2, <2>1 DEF Recorded
    <3> QED
      BY <1>2, <3>1, OriginalsKept
  <2>2. ASSUME NEW w \in Worker, NEW t, Launches(w, t), m \in t.emits
        PROVE  \E i \in DOMAIN ticks'[Emitter[m]] : m \in ticks'[Emitter[m]][i].emits
    <3>1. PICK r \in Run : r = pick[w] /\ AppendTick(r, t) /\ Emitter[m] = r
      BY <2>2 DEF Launches, Closes, EmittedBy, TypeOK
    <3>2. PICK n : n = Len(ticks[r]) + 1
      OBVIOUS
    <3>3. n \in DOMAIN ticks'[r] /\ ticks'[r][n] = t
      BY <3>1, <3>2, AppendedTick
    <3> QED
      BY <2>2, <3>1, <3>3
  <2>3. Emitter[m] # Outside
    BY <1>2, TreeTypes
  <2> QED
    BY <1>2, <2>1, <2>2, <2>3, EmittedWritten
<1>3. ASSUME NEW w \in Worker, NEW c \in snapshot'[w].starts
      PROVE  c[1] \in emitted'
  BY <1>1, StartsWritten DEF StartEligible, Recorded
<1>4. ASSUME NEW c \in seen'
      PROVE  c[1] \in emitted'
  BY <1>1, SeenWritten DEF Recorded
<1> QED
  BY <1>2, <1>3, <1>4 DEF Recorded

\* The first compensation of a run is that of its latest tick's children, if no
\* failure is handled instead.
FirstUndo(r, p) ==
    p.back /\ HasTicks(r) /\ Latest(r).step[1] = "do" =>
        /\ p.step = <<"undoChildren", Len(ticks[r])>>
        /\ p.mode = "rollback" \/ p.iter # Normal

FirstUndos == \A w \in Worker : pc[w] = "running" => FirstUndo(pick[w], plan[w])

LEMMA FirstUndosStep ==
    ASSUME CompensationInv, FirstUndos, [Next]_vars
    PROVE  FirstUndos'
<1>1. TypeOK /\ Locking /\ Ranged
  BY DEF CompensationInv
<1> SUFFICES ASSUME NEW w \in Worker, pc'[w] = "running"
             PROVE  FirstUndo(pick[w], plan[w])'
  BY DEF FirstUndos
<1>2. CASE Claim(w) /\ pc[w] = "selected"
  <2>1. PICK r, p : /\ r \in Run /\ r = pick[w] /\ pick'[w] = r /\ ~NotFound(r)
                    /\ p = PlanFor(r) /\ plan'[w] = p /\ UNCHANGED ticks
    BY <1>1, <1>2, Claimed DEF log
  <2>2. FirstUndo(r, p)
    <3> SUFFICES ASSUME p.back, HasTicks(r), Latest(r).step[1] = "do"
                 PROVE  /\ p.step = <<"undoChildren", Len(ticks[r])>>
                        /\ p.mode = "rollback" \/ p.iter # Normal
      BY DEF FirstUndo
    <3>1. RollingBack(r)
      BY <2>1, PlanDirection
    <3>2. /\ RollbackPoint(r).next = <<"undoChildren", Len(ticks[r])>>
          /\ RollbackPoint(r).previous = <<"undoChildren", Len(ticks[r])>>
      BY DEF RollbackPoint
    <3>3. p.step \in {RollbackPoint(r).next, RollbackPoint(r).previous}
          /\ p.mode \in {"handle", "rollback"}
      BY <2>1, <3>1 DEF PlanFor
    <3>4. p.mode = "handle" => p.iter # Normal
      BY <1>1, <2>1, PlanForFollows DEF Follows, CompensationInv
    <3> QED
      BY <3>2, <3>3, <3>4
  <2> QED
    BY <2>1, <2>2 DEF FirstUndo, HasTicks, Latest
<1>3. CASE pc[w] = "running" /\ Stays(w) /\ ticks'[pick[w]] = ticks[pick[w]]
  <2>1. PICK r, p : /\ r \in Run /\ r = pick[w] /\ pick'[w] = r /\ p = plan[w] /\ plan'[w] = p
                    /\ ticks'[r] = ticks[r] /\ FirstUndo(r, p)
    BY <1>1, <1>3 DEF Stays, TypeOK, FirstUndos
  <2> QED
    BY <2>1 DEF FirstUndo, HasTicks, Latest
<1> QED
  BY <1>1, <1>2, <1>3, StillRunning

\* A step of r's rollback was a recovery: it handled failures or launched messages.
Recovered(r) ==
    \E i \in DOMAIN ticks[r] :
        /\ ticks[r][i].step[1] # "do"
        /\ ticks[r][i].iter # Normal \/ ticks[r][i].emits # {}

\* Every handler of what the i-th tick launched has come to its end, or its
\* rollback is requested.
AtRestBelow(r, i) ==
    \A m \in ticks[r][i].emits :
        requested[m] # Outside
        \/ \A h \in Listeners[m] : <<m, h>> \in seen /\ Terminated(<<m, h>>)

EarlierAtRest ==
    \A r \in Run : ~Recovered(r) =>
        \A i \in DOMAIN ticks[r] : i # Len(ticks[r]) => AtRestBelow(r, i)

\* The inductive invariant: without a recovery on its way back, a run leaves a
\* tick of its way forward once its handlers have ended, and turns around at a
\* tick whose handlers it asks to roll back first.
LeftInv ==
    /\ UndoneInv
    /\ Recorded
    /\ FirstUndos
    /\ EarlierAtRest

LEMMA AtRestKept ==
    ASSUME RunnerInv, [Next]_vars, NEW r \in Run, NEW i \in DOMAIN ticks[r],
           AtRestBelow(r, i), ticks'[r][i] = ticks[r][i]
    PROVE  AtRestBelow(r, i)'
<1>1. TypeOK /\ ticks[r][i].emits \subseteq Message
  BY TickTypes DEF RunnerInv, CompensationInv
<1>2. \A m \in ticks[r][i].emits : \A h \in Listeners[m] :
        marks[<<m, h>>] \subseteq marks'[<<m, h>>] /\ seen \subseteq seen'
  BY <1>1, ListenersAreChildren, MarksKept, SeenKept DEF ChildrenOf
<1>3. \A m \in ticks[r][i].emits : requested[m] # Outside => requested'[m] # Outside
  BY <1>1, RequestsKept
<1> QED
  BY <1>2, <1>3 DEF AtRestBelow, Terminated

LEMMA EarlierAtRestStep ==
    ASSUME LeftInv, [Next]_vars
    PROVE  EarlierAtRest'
<1>1. TypeOK /\ RunnerInv /\ OutcomeInv /\ CompensationInv
  BY DEF LeftInv, UndoneInv, OutcomeInv, RunnerInv, CompensationInv
<1> SUFFICES ASSUME NEW r \in Run, ~Recovered(r)', NEW i \in DOMAIN ticks'[r],
                    i # Len(ticks'[r])
             PROVE  AtRestBelow(r, i)'
  BY DEF EarlierAtRest
<1>2. ~Recovered(r)
  BY <1>1, OriginalsKept DEF Recovered
<1>3. CASE ticks'[r] = ticks[r]
  BY <1>1, <1>2, <1>3, AtRestKept DEF LeftInv, EarlierAtRest
<1>4. ASSUME NEW w \in Worker, NEW t, Launches(w, t) \/ Requests(w, t), ticks'[r] # ticks[r]
      PROVE  AtRestBelow(r, i)'
  <2>1. /\ pick[w] \in Run /\ AppendTick(pick[w], t) /\ Closes(w, t) /\ pc[w] = "running"
        /\ t.step = plan[w].step /\ t.iter = plan[w].iter /\ ~plan[w].doomed
    BY <1>1, <1>4 DEF Launches, Requests, Closes, TypeOK
  <2>2. pick[w] = r
    BY <1>1, <1>4, <2>1, AppendedTick
  <2>3. PICK n, k : n = Len(ticks[r]) + 1 /\ k = Len(ticks[r])
    OBVIOUS
  <2>4. /\ DOMAIN ticks'[r] = DOMAIN ticks[r] \cup {n} /\ ticks'[r][n] = t
        /\ \A j \in DOMAIN ticks[r] : ticks'[r][j] = ticks[r][j]
        /\ DOMAIN ticks[r] = 1 .. k /\ k \in Nat
    BY <1>1, <2>1, <2>2, <2>3, AppendedTick, TickTypes
  <2>5. Len(ticks'[r]) = n
    <3>1. ticks[r] \in Seq(Tick) /\ ticks \in [Run -> Seq(Tick)]
      BY <1>1 DEF TypeOK, LogTypeOK
    <3>2. ticks'[r] = Append(ticks[r], t)
      BY <2>1, <2>2, <3>1 DEF AppendTick
    <3> QED
      BY <2>3, <3>1, <3>2
  <2>6. i \in DOMAIN ticks[r] /\ ticks'[r][i] = ticks[r][i]
    BY <2>4, <2>5
  <2>7. AtRestBelow(r, i) \/ i = k
    BY <1>2, <2>3, <2>6 DEF LeftInv, EarlierAtRest
  <2>8. CASE AtRestBelow(r, i)
    BY <1>1, <2>6, <2>8, AtRestKept
  <2>9. CASE i = k /\ t.step[1] = "do"
    <3>1. ~plan[w].back
      BY <1>1, <2>1, <2>9 DEF RunnerInv, RunnersFit, Fits
    <3>2. Ended(r, i)
      BY <2>1, <2>2, <2>6, <3>1 DEF LeftInv, UndoneInv, OutcomeInv, WaitedFor
    <3>3. AtRestBelow(r, i)
      BY <3>2 DEF Ended, AtRestBelow
    <3> QED
      BY <1>1, <2>6, <3>3, AtRestKept
  <2>10. CASE i = k /\ t.step[1] # "do" /\ ticks[r][i].step[1] # "do"
    <3>1. ticks[r][i].emits = {}
      BY <1>2, <2>6, <2>10 DEF Recovered
    <3> QED
      BY <2>6, <3>1 DEF AtRestBelow
  <2>11. CASE i = k /\ t.step[1] # "do" /\ ticks[r][i].step[1] = "do"
    <3>1. plan[w].back /\ HasTicks(r) /\ Latest(r).step[1] = "do"
      BY <1>1, <2>1, <2>3, <2>6, <2>11 DEF RunnerInv, RunnersFit, Fits, HasTicks, Latest
    <3>2. t.iter = Normal
      BY <2>4, <2>11 DEF Recovered
    <3>3. plan[w].step = <<"undoChildren", k>> /\ plan[w].mode = "rollback"
      BY <2>1, <2>2, <2>3, <3>1, <3>2 DEF LeftInv, FirstUndos, FirstUndo
    <3>4. Requests(w, t)
      BY <1>4, <3>3 DEF Launches, RunsUserCode, Closes
    <3>5. t.undoes = ticks[r][i].emits /\ ticks[r][i].emits \subseteq Message
      BY <1>1, <2>2, <2>6, <2>11, <3>3, <3>4, TickTypes DEF Requests
    <3>6. \A m \in ticks[r][i].emits : requested'[m] # Outside
      BY <2>1, <3>4, <3>5, TreeTypes DEF Requests
    <3> QED
      BY <2>6, <3>6 DEF AtRestBelow
  <2> QED
    BY <2>7, <2>8, <2>9, <2>10, <2>11
<1> QED
  BY <1>1, <1>3, <1>4, TickWritten

LEMMA LeftInductive == LeftInv /\ [Next]_vars => LeftInv'
<1> SUFFICES ASSUME LeftInv, [Next]_vars
             PROVE  LeftInv'
  OBVIOUS
<1>1. CompensationInv /\ TypeOK
  BY DEF LeftInv, UndoneInv, OutcomeInv, RunnerInv, CompensationInv
<1>2. UndoneInv' /\ Recorded'
  BY <1>1, UndoneInductive, RecordedStep DEF LeftInv
<1>3. FirstUndos' /\ EarlierAtRest'
  BY <1>1, FirstUndosStep, EarlierAtRestStep DEF LeftInv
<1> QED
  BY <1>2, <1>3 DEF LeftInv

LEMMA LeftInitially == Init => LeftInv
<1> SUFFICES ASSUME Init
             PROVE  LeftInv
  OBVIOUS
<1>1. FirstUndos /\ EarlierAtRest
  BY DEF Init, LogInit, FirstUndos, EarlierAtRest
<1>2. Recorded
  BY DEF Init, LogInit, Recorded, NoSnapshot
<1> QED
  BY <1>1, <1>2, UndoneInitially DEF LeftInv

\* A child that runs comes from a tick of the run, and is none of the latest one's.
LEMMA ActiveChildHasTick ==
    ASSUME TypeOK, Recorded, TicksOwned, ChildrenFinishedBeforeParentMoves,
           NEW w \in Worker, pc[w] = "running", NEW r \in Run, r = pick[w],
           NEW c \in ChildrenOf(r), Active(c)
    PROVE  \E i \in DOMAIN ticks[r] : c[1] \in ticks[r][i].emits /\ i # Len(ticks[r])
<1>1. c \in Run /\ Emitter[c[1]] = r /\ c \in seen /\ ~Terminated(c)
  BY DEF ChildrenOf, Active
<1>2. PICK i \in DOMAIN ticks[r] : c[1] \in ticks[r][i].emits
  BY <1>1 DEF Recorded
<1>3. ASSUME i = Len(ticks[r])
      PROVE  FALSE
  <2>1. HasTicks(r)
    BY <1>2 DEF HasTicks
  <2>2. c \in ChildSeens(r)
    BY <1>1, <1>2, <1>3, <2>1 DEF ChildSeens, LatestEmits, Latest
  <2> QED
    BY <1>1, <2>2 DEF ChildrenFinishedBeforeParentMoves
<1> QED
  BY <1>2, <1>3

LEMMA OnlyRecoveriesLeaveBehind ==
    ASSUME LeftInv, NEW w \in Worker, pc[w] = "running", ~Recovered(pick[w]),
           NEW c \in ChildrenOf(pick[w])
    PROVE  ~Active(c)
<1> SUFFICES ASSUME Active(c)
             PROVE  FALSE
  OBVIOUS
<1>1. TypeOK /\ TicksOwned /\ ChildrenFinishedBeforeParentMoves /\ Recorded
  BY DEF LeftInv, UndoneInv, OutcomeInv, RunnerInv, CompensationInv
<1>2. PICK r \in Run : r = pick[w]
  BY <1>1 DEF TypeOK
<1>3. PICK i \in DOMAIN ticks[r] : c[1] \in ticks[r][i].emits /\ i # Len(ticks[r])
  BY <1>1, <1>2, ActiveChildHasTick
<1>4. AtRestBelow(r, i)
  BY <1>2, <1>3 DEF LeftInv, EarlierAtRest
<1>5. c \in Run /\ c = <<c[1], c[2]>> /\ c[2] \in Listeners[c[1]]
  BY DEF ChildrenOf, Run
<1>6. ~Terminated(c) /\ requested[c[1]] = Outside
  BY DEF Active
<1> QED
  BY <1>3, <1>4, <1>5, <1>6 DEF AtRestBelow

\* As long as no run has had to recover on its way back - handle the failed
\* rollback of a child, or launch messages while it compensates - nothing a run
\* launched is left running forward when it goes on, even where it was cancelled
\* or gave up while handlers were being started: the first step of its way back
\* asks all of them to roll back (PendingCoroutineRunSql.ts, the parts
\* resumeHappyPath and waiting of candidateSeensWaitingToBeProcessed).
THEOREM NothingLeftBehind ==
    Spec /\ [](\A r \in Run : ~Recovered(r)) => []NoChildLeftBehind
<1>1. LeftInv /\ (\A r \in Run : ~Recovered(r)) => NoChildLeftBehind
  <2> SUFFICES ASSUME LeftInv, \A r \in Run : ~Recovered(r),
                      NEW w \in Worker, pc[w] = "running"
               PROVE  \A c \in ChildrenOf(pick[w]) : ~Active(c)
    BY DEF NoChildLeftBehind
  <2>1. pick[w] \in Run
    BY DEF LeftInv, UndoneInv, OutcomeInv, RunnerInv, CompensationInv, TypeOK
  <2> QED
    BY <2>1, OnlyRecoveriesLeaveBehind
<1>2. Init => LeftInv
  BY LeftInitially
<1>3. LeftInv /\ [Next]_vars => LeftInv'
  BY LeftInductive
<1> QED
  BY <1>1, <1>2, <1>3, PTL DEF Spec

-----------------------------------------------------------------------------
\* Nobody gives up: no scope is cancelled and no deadline of a way forward passes.

NeverGivesUp == CancelScopes = {} /\ \A r \in Run : <<r, "happy">> \notin Deadlines

GivenUpByNone == cancelled = {} /\ \A r \in Run : ~GiveUpOnHappyPath(r)

EarlierEnded ==
    \A r \in Run : \A i \in DOMAIN ticks[r] : i # Len(ticks[r]) => Ended(r, i)

RunnersEnded ==
    \A w \in Worker : pc[w] = "running" =>
        \A i \in DOMAIN ticks[pick[w]] : Ended(pick[w], i)

\* The inductive invariant: whichever way a run goes, it waits for the handlers
\* of its latest tick, so those of every earlier one have ended.
PatientInv ==
    /\ UndoneInv
    /\ Recorded
    /\ GivenUpByNone
    /\ EarlierEnded
    /\ RunnersEnded

LEMMA GivenUpByNoneStep ==
    ASSUME NeverGivesUp, TypeOK, GivenUpByNone, [Next]_vars
    PROVE  GivenUpByNone'
<1>1. ASSUME NEW s \in Scope, Cancel(s)
      PROVE  FALSE
  BY <1>1 DEF Cancel, NeverGivesUp
<1>2. cancelled' = cancelled
  BY <1>1 DEF Next, WorkerStep, Conclude, Resume, Environment, vars, log, ReconcileBegin,
              ReconcileLock, ReconcileCommit, Select, Claim, LosePick, Suspend, UndoChildren,
              Finish, Fail, Abort, Crash, Launch, AskRollback, RequestRollback,
              WithdrawRollback, Expire
<1>3. \A r \in Run : <<r, "happy">> \in expired' => <<r, "happy">> \in expired
  <2>1. ASSUME NEW q \in Run, NEW path \in Path, Expire(q, path), NEW r \in Run,
               <<r, "happy">> \in expired'
        PROVE  <<r, "happy">> \in expired
    BY <2>1 DEF Expire, NeverGivesUp
  <2> QED
    BY <2>1 DEF Next, WorkerStep, Conclude, Resume, Environment, vars, log, ReconcileBegin,
                ReconcileLock, ReconcileCommit, Select, Claim, LosePick, Suspend, UndoChildren,
                Finish, Fail, Abort, Crash, Launch, AskRollback, RequestRollback,
                WithdrawRollback, Cancel
<1> QED
  BY <1>2, <1>3 DEF GivenUpByNone, GiveUpOnHappyPath, CancellationRequested

LEMMA RunnersEndedStep ==
    ASSUME PatientInv, [Next]_vars
    PROVE  RunnersEnded'
<1>1. TypeOK /\ Windows /\ RunnerInv /\ CompensationInv /\ Locking
  BY DEF PatientInv, UndoneInv, OutcomeInv, RunnerInv, CompensationInv
<1> SUFFICES ASSUME NEW w \in Worker, pc'[w] = "running",
                    NEW i \in DOMAIN ticks'[pick'[w]]
             PROVE  Ended(pick[w], i)'
  BY DEF RunnersEnded
<1>2. CASE Claim(w) /\ pc[w] = "selected"
  <2>1. PICK r \in Run : /\ r = pick[w] /\ pick'[w] = r /\ Ready(r)
                         /\ UNCHANGED <<ticks, marks, seen>>
    BY <1>1, <1>2, Claimed DEF log
  <2>2. CASE i # Len(ticks[r])
    BY <2>1, <2>2 DEF PatientInv, EarlierEnded, Ended, Terminated
  <2>3. CASE i = Len(ticks[r]) /\ ticks[r][i].emits = {}
    BY <2>1, <2>3 DEF Ended
  <2>4. CASE i = Len(ticks[r]) /\ ticks[r][i].emits # {}
    <3>1. /\ HasTicks(r) /\ LatestEmits(r) = ticks[r][i].emits
          /\ ticks[r][i].undoes = {} /\ LatestUndoes(r) = {}
      BY <1>1, <2>1, <2>4 DEF Windows, HasTicks, LatestEmits, LatestUndoes, Latest
    <3>2. /\ ResumeHappyPath(r) /\ Candidate(r)
          /\ \A c \in ChildSeens(r) : Terminated(c)
      BY <2>1, <3>1 DEF Ready, PatientInv, GivenUpByNone
    <3>3. ASSUME NEW m \in ticks[r][i].emits, NEW h \in Listeners[m]
          PROVE  <<m, h>> \in seen /\ Terminated(<<m, h>>)
      <4>1. <<m, h>> \in Run /\ Emitter[m] = r
        BY <1>1, <2>1, ListenersAreChildren DEF ChildrenOf
      <4>2. r \in Candidates(r[2])
        BY <3>2 DEF Candidates, RunsOf
      <4>3. <<m, h>> \in seen
        BY <3>1, <3>2, <3>3, <4>2 DEF ResumeHappyPath, AllStarted
      <4>4. <<m, h>> \in ChildSeens(r)
        BY <3>1, <3>3, <4>1, <4>3 DEF ChildSeens
      <4> QED
        BY <3>2, <4>3, <4>4
    <3>4. Ended(r, i)
      BY <3>3 DEF Ended
    <3> QED
      BY <2>1, <3>4 DEF Ended, Terminated
  <2> QED
    BY <2>2, <2>3, <2>4
<1>3. CASE pc[w] = "running" /\ Stays(w) /\ ticks'[pick[w]] = ticks[pick[w]]
  <2>1. PICK r \in Run : r = pick[w] /\ pick'[w] = r /\ ticks'[r] = ticks[r]
    BY <1>1, <1>3 DEF Stays, TypeOK
  <2>2. Ended(r, i)
    BY <1>3, <2>1 DEF PatientInv, RunnersEnded
  <2> QED
    BY <1>1, <2>1, <2>2, EndedKept
<1> QED
  BY <1>1, <1>2, <1>3, StillRunning

LEMMA EarlierEndedStep ==
    ASSUME PatientInv, [Next]_vars
    PROVE  EarlierEnded'
<1>1. TypeOK /\ RunnerInv
  BY DEF PatientInv, UndoneInv, OutcomeInv, RunnerInv, CompensationInv
<1> SUFFICES ASSUME NEW r \in Run, NEW i \in DOMAIN ticks'[r], i # Len(ticks'[r])
             PROVE  Ended(r, i)'
  BY DEF EarlierEnded
<1>2. CASE ticks'[r] = ticks[r]
  BY <1>1, <1>2, EndedKept DEF PatientInv, EarlierEnded
<1>3. ASSUME NEW w \in Worker, NEW t, Closes(w, t), ticks'[r] # ticks[r]
      PROVE  Ended(r, i)'
  <2>1. pick[w] \in Run /\ AppendTick(pick[w], t) /\ pc[w] = "running"
    BY <1>1, <1>3 DEF Closes, TypeOK
  <2>2. pick[w] = r
    BY <1>1, <1>3, <2>1, AppendedTick
  <2>3. ticks[r] \in Seq(Tick) /\ ticks \in [Run -> Seq(Tick)]
    BY <1>1 DEF TypeOK, LogTypeOK
  <2>4. ticks'[r] = Append(ticks[r], t)
    BY <2>1, <2>2, <2>3 DEF AppendTick
  <2>5. i \in DOMAIN ticks[r] /\ ticks'[r][i] = ticks[r][i]
    BY <2>3, <2>4
  <2>6. Ended(r, i)
    BY <2>1, <2>2, <2>5 DEF PatientInv, RunnersEnded
  <2> QED
    BY <1>1, <2>5, <2>6, EndedKept
<1> QED
  BY <1>1, <1>2, <1>3, TicksStep

LEMMA PatientInductive ==
    ASSUME NeverGivesUp, PatientInv, [Next]_vars
    PROVE  PatientInv'
<1>1. CompensationInv /\ TypeOK
  BY DEF PatientInv, UndoneInv, OutcomeInv, RunnerInv, CompensationInv
<1>2. UndoneInv' /\ Recorded' /\ GivenUpByNone'
  BY <1>1, UndoneInductive, RecordedStep, GivenUpByNoneStep DEF PatientInv
<1> QED
  BY <1>2, EarlierEndedStep, RunnersEndedStep DEF PatientInv

LEMMA PatientInitially == Init => PatientInv
<1> SUFFICES ASSUME Init
             PROVE  PatientInv
  OBVIOUS
<1>1. EarlierEnded /\ RunnersEnded
  BY DEF Init, LogInit, EarlierEnded, RunnersEnded
<1>2. Recorded
  BY DEF Init, LogInit, Recorded, NoSnapshot
<1>3. GivenUpByNone
  BY DEF Init, LogInit, GivenUpByNone, GiveUpOnHappyPath, CancellationRequested
<1> QED
  BY <1>1, <1>2, <1>3, UndoneInitially DEF PatientInv

\* Where nobody gives up, nothing a run launched is left running forward when it
\* goes on, whatever it recovers from, on either way: every step of it has waited
\* for all handlers of the one before (PendingCoroutineRunSql.ts, the same parts).
THEOREM NothingLeftBehindUnlessGivenUp ==
    ASSUME NeverGivesUp
    PROVE  Spec => []NoChildLeftBehind
<1>1. PatientInv => NoChildLeftBehind
  <2> SUFFICES ASSUME PatientInv, NEW w \in Worker, pc[w] = "running",
                      NEW c \in ChildrenOf(pick[w]), Active(c)
               PROVE  FALSE
    BY DEF NoChildLeftBehind
  <2>1. TypeOK /\ TicksOwned /\ ChildrenFinishedBeforeParentMoves /\ Recorded /\ RunnersEnded
    BY DEF PatientInv, UndoneInv, OutcomeInv, RunnerInv, CompensationInv
  <2>2. PICK r \in Run : r = pick[w]
    BY <2>1 DEF TypeOK
  <2>3. PICK i \in DOMAIN ticks[r] : c[1] \in ticks[r][i].emits
    BY <2>1, <2>2, ActiveChildHasTick
  <2>4. Ended(r, i)
    BY <2>1, <2>2, <2>3 DEF RunnersEnded
  <2>5. c \in Run /\ c = <<c[1], c[2]>> /\ c[2] \in Listeners[c[1]]
    BY DEF ChildrenOf, Run
  <2> QED
    BY <2>3, <2>4, <2>5 DEF Ended, Active
<1>2. Init => PatientInv
  BY PatientInitially
<1>3. PatientInv /\ [Next]_vars => PatientInv'
  BY PatientInductive
<1> QED
  BY <1>1, <1>2, <1>3, PTL DEF Spec
=============================================================================
