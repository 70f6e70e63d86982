----------------------- MODULE EventLoopPromise_proofs -----------------------
(***************************************************************************)
(* What holds of the event loop where clients roll back whole hierarchies  *)
(* and nobody gives up: handlers start only under a suspended parent, and  *)
(* the loop implements structured cooperation.                             *)
(***************************************************************************)
EXTENDS EventLoopRollback_proofs

\* No client rolls back a single run: requests name the root of a hierarchy.
WholeHierarchies == RollbackScopes \cap Run = {}

\* What a reconcile pass is about to roll back has started.
UndosSeen == \A w \in Worker : \A c \in snapshot[w].undos : c \in seen

\* A run that has not started has left nothing in the log.
Blank == \A r \in Run : r \notin seen => ticks[r] = <<>> /\ marks[r] = {}

\* What a tick launched is launched.
EmitsEmitted == \A r \in Run : \A i \in DOMAIN ticks[r] : ticks[r][i].emits \subseteq emitted

\* Rollback comes from above: from the scope that emitted the message, which
\* rolls back itself if it is a run.
RequestsFromAbove ==
    \A m \in Message : requested[m] # Outside =>
        /\ m \in emitted
        /\ requested[m] = EmittingScope(m)
        /\ Emitter[m] # Outside => RollingBack(Emitter[m])

\* It does not come while the run executes a step forward.
ForwardUnrequested ==
    \A w \in Worker : pc[w] = "running" /\ ~plan[w].back => requested[pick[w][1]] = Outside

StartedBelow(r, messages) == \A m \in messages : \A h \in Listeners[m] : <<m, h>> \in seen

\* It comes to a run that is done with what it launched, or has not started.
RequestedStarted ==
    \A r \in Run : requested[r[1]] # Outside /\ ~RollingBack(r) =>
        \A i \in DOMAIN ticks[r] : StartedBelow(r, ticks[r][i].emits)

FromAboveInv ==
    /\ UndoneInv
    /\ UndosSeen
    /\ EmitsEmitted
    /\ Blank
    /\ RequestsFromAbove
    /\ ForwardUnrequested
    /\ RequestedStarted

LEMMA UndosSeenStep ==
    ASSUME TypeOK, UndosSeen, [Next]_vars
    PROVE  UndosSeen'
<1> SUFFICES ASSUME NEW w \in Worker, NEW c \in snapshot'[w].undos
             PROVE  c \in seen'
  BY DEF UndosSeen
<1>1. seen \subseteq seen'
  BY SeenKept
<1>2. CASE Stays(w)
  BY <1>1, <1>2 DEF Stays, UndosSeen
<1>3. CASE WorkerStep(w)
  <2>1. CASE snapshot'[w] = NoSnapshot
    BY <2>1 DEF NoSnapshot
  <2>2. CASE snapshot'[w] = snapshot[w]
    BY <1>1, <2>2 DEF UndosSeen
  <2>3. CASE ReconcileBegin(w)
    <3>1. snapshot'[w] = Due(Serves[w])
      BY <2>3 DEF ReconcileBegin, TypeOK
    <3> QED
      BY <1>1, <3>1 DEF Due, RollbackEligible
  <2>4. CASE ReconcileLock(w)
    <3>1. snapshot'[w] = Unlocked(snapshot[w])
      BY <2>4 DEF ReconcileLock, TypeOK
    <3> QED
      BY <1>1, <3>1 DEF Unlocked, UndosSeen
  <2> QED
    BY <1>3, <2>1, <2>2, <2>3, <2>4
       DEF WorkerStep, Conclude, Resume, ReconcileCommit, Select, Claim, LosePick, Suspend,
           UndoChildren, Finish, Fail, Abort, Crash, ToIdle, TypeOK
<1> QED
  BY <1>2, <1>3, OthersStay, NobodyMoves DEF Next

LEMMA EmitsEmittedStep ==
    ASSUME TypeOK, EmitsEmitted, [Next]_vars
    PROVE  EmitsEmitted'
<1> SUFFICES ASSUME NEW r \in Run, NEW i \in DOMAIN ticks'[r]
             PROVE  ticks'[r][i].emits \subseteq emitted'
  BY DEF EmitsEmitted
<1>1. emitted \subseteq emitted'
  BY EmittedWritten
<1>2. CASE i \in DOMAIN ticks[r]
  BY <1>1, <1>2, OriginalsKept DEF EmitsEmitted
<1>3. ASSUME NEW w \in Worker, NEW t, Launches(w, t) \/ Requests(w, t), i \notin DOMAIN ticks[r]
      PROVE  ticks'[r][i].emits \subseteq emitted'
  <2>1. pick[w] \in Run /\ AppendTick(pick[w], t)
    BY <1>3 DEF Launches, Requests, Closes, TypeOK
  <2>2. ticks'[r][i] = t
    BY <1>3, <2>1, AppendedTick
  <2> QED
    BY <1>3, <2>2 DEF Launches, Requests
<1> QED
  BY <1>2, <1>3, TickWritten

LEMMA BlankStep ==
    ASSUME RunnerInv, UndosSeen, Blank, [Next]_vars
    PROVE  Blank'
<1>1. TypeOK /\ UndosRequested
  BY DEF RunnerInv, CompensationInv, Locking
<1> SUFFICES ASSUME NEW r \in Run, r \notin seen'
             PROVE  ticks'[r] = <<>> /\ marks'[r] = {}
  BY DEF Blank
<1>2. r \notin seen /\ ticks[r] = <<>> /\ marks[r] = {}
  BY SeenKept DEF Blank
<1>3. ASSUME NEW w \in Worker, pc[w] = "running"
      PROVE  pick[w] # r
  BY <1>2, <1>3 DEF RunnerInv, RunnersFit, Fits
<1>4. ticks'[r] = ticks[r]
  <2>1. ASSUME NEW w \in Worker, NEW t, Closes(w, t)
        PROVE  ticks'[r] = ticks[r]
    <3>1. pick[w] \in Run /\ AppendTick(pick[w], t) /\ pick[w] # r
      BY <1>1, <1>3, <2>1 DEF Closes, TypeOK
    <3> QED
      BY <1>1, <3>1, AppendedTick
  <2> QED
    BY <1>1, <2>1, TicksStep
<1>5. ASSUME NEW mark \in marks'[r]
      PROVE  FALSE
  BY <1>1, <1>2, <1>3, MarkWritten DEF UndosSeen
<1> QED
  BY <1>2, <1>4, <1>5

\* A client requests the rollback of a root message, by its own scope.
LEMMA ClientsScope ==
    ASSUME WholeHierarchies, TypeOK, NEW s \in RollbackScopes, Exists(s), NEW m \in MessagesIn(s)
    PROVE  s \notin Run /\ s = RootScope(m) /\ Emitter[m] = Outside /\ m \in emitted
<1>1. s \in Scope /\ s \notin Run
  BY EventLoopAssumption DEF WholeHierarchies
<1>2. s \notin seen
  BY <1>1 DEF TypeOK, LogTypeOK
<1>3. PICK n \in emitted \cap RootMessage : s = RootScope(n)
  BY <1>2 DEF Exists
<1>4. s # Outside
  BY <1>1, TreeAssumption
<1>5. EmittedBy(s) = {}
  BY <1>1, <1>4, TreeTypes DEF EmittedBy
<1>6. m = n
  BY <1>3, <1>5 DEF MessagesIn, RootScope
<1> QED
  BY <1>1, <1>3, <1>6 DEF RootMessage

LEMMA RootRequested ==
    ASSUME WholeHierarchies, TypeOK, NEW q \in asking
    PROVE  /\ q.scope \notin Run /\ Emitter[q.message] = Outside
           /\ q.scope = EmittingScope(q.message) /\ q.message \in emitted
<1>1. /\ q.scope \in RollbackScopes /\ Exists(q.scope)
      /\ q.message \in MessagesIn(q.scope)
  BY DEF TypeOK
<1> QED
  BY <1>1, ClientsScope DEF EmittingScope

\* A run asks to roll back what it launched, on its own way back.
LEMMA RequestsOwn ==
    ASSUME RunnerInv, NEW w \in Worker, NEW t, Requests(w, t)
    PROVE  /\ pick[w] \in Run /\ pc[w] = "running" /\ RollingBack(pick[w])
           /\ \A m \in t.undoes : m \in Message /\ Emitter[m] = pick[w]
           /\ \E i \in DOMAIN ticks[pick[w]] : t.undoes = ticks[pick[w]][i].emits
<1>1. TypeOK /\ Ranged
  BY DEF RunnerInv, CompensationInv
<1>2. PICK r, k : /\ r \in Run /\ r = pick[w] /\ k = plan[w].step[2] /\ pc[w] = "running"
                  /\ t.undoes = ticks[r][k].emits /\ plan[w].step[1] = "undoChildren"
  BY <1>1 DEF Requests, Closes, TypeOK
<1>3. k \in DOMAIN ticks[r]
  BY <1>1, <1>2 DEF Ranged, InRange, Sentinel, Originals
<1>4. \A m \in t.undoes : m \in Message /\ Emitter[m] = r
  BY <1>2, <1>3 DEF RunnerInv, TicksOwned, TickOwned, EmittedBy
<1>5. RollingBack(r)
  BY <1>2 DEF RunnerInv, RunnersFit, Fits
<1> QED
  BY <1>2, <1>3, <1>4, <1>5

\* A step asks for a rollback from above, of what has started and come to its end.
LEMMA RequestComes ==
    ASSUME WholeHierarchies, RequestsInTime, FromAboveInv, [Next]_vars,
           NEW m \in Message, requested[m] = Outside, requested'[m] # Outside
    PROVE  /\ m \in emitted
           /\ requested'[m] = EmittingScope(m)
           /\ Emitter[m] # Outside => RollingBack(Emitter[m])
           /\ \A c \in Run : c \in seen /\ c[1] = m => Terminated(c)
<1>1. TypeOK /\ RunnerInv /\ Ranged /\ OverMeansRollingBack
  BY DEF FromAboveInv, UndoneInv, OutcomeInv, RunnerInv, CompensationInv
<1>2. ASSUME NEW w \in Worker, NEW t, Requests(w, t), m \in t.undoes
      PROVE  /\ m \in emitted
             /\ requested'[m] = EmittingScope(m)
             /\ Emitter[m] # Outside => RollingBack(Emitter[m])
             /\ \A c \in Run : c \in seen /\ c[1] = m => Terminated(c)
  <2>1. PICK r \in Run : r = pick[w] /\ RollingBack(r) /\ Emitter[m] = r
                         /\ \E i \in DOMAIN ticks[r] : m \in ticks[r][i].emits
    BY <1>1, <1>2, RequestsOwn
  <2>2. m \in emitted
    BY <2>1 DEF FromAboveInv, EmitsEmitted
  <2>3. requested'[m] = r
    BY <1>2, <2>1 DEF Requests
  <2>5. r # Outside
    BY <2>1, TreeTypes
  <2>6. \A c \in Run : c \in seen /\ c[1] = m => Terminated(c)
    BY <1>2, RequestedHasTerminated DEF FromAboveInv
  <2> QED
    BY <2>1, <2>2, <2>3, <2>5, <2>6 DEF EmittingScope
<1>3. ASSUME NEW q \in asking, q.message = m, requested'[m] = q.scope
      PROVE  /\ m \in emitted
             /\ requested'[m] = EmittingScope(m)
             /\ Emitter[m] # Outside => RollingBack(Emitter[m])
             /\ \A c \in Run : c \in seen /\ c[1] = m => Terminated(c)
  BY <1>1, <1>3, RootRequested DEF RequestsInTime
<1> QED
  BY <1>1, <1>2, <1>3, RequestWritten

LEMMA RequestsFromAboveStep ==
    ASSUME WholeHierarchies, RequestsInTime, FromAboveInv, [Next]_vars
    PROVE  RequestsFromAbove'
<1>1. TypeOK
  BY DEF FromAboveInv, UndoneInv, OutcomeInv, RunnerInv, CompensationInv
<1> SUFFICES ASSUME NEW m \in Message, requested'[m] # Outside
             PROVE  /\ m \in emitted'
                    /\ requested'[m] = EmittingScope(m)
                    /\ Emitter[m] # Outside => RollingBack(Emitter[m])'
  BY DEF RequestsFromAbove
<1>2. /\ m \in emitted
      /\ requested'[m] = EmittingScope(m)
      /\ Emitter[m] # Outside => RollingBack(Emitter[m])
  BY <1>1, RequestComes, RequestsKept DEF FromAboveInv, RequestsFromAbove
<1>3. Emitter[m] # Outside => RollingBack(Emitter[m])'
  BY <1>1, <1>2, MarksKept, TreeTypes DEF RollingBack
<1> QED
  BY <1>1, <1>2, <1>3, EmittedWritten

LEMMA ForwardUnrequestedStep ==
    ASSUME WholeHierarchies, RequestsInTime, FromAboveInv, [Next]_vars
    PROVE  ForwardUnrequested'
<1>1. TypeOK /\ Locking /\ RunnerInv /\ CompensationInv
  BY DEF FromAboveInv, UndoneInv, OutcomeInv, RunnerInv, CompensationInv
<1> SUFFICES ASSUME NEW w \in Worker, pc'[w] = "running", ~plan'[w].back
             PROVE  requested'[pick'[w][1]] = Outside
  BY DEF ForwardUnrequested
<1>2. CASE Claim(w) /\ pc[w] = "selected"
  <2>1. PICK r \in Run : /\ r = pick[w] /\ pick'[w] = r /\ Candidate(r) /\ ~NotFound(r)
                         /\ plan'[w] = PlanFor(r) /\ UNCHANGED requested
    BY <1>1, <1>2, Claimed DEF log
  <2>2. ~RollingBack(r)
    BY <1>1, <2>1, PlanDirection
  <2> QED
    BY <2>1, <2>2 DEF Candidate
<1>3. CASE pc[w] = "running" /\ Stays(w)
  <2>1. PICK r \in Run : r = pick[w] /\ pick'[w] = r /\ r[1] \in Message /\ ~plan[w].back
                         /\ requested[r[1]] = Outside
    BY <1>1, <1>3, TreeTypes DEF Stays, TypeOK, FromAboveInv, ForwardUnrequested
  <2>2. r \in seen /\ ~Terminated(r)
    BY <1>1, <1>3, <2>1, ForwardIsOnItsWay
  <2> QED
    BY <2>1, <2>2, RequestComes
<1> QED
  BY <1>1, <1>2, <1>3, StillRunning

\* What a run on its way back has, and one that executes forward has not.
LEMMA ForwardTicksKept ==
    ASSUME RunnerInv, [Next]_vars, NEW r \in Run, ~RollingBack(r),
           \A w \in Worker : pc[w] = "running" /\ pick[w] = r => plan[w].back
    PROVE  ticks'[r] = ticks[r]
<1>1. TypeOK
  BY DEF RunnerInv, CompensationInv
<1>2. ASSUME NEW w \in Worker, NEW t, Closes(w, t)
      PROVE  ticks'[r] = ticks[r]
  <2>1. pick[w] \in Run /\ AppendTick(pick[w], t) /\ pc[w] = "running"
    BY <1>1, <1>2 DEF Closes, TypeOK
  <2>2. pick[w] # r
    BY <2>1 DEF RunnerInv, RunnersFit, Fits
  <2> QED
    BY <1>1, <2>1, <2>2, AppendedTick
<1> QED
  BY <1>1, <1>2, TicksStep

\* What committed has started.
LEMMA CommittedIsStarted ==
    ASSUME FromAboveInv, NEW r \in Run, "COMMITTED" \in marks[r], ~RollingBack(r),
           NEW i \in DOMAIN ticks[r]
    PROVE  StartedBelow(r, ticks[r][i].emits)
<1>1. RunnerInv /\ UndosMeanRollingBack /\ CommittedMeansTreeCommitted
  BY DEF FromAboveInv, UndoneInv, OutcomeInv, RunnerInv, CompensationInv
<1> SUFFICES ASSUME NEW m \in ticks[r][i].emits, NEW h \in Listeners[m]
             PROVE  <<m, h>> \in seen
  BY DEF StartedBelow
<1>2. "COMMITTED" \in marks[<<m, h>>]
  BY <1>1 DEF CommittedMeansTreeCommitted, UndosMeanRollingBack
<1>3. <<m, h>> \in Run
  BY <1>1, ListenersAreChildren DEF ChildrenOf
<1> QED
  BY <1>2, <1>3 DEF FromAboveInv, Blank

LEMMA RequestedStartedStep ==
    ASSUME WholeHierarchies, RequestsInTime, FromAboveInv, [Next]_vars
    PROVE  RequestedStarted'
<1>1. TypeOK /\ RunnerInv /\ OverMeansRollingBack
  BY DEF FromAboveInv, UndoneInv, OutcomeInv, RunnerInv, CompensationInv
<1> SUFFICES ASSUME NEW r \in Run, requested'[r[1]] # Outside, ~RollingBack(r)',
                    NEW i \in DOMAIN ticks'[r]
             PROVE  StartedBelow(r, ticks[r][i].emits)'
  BY DEF RequestedStarted
<1>2. r[1] \in Message /\ ~RollingBack(r)
  BY <1>1, TreeTypes, MarksKept DEF RollingBack
<1>3. requested[r[1]] = Outside => r \notin seen \/ "COMMITTED" \in marks[r]
  <2>1. ~RollbackOver(r)
    BY <1>1, <1>2 DEF OverMeansRollingBack
  <2> QED
    BY <1>2, <2>1, RequestComes DEF Terminated, RollbackOver
<1>4. ticks'[r] = ticks[r]
  <2>1. ASSUME NEW w \in Worker, pc[w] = "running", pick[w] = r, ~plan[w].back
        PROVE  FALSE
    BY <1>1, <1>3, <2>1 DEF FromAboveInv, ForwardUnrequested, RunnerInv, RunnersFit, Fits
  <2> QED
    BY <1>1, <1>2, <2>1, ForwardTicksKept
<1>5. StartedBelow(r, ticks[r][i].emits)
  <2>1. CASE requested[r[1]] # Outside
    BY <1>2, <1>4, <2>1 DEF FromAboveInv, RequestedStarted
  <2>2. CASE r \notin seen
    BY <1>4, <2>2 DEF FromAboveInv, Blank
  <2>3. CASE "COMMITTED" \in marks[r]
    BY <1>2, <1>4, <2>3, CommittedIsStarted
  <2> QED
    BY <1>3, <2>1, <2>2, <2>3
<1> QED
  BY <1>4, <1>5, SeenKept DEF StartedBelow

LEMMA FromAboveInductive ==
    ASSUME WholeHierarchies, RequestsInTime, FromAboveInv, [Next]_vars
    PROVE  FromAboveInv'
<1>1. TypeOK /\ RunnerInv
  BY DEF FromAboveInv, UndoneInv, OutcomeInv, RunnerInv, CompensationInv
<1>2. UndoneInv' /\ UndosSeen' /\ EmitsEmitted' /\ Blank'
  BY <1>1, UndoneInductive, UndosSeenStep, EmitsEmittedStep, BlankStep DEF FromAboveInv
<1> QED
  BY <1>2, RequestsFromAboveStep, ForwardUnrequestedStep, RequestedStartedStep
     DEF FromAboveInv

LEMMA FromAboveInitially == Init => FromAboveInv
<1> SUFFICES ASSUME Init
             PROVE  FromAboveInv
  OBVIOUS
<1>1. /\ \A r \in Run : ticks[r] = <<>> /\ marks[r] = {}
      /\ \A m \in Message : requested[m] = Outside
      /\ \A w \in Worker : pc[w] = "idle" /\ snapshot[w] = NoSnapshot
  BY DEF Init, LogInit
<1>2. \A r \in Run : requested[r[1]] = Outside
  BY <1>1, TreeTypes
<1>3. UndosSeen /\ Blank
  BY <1>1 DEF UndosSeen, Blank, NoSnapshot
<1>4. EmitsEmitted
  BY <1>1 DEF EmitsEmitted
<1>5. RequestsFromAbove /\ ForwardUnrequested /\ RequestedStarted
  BY <1>1, <1>2 DEF RequestsFromAbove, ForwardUnrequested, RequestedStarted
<1> QED
  BY <1>3, <1>4, <1>5, UndoneInitially DEF FromAboveInv

-----------------------------------------------------------------------------
\* Handlers start under a suspended parent.

\* As long as a handler of a run's latest step has not started, the run's newest
\* row is the SUSPENDED that closed the step.
NotLeft ==
    \A r \in Run : lastEvent[r] # "SUSPENDED" => StartedBelow(r, LatestEmits(r))

\* The inductive invariant: a run leaves the step it is suspended on by a tick,
\* which waits, by failing in one, or at a request from above, which waits too.
SuspendedInv ==
    /\ PatientInv
    /\ FromAboveInv
    /\ NotLeft

\* How a run's newest row comes to be another than a SUSPENDED.
LEMMA LastWritten ==
    ASSUME NeverGivesUp, WholeHierarchies, TypeOK, [Next]_vars,
           NEW r \in Run, lastEvent'[r] # "SUSPENDED"
    PROVE  /\ ticks'[r] = ticks[r]
           /\ \/ lastEvent[r] # "SUSPENDED"
              \/ \E w \in Worker : pc[w] = "running" /\ pick[w] = r
              \/ \E w \in Worker : pc[w] = "inserting" /\ r \in snapshot[w].starts /\ r \notin seen
              \/ \E w \in Worker : pc[w] = "inserting" /\ r \in snapshot[w].undos /\ ~RollingBack(r)
<1>1. CASE UNCHANGED <<ticks, lastEvent>>
  BY <1>1
<1>2. ASSUME NEW w \in Worker, pc[w] = "running",
             UNCHANGED lastEvent \/ \E e : lastEvent' = [lastEvent EXCEPT ![pick[w]] = e]
      PROVE  lastEvent[r] # "SUSPENDED" \/ pick[w] = r
  BY <1>2 DEF TypeOK, LogTypeOK
<1>3. ASSUME NEW w \in Worker, Suspend(w) \/ UndoChildren(w)
      PROVE  ticks'[r] = ticks[r] /\ (lastEvent[r] # "SUSPENDED" \/ pick[w] = r)
  <2>1. CASE UNCHANGED <<ticks, lastEvent>>
    BY <2>1
  <2>2. CASE \E t : /\ AppendTick(pick[w], t)
                   /\ lastEvent' = [lastEvent EXCEPT ![pick[w]] = "SUSPENDED"]
    <3>1. pick[w] # r
      BY <2>2 DEF TypeOK, LogTypeOK
    <3> QED
      BY <2>2, <3>1 DEF AppendTick, TypeOK, LogTypeOK
  <2> QED
    BY <1>3, <2>1, <2>2 DEF Suspend, UndoChildren
<1>4. ASSUME NEW w \in Worker, Finish(w) \/ Fail(w)
      PROVE  ticks'[r] = ticks[r] /\ (lastEvent[r] # "SUSPENDED" \/ pick[w] = r)
             /\ pc[w] = "running"
  BY <1>2, <1>4 DEF Finish, Fail
<1>5. ASSUME NEW w \in Worker, ReconcileCommit(w)
      PROVE  /\ ticks'[r] = ticks[r]
             /\ pc[w] = "inserting"
             /\ \/ lastEvent[r] # "SUSPENDED"
                \/ r \in snapshot[w].starts /\ r \notin seen
                \/ r \in snapshot[w].undos /\ ~RollingBack(r)
  BY <1>5 DEF ReconcileCommit
<1>6. ASSUME NEW s \in Scope, Cancel(s) \/ RequestRollback(s)
      PROVE  UNCHANGED ticks /\ lastEvent'[r] = lastEvent[r]
  <2>1. s # r
    BY <1>6 DEF Cancel, RequestRollback, NeverGivesUp, WholeHierarchies, TypeOK
  <2> QED
    BY <1>6, <2>1 DEF Cancel, RequestRollback, NoteInLineage
<1>7. \/ UNCHANGED <<ticks, lastEvent>>
      \/ \E w \in Worker : Suspend(w) \/ UndoChildren(w) \/ Finish(w) \/ Fail(w)
      \/ \E w \in Worker : ReconcileCommit(w)
      \/ \E s \in Scope : Cancel(s) \/ RequestRollback(s)
  BY DEF Next, WorkerStep, Conclude, Resume, Environment, vars, log, ReconcileBegin,
         ReconcileLock, Select, Claim, LosePick, Abort, Crash, Launch, AskRollback,
         WithdrawRollback, Expire
<1>8. \A w \in Worker : Suspend(w) \/ UndoChildren(w) => pc[w] = "running"
  BY DEF Suspend, UndoChildren
<1> QED
  BY <1>1, <1>3, <1>4, <1>5, <1>6, <1>7, <1>8

LEMMA NotLeftStep ==
    ASSUME NeverGivesUp, WholeHierarchies, RequestsInTime, SuspendedInv, [Next]_vars
    PROVE  NotLeft'
<1>1. TypeOK /\ RunnersEnded /\ UndosRequested
  BY DEF SuspendedInv, PatientInv, UndoneInv, OutcomeInv, RunnerInv, CompensationInv, Locking
<1> SUFFICES ASSUME NEW r \in Run, lastEvent'[r] # "SUSPENDED"
             PROVE  StartedBelow(r, LatestEmits(r))'
  BY DEF NotLeft
<1>2. StartedBelow(r, LatestEmits(r))
  <2>1. CASE lastEvent[r] # "SUSPENDED"
    BY <2>1 DEF SuspendedInv, NotLeft
  <2>2. LatestEmits(r) = {} \/ \E i \in DOMAIN ticks[r] : LatestEmits(r) = ticks[r][i].emits
    BY <1>1, TickTypes DEF LatestEmits, Latest
  <2>3. ASSUME NEW w \in Worker, pc[w] = "running", pick[w] = r
        PROVE  StartedBelow(r, LatestEmits(r))
    BY <1>1, <2>2, <2>3 DEF RunnersEnded, Ended, StartedBelow
  <2>4. CASE r \notin seen
    BY <2>4 DEF SuspendedInv, FromAboveInv, Blank, LatestEmits, HasTicks, StartedBelow
  <2>5. ASSUME NEW w \in Worker, r \in snapshot[w].undos, ~RollingBack(r)
        PROVE  StartedBelow(r, LatestEmits(r))
    <3>1. requested[r[1]] # Outside
      BY <1>1, <2>5 DEF UndosRequested
    <3> QED
      BY <2>2, <2>5, <3>1 DEF SuspendedInv, FromAboveInv, RequestedStarted, StartedBelow
  <2> QED
    BY <1>1, <2>1, <2>3, <2>4, <2>5, LastWritten
<1>3. LatestEmits(r)' = LatestEmits(r)
  <2>1. ticks'[r] = ticks[r]
    BY <1>1, LastWritten
  <2> QED
    BY <2>1 DEF LatestEmits, HasTicks, Latest
<1> QED
  BY <1>2, <1>3, SeenKept DEF StartedBelow

LEMMA SuspendedInductive ==
    ASSUME NeverGivesUp, WholeHierarchies, RequestsInTime, SuspendedInv, [Next]_vars
    PROVE  SuspendedInv'
BY PatientInductive, FromAboveInductive, NotLeftStep DEF SuspendedInv

LEMMA SuspendedInitially == Init => SuspendedInv
<1> SUFFICES ASSUME Init
             PROVE  SuspendedInv
  OBVIOUS
<1>1. NotLeft
  BY DEF Init, LogInit, NotLeft, LatestEmits, HasTicks, StartedBelow
<1> QED
  BY <1>1, PatientInitially, FromAboveInitially DEF SuspendedInv

\* A handler that starts is one of its emitter's latest step, which no worker executes.
LEMMA StartsBelowLatest ==
    ASSUME PatientInv, [Next]_vars, NEW r \in Run, NEW c \in ChildrenOf(r),
           c \in seen', c \notin seen
    PROVE  /\ c[1] \in LatestEmits(r)
           /\ r \notin Executing
           /\ UNCHANGED ticks
<1>1. /\ TypeOK /\ OneHolder /\ Recorded /\ EarlierEnded
  BY DEF PatientInv, UndoneInv, OutcomeInv, RunnerInv, CompensationInv, Locking
<1>2. c \in Run /\ Emitter[c[1]] = r /\ c = <<c[1], c[2]>> /\ c[2] \in Listeners[c[1]]
  BY DEF ChildrenOf, Run
<1>3. PICK v \in Worker : pc[v] = "inserting" /\ Holds(v, r)
  BY <1>1, <1>2, StartedUnderLock
<1>4. r \notin Executing
  BY <1>1, <1>3 DEF Executing, OneHolder, Holds
<1>5. PICK i \in DOMAIN ticks[r] : c[1] \in ticks[r][i].emits
  BY <1>1, <1>2, SeenWritten DEF Recorded
<1>6. i = Len(ticks[r])
  BY <1>1, <1>2, <1>5 DEF EarlierEnded, Ended
<1>7. c[1] \in LatestEmits(r)
  BY <1>5, <1>6 DEF LatestEmits, Latest, HasTicks
<1>8. UNCHANGED ticks
  BY <1>1, TickWritten DEF Launches, Requests
<1> QED
  BY <1>4, <1>7, <1>8

\* Where clients roll back whole hierarchies, no request of theirs is overtaken by the
\* handlers it is for and nobody gives up, a handler starts only while its emitter is
\* suspended on the step that launched its message, and while no worker executes a
\* step of the emitter - although the reconcile pass that starts it selected it from
\* an older snapshot and holds only the emitter's SEEN row (EventLoop.ts,
\* startContinuationsForCoroutine, "child-starts-while-parent-rolls-back race").
\* With a cancellation or a deadline it is not so: a run that gave up before all
\* handlers of its latest step started turns around first.
THEOREM StartsUnderItsParent ==
    ASSUME NeverGivesUp, WholeHierarchies
    PROVE  Spec /\ []RequestsInTime => StartsUnderSuspendedParent
<1>1. ASSUME SuspendedInv, [Next]_vars, NEW c \in Run, c \in seen', c \notin seen,
             Emitter[c[1]] # Outside
      PROVE  /\ Emitter[c[1]] \notin Executing
             /\ lastEvent[Emitter[c[1]]] = "SUSPENDED"
             /\ c[1] \in LatestEmits(Emitter[c[1]])
  <2>1. PICK p \in Run : p = Emitter[c[1]]
    BY <1>1, TreeTypes
  <2>2. p \notin Executing /\ c[1] \in LatestEmits(p)
    BY <1>1, <2>1, StartsBelowLatest DEF SuspendedInv, ChildrenOf
  <2>3. c = <<c[1], c[2]>> /\ c[2] \in Listeners[c[1]]
    BY DEF Run
  <2>4. lastEvent[p] = "SUSPENDED"
    BY <1>1, <2>2, <2>3 DEF SuspendedInv, NotLeft, StartedBelow
  <2> QED
    BY <2>1, <2>2, <2>4
<1>2. SuspendedInv /\ [Next]_vars =>
        [\A c \in Run : c \in seen' \ seen =>
            LET p == Emitter[c[1]]
            IN  p # Outside =>
                p \notin Executing /\ lastEvent[p] = "SUSPENDED" /\ c[1] \in LatestEmits(p)]_vars
  BY <1>1
<1>3. Init => SuspendedInv
  BY SuspendedInitially
<1>4. SuspendedInv /\ RequestsInTime /\ [Next]_vars => SuspendedInv'
  BY SuspendedInductive
<1> QED
  BY <1>2, <1>3, <1>4, PTL DEF Spec, StartsUnderSuspendedParent

-----------------------------------------------------------------------------
\* What the log says of a run, as one status.

\* A rollback has one end.
OneEnd == \A r \in Run : ~({"ROLLED_BACK", "ROLLBACK_FAILED"} \subseteq marks[r])

\* A run that committed turns around at a request only.
CommittedTurns ==
    \A r \in Run : "COMMITTED" \in marks[r] /\ RollingBack(r) => requested[r[1]] # Outside

LEMMA OneEndStep ==
    ASSUME RunnerInv, OneEnd, [Next]_vars
    PROVE  OneEnd'
<1>1. TypeOK /\ UndosRequested /\ OneHolder
  BY DEF RunnerInv, CompensationInv, Locking
<1> SUFFICES ASSUME NEW r \in Run, "ROLLED_BACK" \in marks'[r], "ROLLBACK_FAILED" \in marks'[r]
             PROVE  FALSE
  BY DEF OneEnd
<1>2. CASE RollbackOver(r)
  <2>1. \A w \in Worker : pc[w] = "running" => pick[w] # r
    BY <1>2 DEF RunnerInv, RunnersFit, Fits
  <2>2. "ROLLED_BACK" \in marks[r] /\ "ROLLBACK_FAILED" \in marks[r]
    BY <1>1, <2>1, MarkWritten
  <2> QED
    BY <2>2 DEF OneEnd
<1>3. CASE ~RollbackOver(r)
  <2>1. "ROLLED_BACK" \notin marks[r] /\ "ROLLBACK_FAILED" \notin marks[r]
    BY <1>3 DEF RollbackOver
  <2>2. PICK v \in Worker : /\ pc[v] = "running" /\ pick[v] = r
                            /\ Ends(v, "ROLLED_BACK") \/ Breaks(v, "ROLLED_BACK")
    BY <1>1, <2>1, MarkWritten
  <2>3. PICK w \in Worker : /\ pc[w] = "running" /\ pick[w] = r
                            /\ Ends(w, "ROLLBACK_FAILED") \/ Breaks(w, "ROLLBACK_FAILED")
    BY <1>1, <2>1, MarkWritten
  <2>4. v = w
    BY <1>1, <2>2, <2>3 DEF OneHolder, Holds
  <2> QED
    BY <2>2, <2>3, <2>4 DEF Ends, Breaks
<1> QED
  BY <1>2, <1>3

LEMMA CommittedTurnsStep ==
    ASSUME FromAboveInv, CommittedTurns, [Next]_vars
    PROVE  CommittedTurns'
<1>1. TypeOK /\ UndosRequested /\ OneHolder /\ RunnerInv
  BY DEF FromAboveInv, UndoneInv, OutcomeInv, RunnerInv, CompensationInv, Locking
<1> SUFFICES ASSUME NEW r \in Run, "COMMITTED" \in marks'[r], "ROLLING_BACK" \in marks'[r],
                    requested[r[1]] = Outside
             PROVE  FALSE
  BY <1>1, RequestsKept, TreeTypes DEF CommittedTurns, RollingBack
<1>2. "COMMITTED" \notin marks[r] \/ "ROLLING_BACK" \notin marks[r]
  BY DEF CommittedTurns, RollingBack
<1>3. "COMMITTED" \notin marks[r] =>
        \E v \in Worker : pc[v] = "running" /\ pick[v] = r /\ ~plan[v].back /\ pc'[v] = "idle"
  BY <1>1, MarkWritten DEF Ends, Breaks
<1>4. "ROLLING_BACK" \notin marks[r] =>
        \E v \in Worker : pc[v] = "running" /\ pick[v] = r /\ ~plan[v].back /\ pc'[v] = "aborting"
  BY <1>1, MarkWritten DEF Ends, Breaks
<1>5. PICK v \in Worker : pc[v] = "running" /\ pick[v] = r /\ ~plan[v].back
  BY <1>2, <1>3, <1>4
<1>6. "COMMITTED" \notin marks[r] /\ "ROLLING_BACK" \notin marks[r]
  BY <1>1, <1>5 DEF RunnerInv, RunnersFit, Fits, RollingBack
<1>7. PICK u, w \in Worker : /\ pc[u] = "running" /\ pick[u] = r /\ pc'[u] = "idle"
                             /\ pc[w] = "running" /\ pick[w] = r /\ pc'[w] = "aborting"
  BY <1>3, <1>4, <1>6
<1> QED
  BY <1>1, <1>7 DEF OneHolder, Holds

\* What the status of a run says about its rows.
StatusRead(r) ==
    /\ StatusOf(r) = "absent" <=> r \notin seen
    /\ StatusOf(r) = "rolledBack" <=> r \in seen /\ "ROLLED_BACK" \in marks[r]
    /\ StatusOf(r) = "rollbackFailed" <=> r \in seen /\ "ROLLBACK_FAILED" \in marks[r]
    /\ StatusOf(r) = "rollingBack" <=>
        r \in seen /\ ~RollbackOver(r) /\ (RollingBack(r) \/ requested[r[1]] # Outside)
    /\ StatusOf(r) = "committed" <=>
        /\ r \in seen /\ ~RollbackOver(r) /\ ~RollingBack(r)
        /\ requested[r[1]] = Outside /\ "COMMITTED" \in marks[r]
    /\ StatusOf(r) = "started" <=>
        /\ r \in seen /\ ~Terminated(r) /\ ~RollingBack(r)
        /\ requested[r[1]] = Outside
    /\ StatusOf(r) \in {"absent", "started", "committed", "rollingBack", "rolledBack",
                        "rollbackFailed"}

LEMMA StatusIs ==
    ASSUME Blank, OneEnd, NEW r \in Run
    PROVE  StatusRead(r)
<1>1. r \notin seen => marks[r] = {}
  BY DEF Blank
<1>2. ~("ROLLED_BACK" \in marks[r] /\ "ROLLBACK_FAILED" \in marks[r])
  BY DEF OneEnd
<1> QED
  BY <1>1, <1>2 DEF StatusRead, StatusOf, RollbackOver, Terminated

LEMMA StatusIsNext ==
    ASSUME Blank', OneEnd', NEW r \in Run
    PROVE  StatusRead(r)'
<1>1. r \notin seen' => marks'[r] = {}
  BY DEF Blank
<1>2. ~("ROLLED_BACK" \in marks'[r] /\ "ROLLBACK_FAILED" \in marks'[r])
  BY DEF OneEnd
<1> QED
  BY <1>1, <1>2 DEF StatusRead, StatusOf, RollbackOver, Terminated, RollingBack

-----------------------------------------------------------------------------
\* Everything below a run that executes is at rest.

\* Nobody gives up, on either way.
NoGivingUp == CancelScopes = {} /\ Deadlines = {}

Quiet(r) == StatusOf(r) \notin {"started", "rollingBack"}

\* What a run has launched last it has not asked to roll back.
FreshUnrequested == \A r \in Run : \A m \in LatestEmits(r) : requested[m] = Outside

\* Only the handlers of what a run launched or took back last are not at rest.
RestlessBelowLatest ==
    \A r \in Run : \A c \in ChildrenOf(r) :
        ~Quiet(c) => c[1] \in LatestEmits(r) \cup LatestUndoes(r)

QuietBelowExecuting == \A r \in Executing : \A c \in ChildrenOf(r) : Quiet(c)

\* The inductive invariant: a run that goes on has waited for the only children
\* that were not at rest, and while it executes nobody else sets one off.
RestInv ==
    /\ PatientInv
    /\ FromAboveInv
    /\ OneEnd
    /\ CommittedTurns
    /\ expired = {}
    /\ FreshUnrequested
    /\ RestlessBelowLatest
    /\ QuietBelowExecuting

LEMMA RestImplies ==
    ASSUME RestInv
    PROVE  /\ TypeOK /\ Ranged /\ Locking /\ UndosRequested /\ OneHolder
           /\ CompensationInv /\ RunnerInv /\ OutcomeInv /\ UndoneInv
           /\ OverMeansRollingBack /\ TicksOwned /\ Windows /\ Recorded /\ EarlierEnded
           /\ Blank /\ OneEnd
BY DEF RestInv, PatientInv, FromAboveInv, UndoneInv, OutcomeInv, RunnerInv, CompensationInv,
       Locking

\* The tick a run launches messages in is the first to have them.
LEMMA SuspendLaunchesFresh ==
    ASSUME TypeOK, NEW w \in Worker, Suspend(w)
    PROVE  \E t : Launches(w, t) /\ t.emits \cap emitted = {}
<1>1. PICK t : Launches(w, t)
  BY SuspendLaunches
<1>2. PICK launched, next :
        /\ launched \in SUBSET (EmittedBy(pick[w]) \ emitted)
        /\ AppendTick(pick[w], [step |-> plan[w].step, next |-> next, iter |-> plan[w].iter,
                                emits |-> launched, undoes |-> {}])
  <2>1. PICK launched \in SUBSET (EmittedBy(pick[w]) \ emitted) :
          \E next :
            AppendTick(pick[w], [step |-> plan[w].step, next |-> next, iter |-> plan[w].iter,
                                 emits |-> launched, undoes |-> {}])
    BY DEF Suspend
  <2> QED
    BY <2>1
<1>3. PICK u : u = [step |-> plan[w].step, next |-> next, iter |-> plan[w].iter,
                    emits |-> launched, undoes |-> {}]
  OBVIOUS
<1>4. pick[w] \in Run /\ AppendTick(pick[w], t) /\ AppendTick(pick[w], u)
  BY <1>1, <1>2, <1>3 DEF Launches, Closes, TypeOK
<1>5. u = t
  BY <1>4, AppendedTick
<1>6. t.emits = launched
  BY <1>3, <1>5
<1> QED
  BY <1>1, <1>2, <1>6

LEMMA FreshlyLaunched ==
    ASSUME TypeOK, [Next]_vars
    PROVE  \/ UNCHANGED ticks
           \/ \E w \in Worker : \E t : Launches(w, t) /\ t.emits \cap emitted = {}
           \/ \E w \in Worker : \E t : Requests(w, t)
<1>1. \/ UNCHANGED ticks
      \/ \E w \in Worker : Suspend(w)
      \/ \E w \in Worker : UndoChildren(w)
  BY DEF Next, WorkerStep, Conclude, Resume, Environment, vars, log, ReconcileBegin,
         ReconcileLock, ReconcileCommit, Select, Claim, LosePick, Finish, Fail,
         Abort, Crash, Launch, Cancel, AskRollback, RequestRollback, WithdrawRollback, Expire
<1> QED
  BY <1>1, SuspendLaunchesFresh, UndoChildrenRequests

\* The tick a worker commits becomes the latest of the run it executes.
LEMMA LatestWritten ==
    ASSUME TypeOK, NEW w \in Worker, NEW t, Closes(w, t)
    PROVE  /\ pick[w] \in Run /\ pc[w] = "running"
           /\ \A r \in Run :
                IF r = pick[w]
                THEN LatestEmits(r)' = t.emits /\ LatestUndoes(r)' = t.undoes
                ELSE /\ ticks'[r] = ticks[r]
                     /\ LatestEmits(r)' = LatestEmits(r)
                     /\ LatestUndoes(r)' = LatestUndoes(r)
<1>1. PICK p \in Run : p = pick[w] /\ AppendTick(p, t) /\ pc[w] = "running"
  BY DEF Closes, TypeOK
<1>2. ticks'[p] = Append(ticks[p], t) /\ ticks[p] \in Seq(Tick)
  BY <1>1 DEF AppendTick, TypeOK, LogTypeOK
<1>3. ticks'[p] # <<>> /\ ticks'[p][Len(ticks'[p])] = t
  <2>1. Len(ticks'[p]) = Len(ticks[p]) + 1 /\ Len(ticks[p]) \in Nat
    BY <1>2
  <2>2. ticks'[p][Len(ticks[p]) + 1] = t
    BY <1>1, AppendedTick
  <2>3. Len(<<>>) = 0
    OBVIOUS
  <2> QED
    BY <2>1, <2>2, <2>3
<1>4. LatestEmits(p)' = t.emits /\ LatestUndoes(p)' = t.undoes
  BY <1>3 DEF LatestEmits, LatestUndoes, HasTicks, Latest
<1>5. ASSUME NEW r \in Run, r # p
      PROVE  /\ ticks'[r] = ticks[r]
             /\ LatestEmits(r)' = LatestEmits(r) /\ LatestUndoes(r)' = LatestUndoes(r)
  <2>1. ticks'[r] = ticks[r]
    BY <1>1, <1>5, AppendedTick
  <2> QED
    BY <2>1 DEF LatestEmits, LatestUndoes, HasTicks, Latest
<1> QED
  BY <1>1, <1>4, <1>5

LEMMA FreshUnrequestedStep ==
    ASSUME WholeHierarchies, RequestsInTime, RestInv, [Next]_vars
    PROVE  FreshUnrequested'
<1>1. TypeOK /\ RunnerInv /\ TicksOwned
  BY RestImplies
<1> SUFFICES ASSUME NEW r \in Run, NEW m \in LatestEmits(r)', requested'[m] # Outside
             PROVE  FALSE
  BY DEF FreshUnrequested
<1>2. ASSUME m \in LatestEmits(r), \A w \in Worker : \A t : Requests(w, t) => pick[w] # r
      PROVE  FALSE
  <2>1. PICK i \in DOMAIN ticks[r] : m \in ticks[r][i].emits
    BY <1>1, <1>2, TickTypes DEF LatestEmits, Latest
  <2>2. m \in Message /\ Emitter[m] = r /\ r # Outside /\ requested[m] = Outside
    BY <1>1, <1>2, <2>1, TreeTypes DEF TicksOwned, TickOwned, EmittedBy, RestInv, FreshUnrequested
  <2>3. ASSUME NEW w \in Worker, NEW t, Requests(w, t), m \in t.undoes
        PROVE  FALSE
    BY <1>1, <1>2, <2>2, <2>3, RequestsOwn
  <2>4. ASSUME NEW q \in asking, q.message = m
        PROVE  FALSE
    BY <1>1, <2>2, <2>4, RootRequested
  <2> QED
    BY <1>1, <2>2, <2>3, <2>4, RequestWritten
<1>3. CASE UNCHANGED ticks
  <2>1. LatestEmits(r)' = LatestEmits(r)
    BY <1>3 DEF LatestEmits, HasTicks, Latest
  <2>2. \A w \in Worker : \A t : ~Requests(w, t)
    <3> SUFFICES ASSUME NEW w \in Worker, NEW t, Requests(w, t)
                 PROVE  FALSE
      OBVIOUS
    <3>1. pick[w] \in Run /\ AppendTick(pick[w], t)
      BY <1>1 DEF Requests, Closes, TypeOK
    <3> QED
      BY <1>1, <1>3, <3>1, AppendedTick, TickTypes
  <2> QED
    BY <1>2, <2>1, <2>2
<1>4. ASSUME NEW w \in Worker, NEW t, Launches(w, t), t.emits \cap emitted = {}
      PROVE  FALSE
  <2>1. requested' = requested /\ Closes(w, t)
    BY <1>4 DEF Launches
  <2>2. CASE r = pick[w]
    <3>1. m \in t.emits
      BY <1>1, <2>1, <2>2, LatestWritten
    <3>2. m \in Message /\ m \notin emitted
      BY <1>4, <3>1 DEF Launches, EmittedBy
    <3> QED
      BY <2>1, <3>2 DEF RestInv, FromAboveInv, RequestsFromAbove
  <2>3. CASE r # pick[w]
    <3>1. m \in LatestEmits(r)
      BY <1>1, <2>1, <2>3, LatestWritten
    <3> QED
      BY <2>1, <3>1 DEF RestInv, FreshUnrequested
  <2> QED
    BY <2>2, <2>3
<1>5. ASSUME NEW w \in Worker, NEW t, Requests(w, t)
      PROVE  FALSE
  <2>1. Closes(w, t) /\ t.emits = {} /\ pc[w] = "running"
    BY <1>5 DEF Requests, Closes
  <2>2. r # pick[w] /\ m \in LatestEmits(r)
    BY <1>1, <2>1, LatestWritten
  <2>3. ASSUME NEW v \in Worker, NEW u, Requests(v, u)
        PROVE  pick[v] # r
    <3>1. Closes(v, u)
      BY <2>3 DEF Requests
    <3>2. pick[v] = r => LatestEmits(r)' = {}
      BY <1>1, <2>3, <3>1, LatestWritten DEF Requests
    <3> QED
      BY <3>2
  <2> QED
    BY <1>2, <2>2, <2>3
<1> QED
  BY <1>1, <1>3, <1>4, <1>5, FreshlyLaunched

\* How a child that was at rest comes to have something to run.
LEMMA SetOff ==
    ASSUME WholeHierarchies, RequestsInTime, RestInv, [Next]_vars, Blank', OneEnd',
           NEW r \in Run, NEW c \in ChildrenOf(r), Quiet(c), ~Quiet(c)'
    PROVE  \/ c \notin seen /\ c \in seen'
           \/ \E w \in Worker : \E t : Requests(w, t) /\ pick[w] = r /\ c[1] \in t.undoes
<1>1. TypeOK /\ UndosRequested /\ RunnerInv /\ OverMeansRollingBack /\ Blank /\ OneEnd
  BY RestImplies
<1>2. c \in Run /\ Emitter[c[1]] = r /\ c[1] \in Message /\ r # Outside
  BY TreeTypes DEF ChildrenOf
<1>3. StatusRead(c) /\ StatusRead(c)'
  BY <1>1, <1>2, StatusIs, StatusIsNext
<1>4. /\ c \in seen' /\ ~RollbackOver(c)'
      /\ Terminated(c)' => RollingBack(c)' \/ requested'[c[1]] # Outside
  BY <1>3 DEF StatusRead, Quiet, Terminated, RollbackOver
<1>5. ~RollbackOver(c)
  BY <1>1, <1>2, <1>4, MarksKept DEF RollbackOver
<1> SUFFICES ASSUME c \in seen
             PROVE  \E w \in Worker : \E t : Requests(w, t) /\ pick[w] = r /\ c[1] \in t.undoes
  BY <1>4
<1>6. "COMMITTED" \in marks[c] /\ ~RollingBack(c) /\ requested[c[1]] = Outside
  BY <1>3, <1>5 DEF StatusRead, Quiet, Terminated, RollbackOver
<1>7. ~RollingBack(c)'
  <2> SUFFICES ASSUME "ROLLING_BACK" \in marks'[c]
               PROVE  FALSE
    BY DEF RollingBack
  <2>1. PICK w \in Worker : /\ pc[w] = "running" /\ pick[w] = c
                            /\ Ends(w, "ROLLING_BACK") \/ Breaks(w, "ROLLING_BACK")
    BY <1>1, <1>2, <1>6, MarkWritten DEF RollingBack
  <2>2. ~plan[w].back
    BY <2>1 DEF Ends, Breaks
  <2> QED
    BY <1>1, <1>6, <2>1, <2>2 DEF RunnerInv, RunnersFit, Fits
<1>8. requested'[c[1]] # Outside
  <2>1. Terminated(c)'
    BY <1>1, <1>2, <1>6, MarksKept DEF Terminated
  <2> QED
    BY <1>4, <1>7, <2>1
<1>9. ASSUME NEW w \in Worker, NEW t, Requests(w, t), c[1] \in t.undoes
      PROVE  pick[w] = r
  BY <1>1, <1>2, <1>9, RequestsOwn
<1>10. ASSUME NEW q \in asking, q.message = c[1]
       PROVE  FALSE
  BY <1>1, <1>2, <1>10, RootRequested
<1> QED
  BY <1>1, <1>2, <1>6, <1>8, <1>9, <1>10, RequestWritten

\* At a request a run leaves the step it executes.
LEMMA RequesterLeaves ==
    ASSUME TypeOK, OneHolder, [Next]_vars, NEW w \in Worker, NEW t, Requests(w, t)
    PROVE  pick[w] \notin Executing'
<1>1. PICK r \in Run : r = pick[w] /\ pc[w] = "running" /\ pc'[w] = "idle"
  BY DEF Requests, Closes, TypeOK
<1> SUFFICES ASSUME NEW v \in Worker, pc'[v] \in {"running", "aborting"}, pick'[v] = r
             PROVE  FALSE
  BY <1>1 DEF Executing
<1>2. v # w
  BY <1>1
<1>3. PICK u \in Worker : WorkerStep(u)
  <2>1. pc' # pc
    BY <1>1 DEF TypeOK
  <2> QED
    BY <2>1 DEF Next, Environment, vars, tx, Launch, Cancel, AskRollback, RequestRollback,
                WithdrawRollback, Expire
<1>4. u = w
  BY <1>1, <1>3, OthersStay DEF Stays
<1>5. Stays(v)
  BY <1>2, <1>3, <1>4, OthersStay
<1> QED
  BY <1>1, <1>2, <1>5 DEF Stays, OneHolder, Holds

LEMMA RestlessStep ==
    ASSUME WholeHierarchies, RequestsInTime, RestInv, [Next]_vars, Blank', OneEnd'
    PROVE  RestlessBelowLatest'
<1>1. TypeOK /\ RunnerInv /\ PatientInv /\ OneHolder
  BY RestImplies DEF RestInv
<1> SUFFICES ASSUME NEW r \in Run, NEW c \in ChildrenOf(r), ~Quiet(c)'
             PROVE  c[1] \in LatestEmits(r)' \cup LatestUndoes(r)'
  BY DEF RestlessBelowLatest, ChildrenOf
<1>2. CASE UNCHANGED ticks
  <2>1. LatestEmits(r)' = LatestEmits(r) /\ LatestUndoes(r)' = LatestUndoes(r)
    BY <1>2 DEF LatestEmits, LatestUndoes, HasTicks, Latest
  <2>2. \A w \in Worker : \A t : ~Requests(w, t)
    <3> SUFFICES ASSUME NEW w \in Worker, NEW t, Requests(w, t)
                 PROVE  FALSE
      OBVIOUS
    <3>1. pick[w] \in Run /\ AppendTick(pick[w], t)
      BY <1>1 DEF Requests, Closes, TypeOK
    <3> QED
      BY <1>1, <1>2, <3>1, AppendedTick, TickTypes
  <2>3. Quiet(c) => c[1] \in LatestEmits(r)
    BY <1>1, <2>2, SetOff, StartsBelowLatest
  <2> QED
    BY <2>1, <2>3 DEF RestInv, RestlessBelowLatest
<1>3. ASSUME NEW w \in Worker, NEW t, Launches(w, t) \/ Requests(w, t)
      PROVE  c[1] \in LatestEmits(r)' \cup LatestUndoes(r)'
  <2>1. Closes(w, t) /\ pc[w] = "running"
    BY <1>3 DEF Launches, Requests, Closes
  <2>2. CASE Quiet(c)
    <3>1. c \in seen' => c \in seen
      BY <1>3 DEF Launches, Requests
    <3>2. PICK v \in Worker : \E u : Requests(v, u) /\ pick[v] = r /\ c[1] \in u.undoes
      BY <2>2, <3>1, SetOff
    <3>3. PICK u : Requests(v, u) /\ pick[v] = r /\ c[1] \in u.undoes
      BY <3>2
    <3>4. Closes(v, u)
      BY <3>3 DEF Requests
    <3>5. c[1] \in LatestUndoes(r)'
      BY <1>1, <3>3, <3>4, LatestWritten
    <3> QED
      BY <3>5
  <2>3. CASE ~Quiet(c)
    <3>1. r # pick[w]
      BY <2>1, <2>3 DEF RestInv, QuietBelowExecuting, Executing
    <3>2. LatestEmits(r)' = LatestEmits(r) /\ LatestUndoes(r)' = LatestUndoes(r)
      BY <1>1, <2>1, <3>1, LatestWritten
    <3> QED
      BY <2>3, <3>2 DEF RestInv, RestlessBelowLatest
  <2> QED
    BY <2>2, <2>3
<1> QED
  BY <1>1, <1>2, <1>3, TickWritten

\* What the readiness query lets through has only children that are at rest.
LEMMA ReadyIsQuietBelow ==
    ASSUME RestInv, NEW r \in Run, Ready(r), NEW c \in ChildrenOf(r)
    PROVE  Quiet(c)
<1>1. TypeOK /\ Windows /\ Blank /\ OneEnd
  BY RestImplies
<1>2. c \in Run /\ Emitter[c[1]] = r /\ c = <<c[1], c[2]>> /\ c[2] \in Listeners[c[1]]
  BY DEF ChildrenOf, Run
<1>3. StatusRead(c)
  BY <1>1, <1>2, StatusIs
<1> SUFFICES ASSUME ~Quiet(c)
             PROVE  FALSE
  OBVIOUS
<1>4. c \in seen /\ c[1] \in LatestEmits(r) \cup LatestUndoes(r)
  BY <1>3 DEF StatusRead, Quiet, RestInv, RestlessBelowLatest
<1>5. CASE c[1] \in LatestEmits(r)
  <2>1. c \in ChildSeens(r)
    BY <1>2, <1>4, <1>5 DEF ChildSeens
  <2>2. Terminated(c)
    BY <1>1, <2>1, ReadyHasNoChildren
  <2>3. requested[c[1]] = Outside
    BY <1>5 DEF RestInv, FreshUnrequested
  <2>4. RollingBack(c) => RollbackOver(c)
    BY <1>2, <2>2, <2>3 DEF RestInv, CommittedTurns, Terminated, RollbackOver
  <2> QED
    BY <1>3, <2>2, <2>3, <2>4 DEF StatusRead, Quiet
<1>6. CASE c[1] \in LatestUndoes(r)
  <2>1. /\ ResumeRollbackPath(r) \/ GiveUpOnRollbackPath(r)
        /\ \A x \in ChildRollingBacks(r) : RollbackOver(x)
    BY <1>6 DEF Ready
  <2>2. ResumeRollbackPath(r)
    BY <2>1 DEF GiveUpOnRollbackPath, RestInv
  <2>3. r \in Candidates(r[2])
    BY DEF Ready, Candidates, RunsOf
  <2>4. RollingBack(c)
    BY <1>2, <1>6, <2>2, <2>3 DEF ResumeRollbackPath, AllStarted
  <2>5. RollbackOver(c)
    BY <1>2, <2>1, <2>4 DEF ChildRollingBacks
  <2> QED
    BY <1>3, <2>5 DEF StatusRead, Quiet, Terminated, RollbackOver
<1> QED
  BY <1>4, <1>5, <1>6

\* Whoever executes after a step executed before it, or claimed its run in it.
LEMMA ExecutingWritten ==
    ASSUME TypeOK, [Next]_vars, NEW r \in Executing'
    PROVE  \/ r \in Executing
           \/ \E w \in Worker : Claim(w) /\ pick[w] = r /\ Ready(r) /\ UNCHANGED log
<1>1. PICK w \in Worker : pc'[w] \in {"running", "aborting"} /\ pick'[w] = r
  BY DEF Executing
<1>2. CASE Stays(w)
  BY <1>1, <1>2 DEF Stays, Executing
<1>3. CASE WorkerStep(w)
  <2>1. CASE ToIdle(w)
    BY <1>1, <2>1 DEF ToIdle, TypeOK
  <2>2. CASE ReconcileBegin(w) \/ ReconcileLock(w) \/ Select(w)
    BY <1>1, <2>2 DEF ReconcileBegin, ReconcileLock, Select, TypeOK
  <2>3. CASE Claim(w)
    BY <1>1, <2>3 DEF Claim
  <2>4. CASE UndoChildren(w) \/ Fail(w)
    BY <1>1, <2>1, <2>4 DEF UndoChildren, Fail, Executing
  <2> QED
    BY <1>3, <2>1, <2>2, <2>3, <2>4
       DEF WorkerStep, Conclude, Resume, ReconcileCommit, LosePick, Suspend, Finish, Abort, Crash
<1> QED
  BY <1>2, <1>3, OthersStay, NobodyMoves DEF Next

LEMMA QuietBelowStep ==
    ASSUME WholeHierarchies, RequestsInTime, RestInv, [Next]_vars, Blank', OneEnd'
    PROVE  QuietBelowExecuting'
<1>1. TypeOK /\ OneHolder /\ PatientInv
  BY RestImplies DEF RestInv
<1> SUFFICES ASSUME NEW r \in Executing', NEW c \in ChildrenOf(r)
             PROVE  Quiet(c)'
  BY DEF QuietBelowExecuting, ChildrenOf
<1>2. CASE r \in Executing
  <2>1. Quiet(c) /\ r \in Run
    BY <1>1, <1>2 DEF RestInv, QuietBelowExecuting, Executing, TypeOK
  <2> SUFFICES ASSUME ~Quiet(c)'
               PROVE  FALSE
    OBVIOUS
  <2>2. CASE c \notin seen /\ c \in seen'
    BY <1>1, <1>2, <2>1, <2>2, StartsBelowLatest
  <2>3. ASSUME NEW w \in Worker, NEW t, Requests(w, t), pick[w] = r
        PROVE  FALSE
    BY <1>1, <2>3, RequesterLeaves
  <2> QED
    BY <2>1, <2>2, <2>3, SetOff
<1>3. ASSUME NEW w \in Worker, Claim(w), pick[w] = r, Ready(r), UNCHANGED log
      PROVE  Quiet(c)'
  <2>1. r \in Run
    BY <1>1, <1>3 DEF Claim, TypeOK
  <2>2. Quiet(c)
    BY <1>3, <2>1, ReadyIsQuietBelow
  <2> QED
    BY <1>3, <2>2 DEF log, Quiet, StatusOf, RollingBack
<1> QED
  BY <1>1, <1>2, <1>3, ExecutingWritten

LEMMA RestInductive ==
    ASSUME NoGivingUp, WholeHierarchies, RequestsInTime, RestInv, [Next]_vars
    PROVE  RestInv'
<1>1. NeverGivesUp
  BY DEF NoGivingUp, NeverGivesUp
<1>2. PatientInv' /\ FromAboveInv' /\ OneEnd' /\ CommittedTurns'
  BY <1>1, PatientInductive, FromAboveInductive, OneEndStep, CommittedTurnsStep, RestImplies
     DEF RestInv
<1>3. Blank'
  BY <1>2 DEF FromAboveInv
<1>4. expired' = {}
  <2>1. \A r \in Run, path \in Path : ~Expire(r, path)
    BY DEF Expire, NoGivingUp
  <2>2. expired' = expired
    BY <2>1
       DEF Next, WorkerStep, Conclude, Resume, Environment, vars, log, ReconcileBegin,
           ReconcileLock, ReconcileCommit, Select, Claim, LosePick, Suspend, UndoChildren,
           Finish, Fail, Abort, Crash, Launch, Cancel, AskRollback, RequestRollback,
           WithdrawRollback
  <2> QED
    BY <2>2 DEF RestInv
<1> QED
  BY <1>2, <1>3, <1>4, FreshUnrequestedStep, RestlessStep, QuietBelowStep DEF RestInv

LEMMA RestInitially == Init => RestInv
<1> SUFFICES ASSUME Init
             PROVE  RestInv
  OBVIOUS
<1>1. /\ \A r \in Run : ticks[r] = <<>> /\ marks[r] = {}
      /\ seen = {} /\ expired = {}
      /\ \A w \in Worker : pc[w] = "idle"
  BY DEF Init, LogInit
<1>2. \A r \in Run : Quiet(r)
  BY <1>1 DEF Quiet, StatusOf
<1>3. OneEnd /\ CommittedTurns /\ FreshUnrequested
  BY <1>1 DEF OneEnd, CommittedTurns, FreshUnrequested, LatestEmits, HasTicks
<1>4. RestlessBelowLatest /\ QuietBelowExecuting
  BY <1>2 DEF RestlessBelowLatest, QuietBelowExecuting, ChildrenOf
<1> QED
  BY <1>1, <1>3, <1>4, PatientInitially, FromAboveInitially DEF RestInv

-----------------------------------------------------------------------------
\* Every step of the event loop is a step of the promise, or none.

LEMMA PromiseTree ==
    /\ Promise!Run = Run /\ Promise!RootMessage = RootMessage
    /\ \A r : Promise!ChildrenOf(r) = ChildrenOf(r)
    /\ \A r : Promise!EmittedBy(r) = EmittedBy(r)
BY DEF Promise!Run, Run, Promise!RootMessage, RootMessage, Promise!ChildrenOf, ChildrenOf,
       Promise!EmittedBy, EmittedBy

PromiseInv == RestInv /\ OwnInv

\* What is read of the log.

LEMMA StatusSame ==
    ASSUME NEW r \in Run, r \in seen' <=> r \in seen, marks'[r] = marks[r],
           requested'[r[1]] = requested[r[1]]
    PROVE  StatusOf(r)' = StatusOf(r)
BY DEF StatusOf, RollingBack

LEMMA RepairsSame ==
    ASSUME UNCHANGED ticks, emitted \subseteq emitted',
           \A m \in emitted' \ emitted : Emitter[m] = Outside
    PROVE  Repairs' = Repairs
BY DEF Repairs

LEMMA SilentStep ==
    ASSUME UNCHANGED <<emitted, ticks, seen, marks, requested>>, Executing' = Executing
    PROVE  UNCHANGED Promise!promise
<1>1. \A r \in Run : StatusOf(r)' = StatusOf(r)
  BY StatusSame
<1>2. Repairs' = Repairs
  BY RepairsSame
<1> QED
  BY <1>1, <1>2 DEF Promise!promise

\* Which runs are executed.

LEMMA StaysExecuting ==
    ASSUME TypeOK, NEW w \in Worker, WorkerStep(w),
           pc'[w] \in {"running", "aborting"} <=> pc[w] \in {"running", "aborting"},
           pc'[w] \in {"running", "aborting"} => pick'[w] = pick[w]
    PROVE  Executing' = Executing
<1>1. \A v \in Worker : v # w => pc'[v] = pc[v] /\ pick'[v] = pick[v]
  BY OthersStay DEF Stays
<1> QED
  BY <1>1 DEF Executing

LEMMA LeavesExecuting ==
    ASSUME TypeOK, OneHolder, NEW w \in Worker, WorkerStep(w),
           pc[w] \in {"running", "aborting"}, pc'[w] = "idle",
           NEW r \in Run, r = pick[w]
    PROVE  r \in Executing /\ Executing' = Executing \ {r}
<1>1. \A v \in Worker : v # w => pc'[v] = pc[v] /\ pick'[v] = pick[v]
  BY OthersStay DEF Stays
<1>2. \A v \in Worker : pc[v] \in {"running", "aborting"} /\ pick[v] = r => v = w
  BY DEF OneHolder, Holds
<1>3. ASSUME NEW x \in Executing'
      PROVE  x \in Executing \ {r}
  <2>1. PICK v \in Worker : pc'[v] \in {"running", "aborting"} /\ pick'[v] = x
    BY DEF Executing
  <2>2. v # w
    BY <2>1
  <2> QED
    BY <1>1, <1>2, <2>1, <2>2 DEF Executing
<1>4. ASSUME NEW x \in Executing, x # r
      PROVE  x \in Executing'
  <2>1. PICK v \in Worker : pc[v] \in {"running", "aborting"} /\ pick[v] = x
    BY DEF Executing
  <2>2. v # w
    BY <1>4, <2>1
  <2> QED
    BY <1>1, <2>1, <2>2 DEF Executing
<1> QED
  BY <1>3, <1>4 DEF Executing

LEMMA EntersExecuting ==
    ASSUME TypeOK, NEW w \in Worker, Claim(w), NEW r \in Run, r = pick[w]
    PROVE  r \notin Executing /\ Executing' = Executing \cup {r}
<1>1. \A v \in Worker : v # w => pc'[v] = pc[v] /\ pick'[v] = pick[v]
  BY OthersStay DEF Stays, WorkerStep, Conclude
<1>2. pc[w] = "selected" /\ pc'[w] \in {"running", "aborting"} /\ pick'[w] = r
  BY DEF Claim, TypeOK
<1>3. r \notin Executing
  BY DEF Claim, Locked, Holds, Executing
<1>4. ASSUME NEW x \in Executing
      PROVE  x \in Executing'
  <2>1. PICK v \in Worker : pc[v] \in {"running", "aborting"} /\ pick[v] = x
    BY DEF Executing
  <2> QED
    BY <1>1, <1>2, <2>1 DEF Executing
<1>5. ASSUME NEW x \in Executing'
      PROVE  x \in Executing \cup {r}
  <2>1. PICK v \in Worker : pc'[v] \in {"running", "aborting"} /\ pick'[v] = x
    BY DEF Executing
  <2> QED
    BY <1>1, <1>2, <2>1 DEF Executing
<1>6. r \in Executing'
  BY <1>2 DEF Executing
<1> QED
  BY <1>3, <1>4, <1>5, <1>6

\* The status of a run that is executed is that of its continuation.
LEMMA RunnerStatus ==
    ASSUME RestInv, NEW w \in Worker, pc[w] = "running", NEW r \in Run, r = pick[w]
    PROVE  /\ r \in seen /\ ~RollbackOver(r)
           /\ IF plan[w].back THEN StatusOf(r) = "rollingBack" /\ RollingBack(r)
              ELSE /\ StatusOf(r) = "started" /\ ~Terminated(r) /\ ~RollingBack(r)
                   /\ requested[r[1]] = Outside
           /\ plan[w].back <=> plan[w].step[1] # "do"
<1>1. RunnerInv /\ StatusRead(r)
  BY RestImplies, StatusIs
<1>2. /\ r \in seen /\ ~RollbackOver(r)
      /\ plan[w].back => RollingBack(r)
      /\ plan[w].back <=> plan[w].step[1] # "do"
  BY <1>1 DEF RunnerInv, RunnersFit, Fits
<1>3. ~plan[w].back => requested[r[1]] = Outside /\ ~Terminated(r) /\ ~RollingBack(r)
  BY <1>1, ForwardIsOnItsWay DEF RestInv, FromAboveInv, ForwardUnrequested
<1> QED
  BY <1>1, <1>2, <1>3 DEF StatusRead

-----------------------------------------------------------------------------
\* One lemma for each kind of step.

LEMMA CommitStarts ==
    ASSUME PromiseInv, PromiseInv', [Next]_vars, NEW w \in Worker, ReconcileCommit(w)
    PROVE  \E runs \in SUBSET Run : Promise!Start(runs)
<1> DEFINE runs == seen' \ seen
           forward == {r \in runs : requested[r[1]] = Outside}
<1>1. /\ TypeOK /\ TypeOK' /\ UndosRequested /\ Blank /\ Blank' /\ OneEnd /\ OneEnd' /\ Recorded
      /\ OverMeansRollingBack /\ PatientInv /\ UndosSeen
  BY RestImplies DEF PromiseInv, RestInv, PatientInv, FromAboveInv, UndoneInv, OutcomeInv,
                     RunnerInv, CompensationInv
<1>2. runs \subseteq Run /\ seen \subseteq seen'
  BY <1>1, SeenKept DEF TypeOK, LogTypeOK
<1>3. UNCHANGED <<emitted, ticks, requested>>
  BY DEF ReconcileCommit
<1>4. Executing' = Executing
  <2>1. pc[w] = "inserting" /\ pc'[w] = "idle"
    BY <1>1 DEF ReconcileCommit, ToIdle, TypeOK
  <2> QED
    BY <1>1, <2>1, StaysExecuting DEF WorkerStep, Conclude
<1>5. ASSUME NEW r \in runs
      PROVE  StatusOf(r) = "absent" /\ r[1] \in emitted /\ Emitter[r[1]] \notin Executing
  <2>1. StatusOf(r) = "absent"
    BY <1>1, <1>2, StatusIs DEF StatusRead
  <2>2. r[1] \in emitted
    BY <1>1, SeenWritten DEF Recorded
  <2>3. Emitter[r[1]] \notin Executing
    <3>1. CASE Emitter[r[1]] \in Run
      BY <1>1, <1>2, <3>1, StartsBelowLatest DEF ChildrenOf
    <3>2. CASE Emitter[r[1]] \notin Run
      BY <1>1, <3>2 DEF Executing, TypeOK
    <3> QED
      BY <3>1, <3>2
  <2> QED
    BY <2>1, <2>2, <2>3
<1>6. ASSUME NEW r \in Run
      PROVE  StatusOf(r)' = IF r \in forward THEN "started"
                            ELSE IF r \in runs THEN "rollingBack"
                            ELSE StatusOf(r)
  <2>1. StatusRead(r) /\ StatusRead(r)'
    BY <1>1, StatusIs, StatusIsNext
  <2>2. CASE r \in runs
    <3>1. marks'[r] = {}
      <4>1. r \notin seen /\ marks[r] = {}
        BY <1>1, <2>2 DEF Blank
      <4>2. r \notin snapshot[w].undos
        BY <1>1, <4>1 DEF UndosSeen
      <4> QED
        BY <4>1, <4>2 DEF ReconcileCommit
    <3> QED
      BY <1>3, <2>1, <2>2, <3>1 DEF StatusRead, Terminated, RollingBack, RollbackOver
  <2>3. CASE r \notin runs /\ marks'[r] = marks[r]
    <3>1. r \in seen' <=> r \in seen
      BY <1>2, <2>3
    <3> QED
      BY <1>3, <2>3, <3>1, StatusSame
  <2>4. CASE r \notin runs /\ marks'[r] # marks[r]
    <3>1. /\ r \in snapshot[w].undos /\ ~RollingBack(r)
          /\ marks'[r] = marks[r] \cup {"ROLLING_BACK"}
      BY <2>4 DEF ReconcileCommit
    <3>2. r \in seen /\ r \in seen' /\ requested[r[1]] # Outside
      BY <1>1, <1>2, <3>1 DEF UndosSeen, UndosRequested
    <3>3. ~RollbackOver(r) /\ ~RollbackOver(r)'
      BY <1>1, <3>1 DEF OverMeansRollingBack, RollbackOver
    <3> QED
      BY <1>3, <2>1, <2>4, <3>2, <3>3 DEF StatusRead
  <2> QED
    BY <2>2, <2>3, <2>4
<1>7. Repairs' = Repairs
  BY <1>3, RepairsSame
<1>8. Promise!Start(runs)
  <2>1. forward \in SUBSET runs
    OBVIOUS
  <2> HIDE DEF runs, forward
  <2> QED
    BY <1>2, <1>3, <1>4, <1>5, <1>6, <1>7, <2>1, PromiseTree DEF Promise!Start
<1> QED
  BY <1>2, <1>8

LEMMA ClaimEnters ==
    ASSUME PromiseInv, NEW w \in Worker, Claim(w)
    PROVE  \E r \in Run : Promise!Enter(r)
<1>1. /\ TypeOK /\ OverMeansRollingBack /\ RestInv
  BY RestImplies DEF PromiseInv
<1>2. PICK r \in Run : r = pick[w] /\ Ready(r) /\ Candidate(r) /\ UNCHANGED log
  BY <1>1 DEF Claim, TypeOK, Ready
<1>3. StatusOf(r) \in {"started", "rollingBack"}
  <2>1. StatusRead(r)
    BY <1>1, RestImplies, StatusIs
  <2> QED
    BY <1>1, <1>2, <2>1
       DEF StatusRead, Candidate, OverMeansRollingBack, RollbackOver, Terminated, RollingBack
<1>4. r \notin Executing /\ Executing' = Executing \cup {r}
  BY <1>1, <1>2, EntersExecuting
<1>5. \A c \in ChildrenOf(r) : c \in Run /\ Quiet(c)
  BY <1>1, <1>2, ReadyIsQuietBelow DEF ChildrenOf
<1>6. \A x \in Run : StatusOf(x)' = StatusOf(x)
  BY <1>2, StatusSame DEF log
<1>7. Repairs' = Repairs /\ emitted' = emitted
  BY <1>2, RepairsSame DEF log
<1>8. Promise!Enter(r)
  <2>1. \A c \in ChildrenOf(r) : Promise!AtRest(c)
    BY <1>5 DEF Promise!AtRest, Quiet
  <2> QED
    BY <1>3, <1>4, <1>6, <1>7, <2>1, PromiseTree DEF Promise!Enter
<1> QED
  BY <1>8

LEMMA RepairsWritten ==
    ASSUME RestInv, NEW w \in Worker, NEW t, Closes(w, t),
           t.emits \subseteq EmittedBy(pick[w]), t.emits \cap emitted = {},
           emitted' = emitted \cup t.emits
    PROVE  Repairs' = IF t.step[1] = "do" THEN Repairs ELSE Repairs \cup t.emits
<1>1. TypeOK /\ emitted \in SUBSET Message
  BY RestImplies DEF TypeOK, LogTypeOK
<1>2. PICK r \in Run : r = pick[w] /\ AppendTick(r, t)
  BY <1>1 DEF Closes, TypeOK
<1>3. PICK n : n = Len(ticks[r]) + 1
  OBVIOUS
<1>4. /\ DOMAIN ticks'[r] = DOMAIN ticks[r] \cup {n} /\ ticks'[r][n] = t
      /\ \A i \in DOMAIN ticks[r] : ticks'[r][i] = ticks[r][i]
      /\ \A q \in Run : q # r => ticks'[q] = ticks[q]
  BY <1>1, <1>2, <1>3, AppendedTick
<1>5. \A m \in t.emits : m \in Message /\ Emitter[m] = r /\ r # Outside
  BY <1>2, TreeTypes DEF EmittedBy
<1>6. ASSUME NEW m \in Repairs
      PROVE  m \in Repairs'
  <2>1. PICK p \in Run : p = Emitter[m] /\ p # Outside
    BY <1>1, TreeTypes DEF Repairs
  <2>2. PICK i \in DOMAIN ticks[p] : m \in ticks[p][i].emits /\ ticks[p][i].step[1] # "do"
    BY <2>1 DEF Repairs
  <2>3. i \in DOMAIN ticks'[p] /\ ticks'[p][i] = ticks[p][i]
    BY <1>4
  <2> QED
    BY <2>1, <2>2, <2>3 DEF Repairs
<1>7. ASSUME t.step[1] # "do", NEW m \in t.emits
      PROVE  m \in Repairs'
  BY <1>4, <1>5, <1>7 DEF Repairs
<1>8. ASSUME NEW m \in Repairs'
      PROVE  m \in Repairs \/ (t.step[1] # "do" /\ m \in t.emits)
  <2>1. m \in Message
    BY <1>1, <1>5 DEF Repairs
  <2>2. PICK p \in Run : p = Emitter[m] /\ p # Outside
    BY <2>1, TreeTypes DEF Repairs
  <2>3. PICK i \in DOMAIN ticks'[p] : m \in ticks'[p][i].emits /\ ticks'[p][i].step[1] # "do"
    BY <2>2 DEF Repairs
  <2>4. CASE i \in DOMAIN ticks[p]
    <3>1. ticks'[p][i] = ticks[p][i]
      BY <1>4, <2>4
    <3>2. m \in emitted
      BY <2>3, <2>4, <3>1 DEF RestInv, FromAboveInv, EmitsEmitted
    <3> QED
      BY <2>2, <2>3, <2>4, <3>1, <3>2 DEF Repairs
  <2>5. CASE i \notin DOMAIN ticks[p]
    <3>1. ticks'[p][i] = t
      BY <1>4, <2>3, <2>5
    <3> QED
      BY <2>3, <3>1
  <2> QED
    BY <2>4, <2>5
<1> QED
  BY <1>6, <1>7, <1>8

LEMMA SuspendLeaves ==
    ASSUME PromiseInv, NEW w \in Worker, Suspend(w)
    PROVE  \E r \in Run : Promise!Leave(r)
<1>1. TypeOK /\ OneHolder /\ RestInv
  BY RestImplies DEF PromiseInv
<1>2. PICK t : Launches(w, t) /\ t.emits \cap emitted = {}
  BY <1>1, SuspendLaunchesFresh
<1>3. Closes(w, t) /\ t.emits \subseteq EmittedBy(pick[w]) /\ t.step = plan[w].step
      /\ emitted' = emitted \cup t.emits /\ UNCHANGED <<seen, marks, requested>>
      /\ pc[w] = "running" /\ pc'[w] = "idle"
  BY <1>2 DEF Launches, Closes
<1>4. PICK r \in Run : r = pick[w]
  BY <1>1, <1>3 DEF TypeOK
<1>5. r \in Executing /\ Executing' = Executing \ {r}
  BY <1>1, <1>3, <1>4, LeavesExecuting DEF WorkerStep, Conclude, Resume
<1>6. t.step[1] = "do" <=> StatusOf(r) = "started"
  BY <1>1, <1>3, <1>4, RunnerStatus
<1>7. Repairs' = IF StatusOf(r) = "started" THEN Repairs ELSE Repairs \cup t.emits
  BY <1>1, <1>2, <1>3, <1>6, RepairsWritten
<1>8. \A x \in Run : StatusOf(x)' = StatusOf(x)
  BY <1>3, StatusSame
<1>9. t.emits \in SUBSET (EmittedBy(r) \ emitted)
  BY <1>2, <1>3, <1>4
<1>10. Promise!Leave(r)
  BY <1>3, <1>5, <1>7, <1>8, <1>9, PromiseTree DEF Promise!Leave
<1> QED
  BY <1>10

LEMMA TickRolledBack ==
    ASSUME TypeOK, OneHolder, NEW w \in Worker, WorkerStep(w),
           pc[w] \in {"running", "aborting"}, pc'[w] = "idle",
           UNCHANGED <<emitted, Repairs, seen, marks, requested>>
    PROVE  \E r \in Run : Promise!Leave(r)
<1>1. PICK r \in Run : r = pick[w]
  BY DEF TypeOK
<1>2. r \in Executing /\ Executing' = Executing \ {r}
  BY <1>1, LeavesExecuting
<1>3. \A x \in Run : StatusOf(x)' = StatusOf(x)
  BY StatusSame
<1>4. {} \in SUBSET (EmittedBy(r) \ emitted) /\ emitted' = emitted \cup {}
      /\ Repairs' = IF StatusOf(r) = "started" THEN Repairs ELSE Repairs \cup {}
  OBVIOUS
<1>5. Promise!Leave(r)
  BY <1>2, <1>3, <1>4, PromiseTree DEF Promise!Leave
<1> QED
  BY <1>5

\* Handlers of a message whose rollback is requested: those that committed turn.
LEMMA TurnedByRequest ==
    ASSUME PromiseInv, PromiseInv', [Next]_vars, NEW messages \in SUBSET Message,
           UNCHANGED <<seen, marks>>,
           \A m \in Message : requested'[m] = requested[m] <=> m \notin messages,
           \A m \in messages : requested[m] = Outside,
           \A m \in messages : \A c \in Run : c \in seen /\ c[1] = m => Terminated(c),
           NEW c \in Run
    PROVE  /\ c[1] \in messages => StatusOf(c) # "started"
           /\ StatusOf(c)' = IF c[1] \in messages /\ StatusOf(c) = "committed"
                             THEN "rollingBack" ELSE StatusOf(c)
<1>1. StatusRead(c) /\ StatusRead(c)'
  BY RestImplies, StatusIs, StatusIsNext DEF PromiseInv, RestInv, FromAboveInv
<1>2. CASE c[1] \notin messages
  <2>1. requested'[c[1]] = requested[c[1]]
    BY <1>2, TreeTypes
  <2> QED
    BY <1>2, <2>1, StatusSame
<1>3. CASE c[1] \in messages
  <2>1. requested'[c[1]] # Outside /\ requested[c[1]] = Outside
    BY <1>3
  <2>2. c \in seen => Terminated(c)
    BY <1>3
  <2>3. StatusOf(c) # "started"
    BY <1>1, <2>2 DEF StatusRead
  <2>4. CASE StatusOf(c) = "committed"
    BY <1>1, <1>3, <2>1, <2>4 DEF StatusRead, RollbackOver, RollingBack
  <2>5. CASE StatusOf(c) # "committed"
    <3>1. \/ c \notin seen \/ RollbackOver(c) \/ RollingBack(c)
      BY <1>1, <2>1, <2>2, <2>5 DEF StatusRead, Terminated, RollbackOver
    <3> QED
      BY <1>1, <1>3, <2>1, <2>5, <3>1 DEF StatusRead, RollbackOver, RollingBack
  <2> QED
    BY <2>3, <2>4, <2>5, <1>3
<1> QED
  BY <1>2, <1>3

LEMMA UndoChildrenUndoes ==
    ASSUME PromiseInv, PromiseInv', [Next]_vars, NEW w \in Worker, UndoChildren(w)
    PROVE  \/ \E messages \in SUBSET Message : Promise!Undo(messages)
           \/ \E r \in Run : Promise!Leave(r)
           \/ UNCHANGED Promise!promise
<1>1. TypeOK /\ TypeOK' /\ OneHolder /\ RestInv /\ RunnerInv /\ UndoneInv /\ WorkerStep(w)
  BY RestImplies DEF PromiseInv, WorkerStep, Conclude, Resume, RestInv, PatientInv, UndoneInv,
                     OutcomeInv, RunnerInv, CompensationInv
<1>2. CASE pc' = [pc EXCEPT ![w] = "aborting"] /\ UNCHANGED <<requested, ticks, pick>>
  <2>1. pc[w] = "running" /\ pc'[w] = "aborting" /\ UNCHANGED <<emitted, seen, marks>>
    BY <1>1, <1>2 DEF UndoChildren, TypeOK
  <2>2. Executing' = Executing
    BY <1>1, <1>2, <2>1, StaysExecuting
  <2> QED
    BY <1>2, <2>1, <2>2, SilentStep
<1>3. ASSUME NEW t, Requests(w, t), pc'[w] = "idle"
      PROVE  \/ \E messages \in SUBSET Message : Promise!Undo(messages)
             \/ \E r \in Run : Promise!Leave(r)
  <2>1. PICK r \in Run : /\ r = pick[w] /\ pc[w] = "running" /\ RollingBack(r)
                         /\ \A m \in t.undoes : m \in Message /\ Emitter[m] = r
    BY <1>1, <1>3, RequestsOwn
  <2>2. /\ Closes(w, t) /\ t.emits = {} /\ UNCHANGED <<emitted, seen, marks>>
        /\ \A m \in t.undoes : requested[m] = Outside
        /\ requested' = [m \in Message |-> IF m \in t.undoes THEN r ELSE requested[m]]
    BY <1>3, <2>1 DEF Requests
  <2>3. r \in Executing /\ Executing' = Executing \ {r}
    BY <1>1, <1>3, <2>1, LeavesExecuting
  <2>4. Repairs' = Repairs
    BY <1>1, <2>2, RepairsWritten
  <2>5. CASE t.undoes = {}
    <3>1. requested' = requested
      BY <1>1, <2>2, <2>5 DEF TypeOK, LogTypeOK
    <3> QED
      BY <1>1, <1>3, <2>1, <2>2, <2>4, <3>1, TickRolledBack
  <2>6. CASE t.undoes # {}
    <3>1. StatusOf(r) = "rollingBack"
      BY <1>1, <2>1, RunnerStatus
    <3>2. t.undoes \in SUBSET Message /\ r # Outside
      BY <2>1, TreeTypes
    <3>3. \A m \in Message : requested'[m] = requested[m] <=> m \notin t.undoes
      BY <2>2, <3>2
    <3>4. \A m \in t.undoes : \A c \in Run : c \in seen /\ c[1] = m => Terminated(c)
      BY <1>1, <1>3, RequestedHasTerminated
    <3>5. ASSUME NEW c \in Run
          PROVE  /\ c[1] \in t.undoes => StatusOf(c) # "started"
                 /\ StatusOf(c)' = IF c[1] \in t.undoes /\ StatusOf(c) = "committed"
                                   THEN "rollingBack" ELSE StatusOf(c)
      BY <2>2, <3>2, <3>3, <3>4, TurnedByRequest
    <3>6. {Emitter[m] : m \in t.undoes} = {r}
      BY <2>1, <2>6
    <3>7. Promise!Undo(t.undoes)
      BY <2>1, <2>2, <2>3, <2>4, <3>1, <3>5, <3>6, PromiseTree
         DEF Promise!Undo, Promise!HandlersOf
    <3> QED
      BY <3>2, <3>7
  <2> QED
    BY <2>5, <2>6
<1>4. CASE ToIdle(w) /\ \E u : AppendTick(pick[w], u)
  <2>1. pc'[w] = "idle" /\ pick[w] \in Run
    BY <1>1, <1>4 DEF ToIdle, UndoChildren, TypeOK
  <2>2. ticks' # ticks
    BY <1>1, <1>4, <2>1, AppendedTick, TickTypes
  <2>3. PICK t : Requests(w, t)
    BY <1>1, <2>2, UndoChildrenRequests
  <2> QED
    BY <1>3, <2>1, <2>3
<1> QED
  BY <1>2, <1>4 DEF UndoChildren

LEMMA RequestTurns ==
    ASSUME WholeHierarchies, RequestsInTime, PromiseInv, PromiseInv', [Next]_vars,
           NEW s \in Scope, RequestRollback(s)
    PROVE  \E messages \in SUBSET Message : Promise!Undo(messages)
<1>1. TypeOK /\ FromAboveInv /\ UNCHANGED <<emitted, ticks, seen, marks, tx>>
  BY RestImplies DEF PromiseInv, RestInv, RequestRollback
<1>2. PICK q, m : /\ q \in asking /\ m = q.message /\ s = q.scope
                  /\ requested' = [requested EXCEPT ![m] = s]
  BY DEF RequestRollback
<1>3. m \in Message /\ requested[m] = Outside
  BY <1>1, <1>2 DEF TypeOK, LogTypeOK, Request
<1>4. Emitter[m] = Outside /\ s # Outside
  BY <1>1, <1>2, RootRequested, TreeAssumption
<1>5. \A n \in Message : requested'[n] = requested[n] <=> n \notin {m}
  BY <1>1, <1>2, <1>3, <1>4 DEF TypeOK, LogTypeOK
<1>6. requested'[m] # Outside
  BY <1>2, <1>3, <1>5
<1>7. \A c \in Run : c \in seen /\ c[1] = m => Terminated(c)
  BY <1>1, <1>2, <1>3, <1>6, RequestComes
<1>8. ASSUME NEW c \in Run
      PROVE  /\ c[1] \in {m} => StatusOf(c) # "started"
             /\ StatusOf(c)' = IF c[1] \in {m} /\ StatusOf(c) = "committed"
                               THEN "rollingBack" ELSE StatusOf(c)
  BY <1>1, <1>2, <1>3, <1>5, <1>7, TurnedByRequest
<1>9. Repairs' = Repairs /\ Executing' = Executing /\ Outside \notin Executing
  BY <1>1, RepairsSame, TreeTypes DEF Executing, tx, TypeOK
<1>10. Executing' = Executing \ {Emitter[n] : n \in {m}}
  BY <1>4, <1>9
<1>11. Promise!Undo({m})
  BY <1>1, <1>4, <1>8, <1>9, <1>10, PromiseTree DEF Promise!Undo, Promise!HandlersOf
<1> QED
  BY <1>3, <1>11

LEMMA FailTurns ==
    ASSUME PromiseInv, PromiseInv', NEW w \in Worker, Fail(w)
    PROVE  \E r \in Run : Promise!Turn(r) \/ Promise!Abandon(r)
<1>1. TypeOK /\ RestInv /\ WorkerStep(w)
  BY RestImplies DEF PromiseInv, WorkerStep, Conclude, Resume
<1>2. PICK r \in Run : r = pick[w] /\ pc[w] = "running"
  BY <1>1 DEF Fail, TypeOK
<1>3. UNCHANGED <<emitted, seen, ticks, requested, pick>> /\ pc'[w] = "aborting"
  BY <1>1 DEF Fail, TypeOK
<1>4. r \in Executing /\ Executing' = Executing
  BY <1>1, <1>2, <1>3, StaysExecuting DEF Executing
<1>5. Repairs' = Repairs
  BY <1>3, RepairsSame
<1>6. StatusRead(r)'
  BY StatusIsNext DEF PromiseInv, RestInv, FromAboveInv
<1>7. PICK mark : mark = IF plan[w].back THEN "ROLLBACK_FAILED" ELSE "ROLLING_BACK"
  OBVIOUS
<1>8. /\ r \in seen /\ ~RollbackOver(r)
      /\ IF plan[w].back THEN StatusOf(r) = "rollingBack" /\ RollingBack(r)
         ELSE StatusOf(r) = "started" /\ ~Terminated(r) /\ ~RollingBack(r)
  BY <1>1, <1>2, RunnerStatus
<1>9. mark \notin marks[r]
  BY <1>7, <1>8 DEF RollingBack, RollbackOver
<1>10. /\ marks'[r] = marks[r] \cup {mark}
       /\ \A x \in Run : x # r => marks'[x] = marks[x]
  BY <1>1, <1>2, <1>7, <1>9 DEF Fail, TypeOK, LogTypeOK
<1>11. \A x \in Run : x # r => StatusOf(x)' = StatusOf(x)
  BY <1>3, <1>10, StatusSame
<1>12. StatusOf(r)' = IF plan[w].back THEN "rollbackFailed" ELSE "rollingBack"
  <2>1. CASE plan[w].back
    BY <1>3, <1>6, <1>7, <1>8, <1>10, <2>1 DEF StatusRead
  <2>2. CASE ~plan[w].back
    BY <1>3, <1>6, <1>7, <1>8, <1>10, <2>2 DEF StatusRead, RollbackOver, RollingBack
  <2> QED
    BY <2>1, <2>2
<1>13. CASE plan[w].back
  BY <1>3, <1>4, <1>5, <1>8, <1>11, <1>12, <1>13, PromiseTree DEF Promise!Abandon
<1>14. CASE ~plan[w].back
  BY <1>3, <1>4, <1>5, <1>8, <1>11, <1>12, <1>14, PromiseTree DEF Promise!Turn
<1> QED
  BY <1>13, <1>14

\* What a run launched is in its ticks, so nobody below it is left out.
LEMMA LaunchedIsTicked ==
    ASSUME RestInv, NEW r \in Run, NEW c \in Run, c[1] \in emitted \cap EmittedBy(r)
    PROVE  /\ c \in ChildrenOf(r) /\ c = <<c[1], c[2]>> /\ c[2] \in Listeners[c[1]]
           /\ \E i \in DOMAIN ticks[r] : c[1] \in ticks[r][i].emits
BY RestImplies DEF EmittedBy, ChildrenOf, Run, Recorded

LEMMA WholeNext == OwnInv' => RolledBackMeansTreeRolledBack'
<1>1. OwnInv => RolledBackMeansTreeRolledBack
  BY WholeIsRolledBack
<1> QED
  BY <1>1, PTL

LEMMA FinishEnds ==
    ASSUME PromiseInv, PromiseInv', NEW w \in Worker, Finish(w)
    PROVE  \E r \in Run : Promise!Commit(r) \/ Promise!RolledBack(r)
<1>1. TypeOK /\ OneHolder /\ RestInv /\ WorkerStep(w) /\ OutcomeInv /\ OverMeansRollingBack
      /\ Blank /\ OneEnd
  BY RestImplies DEF PromiseInv, WorkerStep, Conclude, Resume
<1>2. PICK r \in Run : r = pick[w] /\ pc[w] = "running"
  BY <1>1 DEF Finish, TypeOK
<1>3. /\ UNCHANGED <<emitted, seen, ticks, requested>> /\ pc'[w] = "idle"
      /\ ~plan[w].doomed /\ plan[w].last /\ plan[w].mode # "handle"
  BY <1>1 DEF Finish, ToIdle, TypeOK
<1>4. r \in Executing /\ Executing' = Executing \ {r}
  BY <1>1, <1>2, <1>3, LeavesExecuting
<1>5. Repairs' = Repairs
  BY <1>3, RepairsSame
<1>6. StatusRead(r)'
  BY StatusIsNext DEF PromiseInv, RestInv, FromAboveInv
<1>7. PICK mark : mark = IF plan[w].back THEN "ROLLED_BACK" ELSE "COMMITTED"
  OBVIOUS
<1>8. /\ r \in seen /\ ~RollbackOver(r)
      /\ IF plan[w].back THEN StatusOf(r) = "rollingBack" /\ RollingBack(r)
         ELSE /\ StatusOf(r) = "started" /\ ~Terminated(r) /\ ~RollingBack(r)
              /\ requested[r[1]] = Outside
  BY <1>1, <1>2, RunnerStatus
<1>9. /\ marks'[r] = marks[r] \cup {mark}
      /\ \A x \in Run : x # r => marks'[x] = marks[x]
  BY <1>1, <1>2, <1>7 DEF Finish, TypeOK, LogTypeOK
<1>10. \A x \in Run : x # r => StatusOf(x)' = StatusOf(x)
  BY <1>3, <1>9, StatusSame
<1>11. StatusOf(r)' = IF plan[w].back THEN "rolledBack" ELSE "committed"
  <2>1. CASE plan[w].back
    BY <1>3, <1>6, <1>7, <1>8, <1>9, <2>1 DEF StatusRead
  <2>2. CASE ~plan[w].back
    BY <1>3, <1>6, <1>7, <1>8, <1>9, <2>2 DEF StatusRead, RollbackOver, RollingBack
  <2> QED
    BY <2>1, <2>2
<1>12. CASE ~plan[w].back
  <2>1. ASSUME NEW c \in Run, c[1] \in emitted \cap EmittedBy(r)
        PROVE  StatusOf(c) = "committed"
    <3>1. PICK i \in DOMAIN ticks[r] : c[1] \in ticks[r][i].emits
      BY <1>1, <2>1, LaunchedIsTicked
    <3>2. AllCommitted(r, i)
      BY <1>1, <1>2, <1>3, <1>12 DEF OutcomeInv, WaitedFor
    <3>3. "COMMITTED" \in marks[c]
      BY <1>1, <2>1, <3>1, <3>2, LaunchedIsTicked DEF AllCommitted
    <3>4. Emitter[c[1]] = r /\ c[1] \in Message /\ r # Outside
      BY <2>1, TreeTypes DEF EmittedBy
    <3>5. requested[c[1]] = Outside
      BY <1>1, <1>8, <1>12, <3>4 DEF RestInv, FromAboveInv, RequestsFromAbove
    <3>6. ~RollingBack(c) /\ ~RollbackOver(c)
      BY <1>1, <3>3, <3>5 DEF RestInv, CommittedTurns, OverMeansRollingBack
    <3>7. c \in seen /\ StatusRead(c)
      BY <1>1, <3>3, StatusIs DEF Blank
    <3> QED
      BY <3>3, <3>5, <3>6, <3>7 DEF StatusRead
  <2>2. Promise!Commit(r)
    BY <1>3, <1>4, <1>5, <1>8, <1>10, <1>11, <1>12, <2>1, PromiseTree
       DEF Promise!Commit, Promise!HandlersOf
  <2> QED
    BY <2>2
<1>13. CASE plan[w].back
  <2>1. RolledBackMeansTreeRolledBack'
    BY WholeNext DEF PromiseInv
  <2>2. ASSUME NEW c \in Run, c[1] \in (emitted \cap EmittedBy(r)) \ Repairs
        PROVE  StatusOf(c) = "rolledBack"
    <3>1. /\ c \in ChildrenOf(r) /\ c = <<c[1], c[2]>> /\ c[2] \in Listeners[c[1]]
          /\ Emitter[c[1]] = r /\ r # Outside
      BY <1>1, <2>2, LaunchedIsTicked, TreeTypes DEF ChildrenOf
    <3>2. PICK i \in DOMAIN ticks[r] : c[1] \in ticks[r][i].emits
      BY <1>1, <2>2, LaunchedIsTicked
    <3>3. i \in Originals(r)
      BY <2>2, <3>1, <3>2 DEF Repairs, Originals
    <3>4. c \in seen
      BY <1>1, <1>2, <3>1, <3>2 DEF RestInv, PatientInv, RunnersEnded, Ended
    <3>5. "ROLLED_BACK" \in marks'[c]
      <4>1. "ROLLED_BACK" \in marks'[r] /\ i \in Originals(r)'
        BY <1>3, <1>7, <1>9, <1>13, <3>3 DEF Originals
      <4>2. c \in ChildrenOf(r)' /\ c \in seen' /\ c[1] \in ticks'[r][i].emits
        BY <1>3, <3>1, <3>2, <3>4 DEF ChildrenOf
      <4> QED
        BY <2>1, <4>1, <4>2 DEF RolledBackMeansTreeRolledBack
    <3>6. Quiet(c)
      BY <1>1, <1>4, <3>1 DEF RestInv, QuietBelowExecuting
    <3>7. c # r
      BY <1>8, <1>13, <3>6 DEF Quiet
    <3>8. "ROLLED_BACK" \in marks[c] /\ StatusRead(c)
      BY <1>1, <1>9, <3>5, <3>7, StatusIs
    <3> QED
      BY <3>4, <3>8 DEF StatusRead
  <2>3. Promise!RolledBack(r)
    BY <1>3, <1>4, <1>5, <1>8, <1>10, <1>11, <1>13, <2>2, PromiseTree
       DEF Promise!RolledBack, Promise!HandlersOf
  <2> QED
    BY <2>3
<1> QED
  BY <1>12, <1>13

LEMMA LaunchLaunches ==
    ASSUME PromiseInv, NEW m \in Message, Launch(m)
    PROVE  Promise!Launch(m)
<1>1. /\ m \in RootMessage \ emitted /\ Emitter[m] = Outside
      /\ emitted' = emitted \cup {m}
      /\ UNCHANGED <<seen, ticks, marks, requested, tx>>
  BY DEF Launch, RootMessage
<1>2. \A x \in Run : StatusOf(x)' = StatusOf(x)
  BY <1>1, StatusSame
<1>3. Repairs' = Repairs
  BY <1>1, RepairsSame
<1>4. Executing' = Executing
  BY <1>1 DEF Executing, tx
<1> QED
  BY <1>1, <1>2, <1>3, <1>4, PromiseTree DEF Promise!Launch

LEMMA AbortLeaves ==
    ASSUME PromiseInv, NEW w \in Worker, Abort(w) \/ Crash(w)
    PROVE  (\E r \in Run : Promise!Leave(r)) \/ UNCHANGED Promise!promise
<1>1. TypeOK /\ OneHolder /\ WorkerStep(w)
  BY RestImplies DEF PromiseInv, WorkerStep, Conclude
<1>2. pc'[w] = "idle" /\ UNCHANGED <<emitted, seen, ticks, marks, requested>>
  BY <1>1 DEF Abort, Crash, ToIdle, TypeOK, log
<1>3. Repairs' = Repairs
  BY <1>2, RepairsSame
<1>4. CASE pc[w] \in {"running", "aborting"}
  BY <1>1, <1>2, <1>3, <1>4, TickRolledBack
<1>5. CASE pc[w] \notin {"running", "aborting"}
  <2>1. Executing' = Executing
    BY <1>1, <1>2, <1>5, StaysExecuting
  <2> QED
    BY <1>2, <2>1, SilentStep
<1> QED
  BY <1>4, <1>5

\* Selecting rows, asking for their locks and losing them shows nowhere.
LEMMA SilentSteps ==
    ASSUME PromiseInv,
           \/ UNCHANGED vars
           \/ \E w \in Worker : ReconcileBegin(w) \/ ReconcileLock(w) \/ Select(w) \/ LosePick(w)
           \/ \E s \in Scope : Cancel(s) \/ AskRollback(s) \/ WithdrawRollback(s)
           \/ \E r \in Run, path \in Path : Expire(r, path)
    PROVE  UNCHANGED Promise!promise
<1>1. TypeOK
  BY RestImplies DEF PromiseInv
<1>2. UNCHANGED <<emitted, ticks, seen, marks, requested>>
  BY DEF vars, log, ReconcileBegin, ReconcileLock, Select, LosePick, Cancel, AskRollback,
         WithdrawRollback, Expire
<1>3. CASE UNCHANGED tx
  BY <1>2, <1>3, SilentStep DEF tx, Executing
<1>4. ASSUME NEW w \in Worker, ReconcileBegin(w) \/ ReconcileLock(w) \/ Select(w) \/ LosePick(w)
      PROVE  UNCHANGED Promise!promise
  <2>1. pc[w] \notin {"running", "aborting"} /\ pc'[w] \notin {"running", "aborting"}
    BY <1>1, <1>4 DEF ReconcileBegin, ReconcileLock, Select, LosePick, ToIdle, TypeOK
  <2>2. Executing' = Executing
    BY <1>1, <1>4, <2>1, StaysExecuting DEF WorkerStep, Conclude
  <2> QED
    BY <1>2, <2>2, SilentStep
<1> QED
  BY <1>3, <1>4 DEF vars, Cancel, AskRollback, WithdrawRollback, Expire

LEMMA PromiseStep ==
    ASSUME WholeHierarchies, RequestsInTime, PromiseInv, PromiseInv', [Next]_vars
    PROVE  [Promise!Next]_(Promise!promise)
<1>1. ASSUME NEW w \in Worker, ReconcileCommit(w)
      PROVE  Promise!Next
  BY <1>1, CommitStarts, PromiseTree DEF Promise!Next
<1>2. ASSUME NEW w \in Worker, Claim(w)
      PROVE  Promise!Next
  BY <1>2, ClaimEnters, PromiseTree DEF Promise!Next
<1>3. ASSUME NEW w \in Worker, Suspend(w)
      PROVE  Promise!Next
  BY <1>3, SuspendLeaves, PromiseTree DEF Promise!Next
<1>4. ASSUME NEW w \in Worker, UndoChildren(w)
      PROVE  Promise!Next \/ UNCHANGED Promise!promise
  BY <1>4, UndoChildrenUndoes, PromiseTree DEF Promise!Next
<1>5. ASSUME NEW w \in Worker, Finish(w)
      PROVE  Promise!Next
  BY <1>5, FinishEnds, PromiseTree DEF Promise!Next
<1>6. ASSUME NEW w \in Worker, Fail(w)
      PROVE  Promise!Next
  BY <1>6, FailTurns, PromiseTree DEF Promise!Next
<1>7. ASSUME NEW w \in Worker, Abort(w) \/ Crash(w)
      PROVE  Promise!Next \/ UNCHANGED Promise!promise
  BY <1>7, AbortLeaves, PromiseTree DEF Promise!Next
<1>8. ASSUME NEW m \in Message, Launch(m)
      PROVE  Promise!Next
  BY <1>8, LaunchLaunches DEF Promise!Next
<1>9. ASSUME NEW s \in Scope, RequestRollback(s)
      PROVE  Promise!Next
  BY <1>9, RequestTurns DEF Promise!Next
<1>10. \/ UNCHANGED vars
       \/ \E w \in Worker : ReconcileBegin(w) \/ ReconcileLock(w) \/ Select(w) \/ LosePick(w)
       \/ \E s \in Scope : Cancel(s) \/ AskRollback(s) \/ WithdrawRollback(s)
       \/ \E r \in Run, path \in Path : Expire(r, path)
       \/ \E w \in Worker : ReconcileCommit(w) \/ Claim(w) \/ Suspend(w) \/ UndoChildren(w)
                            \/ Finish(w) \/ Fail(w) \/ Abort(w) \/ Crash(w)
       \/ \E m \in Message : Launch(m)
       \/ \E s \in Scope : RequestRollback(s)
  BY DEF Next, WorkerStep, Conclude, Resume, Environment
<1> QED
  BY <1>1, <1>2, <1>3, <1>4, <1>5, <1>6, <1>7, <1>8, <1>9, <1>10, SilentSteps

LEMMA PromiseInitially == Init => Promise!Init
<1> SUFFICES ASSUME Init
             PROVE  Promise!Init
  OBVIOUS
<1>1. \A r \in Run : StatusOf(r) = "absent"
  BY DEF Init, LogInit, StatusOf
<1>2. Executing = {} /\ Repairs = {} /\ emitted = {}
  BY DEF Init, LogInit, Executing, Repairs
<1> QED
  BY <1>1, <1>2, PromiseTree DEF Promise!Init

\* The event loop implements structured cooperation: where clients roll back whole
\* hierarchies and no request of theirs is overtaken by the handlers it is for, nobody
\* gives up and no run is told of a failure that is not of its own children, every
\* step of the workers - selecting, locking, inserting, executing, committing or
\* rolling back a transaction, crashing - is one step of StructuredCooperation or none
\* (structured cooperation as README.md of the library states it;
\* PendingCoroutineRunSql.ts and EventLoop.ts).
THEOREM LoopKeepsPromise ==
    ASSUME NoGivingUp, WholeHierarchies
    PROVE  Spec /\ []RequestsInTime /\ []FailuresAreOwn => KeepsPromise
<1>1. Init => Promise!Init
  BY PromiseInitially
<1>2. Init => PromiseInv
  BY RestInitially, OwnInitially DEF PromiseInv
<1>3. PromiseInv /\ RequestsInTime /\ FailuresAreOwn /\ [Next]_vars => PromiseInv'
  BY RestInductive, OwnInductive DEF PromiseInv
<1>4. PromiseInv /\ PromiseInv' /\ RequestsInTime /\ [Next]_vars => [Promise!Next]_(Promise!promise)
  BY PromiseStep
<1> QED
  BY <1>1, <1>2, <1>3, <1>4, PTL DEF Spec, KeepsPromise, Promise!Spec
-----------------------------------------------------------------------------
\* Clients that keep to what rollback is for.

\* Whoever is asked to roll back has ended, also those of its handlers that start
\* while the request is on its way.
Completed == \A q \in asking : \A c \in Run : c[1] = q.message => Terminated(c)

LEMMA CompletedStep ==
    ASSUME WholeHierarchies, EagerScopes = {}, TypeOK, Completed, [Next]_vars
    PROVE  Completed'
<1> SUFFICES ASSUME NEW q \in asking', NEW c \in Run, c[1] = q.message
             PROVE  Terminated(c)'
  BY DEF Completed
<1>1. Terminated(c)
  <2>1. CASE q \in asking
    BY <2>1 DEF Completed
  <2>2. CASE q \notin asking
    <3>1. PICK s \in Scope : AskRollback(s)
      BY <2>2
         DEF Next, WorkerStep, Conclude, Resume, Environment, vars, log, ReconcileBegin,
             ReconcileLock, ReconcileCommit, Select, Claim, LosePick, Suspend, UndoChildren,
             Finish, Fail, Abort, Crash, Launch, Cancel, RequestRollback, WithdrawRollback,
             Expire
    <3>2. /\ s \in RollbackScopes /\ Exists(s)
          /\ \A r \in SagasOf(s) : Terminated(r)
          /\ q.message \in MessagesIn(s)
      BY <2>2, <3>1 DEF AskRollback
    <3>3. s \notin Run /\ s = RootScope(c[1])
      BY <3>2, ClientsScope
    <3> QED
      BY <3>2, <3>3 DEF SagasOf
  <2> QED
    BY <2>1, <2>2
<1> QED
  BY <1>1, MarksKept DEF Terminated

\* Where clients roll back whole hierarchies, and only sagas that are completed, no
\* handler overtakes a request - between the check of insertRollbackEmittedEvent and the
\* commit of the client, nothing starts that is not over ("Requests rollback of an
\* already-completed saga", Capabilities.ts).
THEOREM CompletedInTime ==
    ASSUME WholeHierarchies, EagerScopes = {}
    PROVE  Spec => []RequestsInTime
<1>1. Init => Completed
  BY DEF Init, LogInit, Completed
<1>2. TypeOK /\ Completed /\ [Next]_vars => Completed'
  BY CompletedStep
<1>3. Completed => RequestsInTime
  BY DEF Completed, RequestsInTime
<1> QED
  BY <1>1, <1>2, <1>3, TypeCorrect, PTL DEF Spec

\* So for such clients a run never executes a forward step after it turned around...
COROLLARY CompletedNeverForwardAgain ==
    ASSUME WholeHierarchies, EagerScopes = {}
    PROVE  Spec => NoForwardStepAfterRollback
BY CompletedInTime, NeverForwardAgain, PTL

\* ...handlers start under their suspended parent, where nobody gives up...
COROLLARY CompletedStartsUnderItsParent ==
    ASSUME NeverGivesUp, WholeHierarchies, EagerScopes = {}
    PROVE  Spec => StartsUnderSuspendedParent
BY CompletedInTime, StartsUnderItsParent, PTL

\* ...and the loop implements structured cooperation.
COROLLARY CompletedKeepsPromise ==
    ASSUME NoGivingUp, WholeHierarchies, EagerScopes = {}
    PROVE  Spec /\ []FailuresAreOwn => KeepsPromise
BY CompletedInTime, LoopKeepsPromise, PTL
=============================================================================
