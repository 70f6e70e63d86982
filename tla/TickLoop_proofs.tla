--------------------------- MODULE TickLoop_proofs ---------------------------
(***************************************************************************)
(* For any number of workers and runs: a worker never runs two ticks at    *)
(* once; a pool of one connection more than there are workers cannot be    *)
(* used up by ticks that wait for it; everything stays in its domain; a    *)
(* closed worker is at rest; a delivered notification is never lost; and   *)
(* a run that its own workers made ready always has one that comes by.     *)
(***************************************************************************)
EXTENDS TickLoop, FiniteSetTheorems, TLAPS

TickTypes ==
    /\ gate \in [Worker -> Gate]
    /\ gateBusy \in [Worker -> BOOLEAN]
    /\ timer \in [Worker -> BOOLEAN]
    /\ tick \in [Worker -> [Source -> Tick]]

\* The inductive invariant: the permit of a worker is taken exactly while one of
\* its two sources of ticks has one in progress.
TickInv == TickTypes /\ OneTickAtATime

-----------------------------------------------------------------------------
LEMMA NewGateTyped == NewGate \in Gate
  BY DEF NewGate, Gate, QUIET_TICKS, DRAIN_QUIET_TICKS

\* Every method of the gate leaves a gate.
LEMMA GateMethods ==
  ASSUME NEW g \in Gate, NEW some \in BOOLEAN
  PROVE  /\ MarkDirty(g) \in Gate
         /\ AskedReconcile(g) \in Gate
         /\ ReconcileSucceeded(g, some) \in Gate
         /\ ReconcileFailed(g) \in Gate
         /\ AskedDrain(g) \in Gate
         /\ DrainCompleted(g, some) \in Gate
         /\ DrainFailed(g) \in Gate
<1>a. /\ QUIET_TICKS \in 0..QUIET_TICKS
      /\ DRAIN_QUIET_TICKS \in 0..DRAIN_QUIET_TICKS
      /\ \A n \in 0..QUIET_TICKS : LessOne(n) \in 0..QUIET_TICKS
      /\ \A n \in 0..DRAIN_QUIET_TICKS : LessOne(n) \in 0..DRAIN_QUIET_TICKS
  BY DEF QUIET_TICKS, DRAIN_QUIET_TICKS, LessOne
<1>1. MarkDirty(g) \in Gate
  BY DEF MarkDirty, Gate
<1>2. AskedReconcile(g) \in Gate
  BY <1>a DEF AskedReconcile, Gate
<1>3. ReconcileSucceeded(g, some) \in Gate
  BY <1>a DEF ReconcileSucceeded, Gate
<1>4. ReconcileFailed(g) \in Gate
  BY <1>a DEF ReconcileFailed, Gate
<1>5. AskedDrain(g) \in Gate
  BY <1>a DEF AskedDrain, Gate
<1>6. DrainCompleted(g, some) \in Gate
  BY <1>a DEF DrainCompleted, Gate
<1>7. DrainFailed(g) \in Gate
  BY <1>a DEF DrainFailed, Gate
<1> QED  BY <1>1, <1>2, <1>3, <1>4, <1>5, <1>6, <1>7

LEMMA NoTickTyped == NoTick \in Tick
  BY DEF NoTick, Tick, TickState

-----------------------------------------------------------------------------
\* What starting, continuing and ending a tick do to the permit of its worker,
\* and that the rest of the workers keep theirs.
LEMMA Ending ==
  ASSUME TickTypes, OneTickAtATime,
         NEW w \in Worker, NEW s \in Source, NEW g \in Gate,
         Ticking(w, s) \/ ~gateBusy[w],
         EndTick(w, s, g)
  PROVE  TickTypes' /\ OneTickAtATime'
<1>1. TickTypes'
  BY NoTickTyped DEF TickTypes, EndTick
<1>2. \A v \in Worker : v # w => tick'[v] = tick[v] /\ gateBusy'[v] = gateBusy[v]
  BY DEF TickTypes, EndTick
<1>3. ~gateBusy'[w]
  BY DEF TickTypes, EndTick
<1>4. \A z \in Source : tick'[w][z].at = "none"
  <2> TAKE z \in Source
  <2>1. CASE z = s
    BY <2>1 DEF TickTypes, EndTick, NoTick
  <2>2. CASE z # s
    <3>1. tick'[w][z] = tick[w][z]
      BY <2>2 DEF TickTypes, EndTick
    <3>2. ~Ticking(w, z)
      BY <2>2 DEF OneTickAtATime, Source
    <3> QED  BY <3>1, <3>2 DEF Ticking
  <2> QED  BY <2>1, <2>2
<1>5. OneTickAtATime'
  BY <1>2, <1>3, <1>4 DEF OneTickAtATime, Ticking, Source
<1> QED  BY <1>1, <1>5

\* The same for a tick that is replaced by another record in progress.
LEMMA Continuing ==
  ASSUME TickTypes, OneTickAtATime,
         NEW w \in Worker, NEW s \in Source, NEW t \in Tick,
         Ticking(w, s) \/ ~gateBusy[w],
         t.at # "none",
         gate' \in [Worker -> Gate], timer' \in [Worker -> BOOLEAN],
         tick' = [tick EXCEPT ![w][s] = t],
         gateBusy' = [gateBusy EXCEPT ![w] = TRUE]
  PROVE  TickTypes' /\ OneTickAtATime'
<1>1. TickTypes'
  BY DEF TickTypes
<1>2. \A v \in Worker : v # w => tick'[v] = tick[v] /\ gateBusy'[v] = gateBusy[v]
  BY DEF TickTypes
<1>3. gateBusy'[w] /\ tick'[w][s] = t
  BY DEF TickTypes
<1>4. \A z \in Source : z # s => tick'[w][z] = tick[w][z]
  BY DEF TickTypes
<1>5. \A z \in Source : z # s => tick[w][z].at = "none"
  BY DEF OneTickAtATime, Ticking, Source
<1>6. \A z \in Source : z # s => tick'[w][z].at = "none"
  BY <1>4, <1>5
<1>7. OneTickAtATime'
  BY <1>2, <1>3, <1>6 DEF OneTickAtATime, Ticking, Source
<1> QED  BY <1>1, <1>7

LEMMA Draining ==
  ASSUME TickTypes, OneTickAtATime,
         NEW w \in Worker, NEW s \in Source, NEW g \in Gate,
         Ticking(w, s) \/ ~gateBusy[w],
         DrainOrEnd(w, s, g)
  PROVE  TickTypes' /\ OneTickAtATime'
<1>1. AskedDrain(g) \in Gate
  BY GateMethods
<1>2. CASE ShouldDrain(g)
  <2> DEFINE t == [NoTick EXCEPT !.at = "draining"]
  <2>1. t \in Tick /\ t.at # "none"
    BY DEF Tick, TickState, NoTick
  <2>2. /\ gate' \in [Worker -> Gate] /\ timer' \in [Worker -> BOOLEAN]
        /\ tick' = [tick EXCEPT ![w][s] = t]
        /\ gateBusy' = [gateBusy EXCEPT ![w] = TRUE]
    BY <1>1, <1>2 DEF DrainOrEnd, TickTypes
  <2> HIDE DEF t
  <2> QED  BY <2>1, <2>2, Continuing
<1>3. CASE ~ShouldDrain(g)
  BY <1>1, <1>3, Ending DEF DrainOrEnd
<1> QED  BY <1>2, <1>3

LEMMA Starting ==
  ASSUME TickTypes, OneTickAtATime,
         NEW w \in Worker, NEW s \in Source, NEW g \in Gate,
         ~gateBusy[w],
         StartTick(w, s, g)
  PROVE  TickTypes' /\ OneTickAtATime'
<1>1. AskedReconcile(g) \in Gate
  BY GateMethods
<1>2. CASE ShouldReconcile(g)
  <2> DEFINE t == [NoTick EXCEPT !.at = "opening"]
  <2>1. t \in Tick /\ t.at # "none"
    BY DEF Tick, TickState, NoTick
  <2>2. /\ gate' \in [Worker -> Gate] /\ timer' \in [Worker -> BOOLEAN]
        /\ tick' = [tick EXCEPT ![w][s] = t]
        /\ gateBusy' = [gateBusy EXCEPT ![w] = TRUE]
    BY <1>1, <1>2 DEF StartTick, TickTypes
  <2> HIDE DEF t
  <2> QED  BY <2>1, <2>2, Continuing
<1>3. CASE ~ShouldReconcile(g)
  BY <1>1, <1>3, Draining DEF StartTick
<1> QED  BY <1>2, <1>3

\* A tick that moves on keeps the permit.
LEMMA Moving ==
  ASSUME TickInv,
         NEW w \in Worker, NEW s \in Source, NEW t \in Tick,
         Ticking(w, s), t.at # "none",
         tick' = [tick EXCEPT ![w][s] = t],
         UNCHANGED <<gate, gateBusy, timer>>
  PROVE  TickInv'
<1>1. gateBusy' = [gateBusy EXCEPT ![w] = TRUE]
  BY DEF TickInv, TickTypes, OneTickAtATime
<1>2. gate' \in [Worker -> Gate] /\ timer' \in [Worker -> BOOLEAN]
  BY DEF TickInv, TickTypes
<1> QED  BY <1>1, <1>2, Continuing DEF TickInv

\* A step that is no step of a tick leaves the permits alone.
LEMMA Aside ==
  ASSUME TickInv, gate' \in [Worker -> Gate], timer' \in [Worker -> BOOLEAN],
         UNCHANGED <<tick, gateBusy>>
  PROVE  TickInv'
BY DEF TickInv, TickTypes, OneTickAtATime, Ticking

-----------------------------------------------------------------------------
LEMMA TickInit == Init => TickInv
<1> SUFFICES ASSUME Init PROVE TickInv
  OBVIOUS
<1>1. TickTypes
  BY NewGateTyped, NoTickTyped DEF Init, TickTypes
<1>2. OneTickAtATime
  BY DEF Init, OneTickAtATime, Ticking, NoTick, Source
<1> QED  BY <1>1, <1>2 DEF TickInv

LEMMA ProceedKeeps ==
  ASSUME TickInv, NEW w \in Worker, NEW s \in Source, Proceed(w, s)
  PROVE  TickInv'
<1> USE DEF TickInv
<1>a. gate[w] \in Gate /\ tick[w][s] \in Tick
  BY DEF TickTypes
<1>1. CASE ReconcileCommit(w, s)
  <2>1. PICK some \in BOOLEAN : DrainOrEnd(w, s, ReconcileSucceeded(gate[w], some))
    BY <1>1 DEF ReconcileCommit
  <2>2. ReconcileSucceeded(gate[w], some) \in Gate
    BY <1>a, GateMethods
  <2>3. Ticking(w, s)
    BY <1>1 DEF ReconcileCommit, Ticking
  <2> QED  BY <2>1, <2>2, <2>3, Draining
<1>2. CASE ReconcileThrow(w, s)
  <2>1. DrainFailed(ReconcileFailed(gate[w])) \in Gate
    BY <1>a, GateMethods
  <2>2. Ticking(w, s) /\ EndTick(w, s, DrainFailed(ReconcileFailed(gate[w])))
    BY <1>2 DEF ReconcileThrow, Ticking
  <2> QED  BY <2>1, <2>2, Ending
<1>3. CASE DrainIteration(w, s)
  <2> DEFINE t == [tick[w][s] EXCEPT !.at = "fetching",
                                     !.selection = {r \in Run : Runnable(r)}]
  <2>1. t \in Tick /\ t.at # "none"
    BY <1>a DEF Tick, TickState
  <2>2. /\ Ticking(w, s)
        /\ tick' = [tick EXCEPT ![w][s] = t]
        /\ UNCHANGED <<gate, gateBusy, timer>>
    BY <1>3 DEF DrainIteration, Ticking, TickTypes
  <2> HIDE DEF t
  <2> QED  BY <2>1, <2>2, Moving
<1>4. CASE Fetch(w, s)
  <2>1. Ticking(w, s)
    BY <1>4 DEF Fetch, Ticking
  <2>2. CASE \E some \in BOOLEAN : EndTick(w, s, DrainCompleted(gate[w], some))
    BY <1>a, <2>1, <2>2, GateMethods, Ending
  <2>3. CASE ~ \E some \in BOOLEAN : EndTick(w, s, DrainCompleted(gate[w], some))
    <3>1. tick[w][s].resumed \in BOOLEAN /\ tick[w][s].selection \subseteq Run
      BY <1>a DEF Tick, TickState
    <3>2. PICK r \in Run :
            /\ tick' = [tick EXCEPT ![w][s] =
                  [@ EXCEPT !.at = "resuming", !.on = r, !.resumed = TRUE,
                            !.selection = {}]]
            /\ UNCHANGED <<gate, gateBusy, timer>>
      BY <1>4, <2>3, <3>1 DEF Fetch
    <3> DEFINE t == [tick[w][s] EXCEPT !.at = "resuming", !.on = r, !.resumed = TRUE,
                                       !.selection = {}]
    <3>3. t \in Tick /\ t.at # "none"
      BY <1>a DEF Tick, TickState
    <3>4. tick' = [tick EXCEPT ![w][s] = t]
      BY <3>2 DEF TickTypes
    <3> HIDE DEF t
    <3> QED  BY <2>1, <3>2, <3>3, <3>4, Moving
  <2> QED  BY <2>2, <2>3
<1>5. CASE StepCommit(w, s)
  <2> DEFINE t == [tick[w][s] EXCEPT !.at = "draining", !.on = NoRun]
  <2>1. t \in Tick /\ t.at # "none"
    BY <1>a DEF Tick, TickState
  <2>2. /\ Ticking(w, s)
        /\ tick' = [tick EXCEPT ![w][s] = t]
        /\ UNCHANGED <<gate, gateBusy, timer>>
    BY <1>5 DEF StepCommit, Ticking, TickTypes
  <2> HIDE DEF t
  <2> QED  BY <2>1, <2>2, Moving
<1>6. CASE FailureMarked(w, s) \/ BookkeepingThrow(w, s)
  <2>1. DrainFailed(gate[w]) \in Gate
    BY <1>a, GateMethods
  <2>2. Ticking(w, s) /\ EndTick(w, s, DrainFailed(gate[w]))
    BY <1>6 DEF FailureMarked, BookkeepingThrow, Ticking
  <2> QED  BY <2>1, <2>2, Ending
<1>7. CASE ReconcileBegin(w, s)
  <2> DEFINE t == [tick[w][s] EXCEPT !.at = "reconciling",
                                     !.selection = {r \in Run : row[r] = "emitted"}]
  <2>1. t \in Tick /\ t.at # "none"
    BY <1>a DEF Tick, TickState
  <2>2. /\ Ticking(w, s)
        /\ tick' = [tick EXCEPT ![w][s] = t]
        /\ UNCHANGED <<gate, gateBusy, timer>>
    BY <1>7 DEF ReconcileBegin, Ticking, TickTypes
  <2> HIDE DEF t
  <2> QED  BY <2>1, <2>2, Moving
<1>8. CASE StepThrow(w, s)
  <2> DEFINE t == [tick[w][s] EXCEPT !.at = "failing"]
  <2>1. t \in Tick /\ t.at # "none"
    BY <1>a DEF Tick, TickState
  <2>2. /\ Ticking(w, s)
        /\ tick' = [tick EXCEPT ![w][s] = t]
        /\ UNCHANGED <<gate, gateBusy, timer>>
    BY <1>8 DEF StepThrow, Ticking, TickTypes
  <2> HIDE DEF t
  <2> QED  BY <2>1, <2>2, Moving
<1>9. CASE MarkFailure(w, s)
  <2> DEFINE t == [tick[w][s] EXCEPT !.at = "marking"]
  <2>1. t \in Tick /\ t.at # "none"
    BY <1>a DEF Tick, TickState
  <2>2. /\ Ticking(w, s)
        /\ tick' = [tick EXCEPT ![w][s] = t]
        /\ UNCHANGED <<gate, gateBusy, timer>>
    BY <1>9 DEF MarkFailure, Ticking, TickTypes
  <2> HIDE DEF t
  <2> QED  BY <2>1, <2>2, Moving
<1> QED
  BY <1>1, <1>2, <1>3, <1>4, <1>5, <1>6, <1>7, <1>8, <1>9 DEF Proceed

LEMMA TickNext == TickInv /\ [Next]_vars => TickInv'
<1> SUFFICES ASSUME TickInv, [Next]_vars PROVE TickInv'
  OBVIOUS
<1>1. ASSUME NEW w \in Worker, ScheduledLoop(w) PROVE TickInv'
  <2>1. gate[w] \in Gate
    BY DEF TickInv, TickTypes
  <2> QED  BY <1>1, <2>1, Starting DEF ScheduledLoop, TickInv, Source
<1>2. ASSUME NEW w \in Worker, NEW r \in Run, Trigger(w, r) PROVE TickInv'
  <2>1. MarkDirty(gate[w]) \in Gate
    BY GateMethods DEF TickInv, TickTypes
  <2>2. CASE closing[w] # "open" \/ gateBusy[w]
    <3>1. gate' \in [Worker -> Gate]
      BY <1>2, <2>1, <2>2 DEF Trigger, TickInv, TickTypes
    <3>2. timer' \in [Worker -> BOOLEAN] /\ UNCHANGED <<tick, gateBusy>>
      BY <1>2, <2>2 DEF Trigger, TickInv, TickTypes
    <3> QED  BY <3>1, <3>2, Aside
  <2>3. CASE closing[w] = "open" /\ ~gateBusy[w]
    BY <1>2, <2>1, <2>3, Starting DEF Trigger, TickInv, Source
  <2> QED  BY <2>2, <2>3
<1>3. ASSUME NEW w \in Worker, NEW s \in Source, Proceed(w, s) PROVE TickInv'
  BY <1>3, ProceedKeeps
<1>4. ASSUME NEW w \in Worker, ReconcileSweepDue(w) \/ DrainSweepDue(w) PROVE TickInv'
  <2>a. /\ [gate[w] EXCEPT !.sweepDue = TRUE] \in Gate
        /\ [gate[w] EXCEPT !.drainSweepDue = TRUE] \in Gate
    BY DEF TickInv, TickTypes, Gate
  <2>1. gate' \in [Worker -> Gate]
    BY <1>4, <2>a DEF ReconcileSweepDue, DrainSweepDue, TickInv, TickTypes
  <2>2. timer' \in [Worker -> BOOLEAN] /\ UNCHANGED <<tick, gateBusy>>
    BY <1>4 DEF ReconcileSweepDue, DrainSweepDue, TickInv, TickTypes
  <2> QED  BY <2>1, <2>2, Aside
<1>5. ASSUME NEW w \in Worker, Close(w) \/ Closed(w) PROVE TickInv'
  <2>1. /\ gate' \in [Worker -> Gate] /\ timer' \in [Worker -> BOOLEAN]
        /\ UNCHANGED <<tick, gateBusy>>
    BY <1>5 DEF Close, Closed, TickInv, TickTypes
  <2> QED  BY <2>1, Aside
<1>6. ASSUME (\E r \in Run : Emit(r) \/ Wake(r) \/ BackoffOver(r)) \/ ShutDown \/ ResumeTicks
      PROVE TickInv'
  <2>1. UNCHANGED <<gate, timer, tick, gateBusy>>
    BY <1>6 DEF Emit, Wake, BackoffOver, ShutDown, ResumeTicks
  <2> QED  BY <2>1, Aside DEF TickInv, TickTypes
<1>7. CASE UNCHANGED vars
  BY <1>7, Aside DEF vars, TickInv, TickTypes
<1> QED  BY <1>1, <1>2, <1>3, <1>4, <1>5, <1>6, <1>7 DEF Next

\* PeriodicTick's promise, for every number of workers and runs: a worker has at
\* most one tick in progress, and holds the permit exactly while it has one.
THEOREM OneTick == Spec => []OneTickAtATime
<1>1. TickInv => OneTickAtATime
  BY DEF TickInv
<1> QED  BY TickInit, TickNext, <1>1, PTL DEF Spec

-----------------------------------------------------------------------------
\* A worker holds one connection beside that of a mark it writes.
LEMMA OneConnectionEach ==
  ASSUME TickInv, IsFiniteSet(Worker)
  PROVE  IsFiniteSet(Connected) /\ Cardinality(Connected) <= Cardinality(Worker)
<1> DEFINE f == [p \in Connected |-> p[1]]
<1>1. f \in [Connected -> Worker]
  BY DEF Connected
<1>2. \A p, q \in Connected : f[p] = f[q] => p = q
  <2> SUFFICES ASSUME NEW p \in Connected, NEW q \in Connected, p[1] = q[1]
               PROVE  p = q
    OBVIOUS
  <2>1. PICK v \in Worker, s \in Source : p = <<v, s>>
    BY DEF Connected
  <2>2. PICK z \in Source : q = <<v, z>>
    BY <2>1 DEF Connected
  <2>3. Ticking(v, s) /\ Ticking(v, z)
    BY <2>1, <2>2 DEF Connected, Ticking
  <2>4. s = z
    BY <2>3 DEF TickInv, OneTickAtATime, Source
  <2> QED  BY <2>1, <2>2, <2>4
<1>3. f \in Injection(Connected, Worker)
  BY <1>1, <1>2 DEF Injection, IsInjective
<1> QED  BY <1>3, FS_Injection

\* The argument for the pool's size: ticks that wait while they hold a connection
\* hold one each, so that one connection more than workers is left to some mark.
LEMMA OneMoreSuffices ==
  ASSUME TickInv, IsFiniteSet(Worker), Connections > Cardinality(Worker)
  PROVE  PoolSuffices
<1> SUFFICES ASSUME ~FreeConnection
             PROVE  \E p \in Connected : tick[p[1]][p[2]].at # "failing"
  BY DEF PoolSuffices
<1>1. IsFiniteSet(Connected) /\ Cardinality(Connected) <= Cardinality(Worker)
  BY OneConnectionEach
<1>2. IsFiniteSet(Marking)
  BY <1>1, FS_Subset DEF Marking
<1>3. /\ Cardinality(Worker) \in Nat /\ Cardinality(Connected) \in Nat
      /\ Cardinality(Marking) \in Nat
  BY <1>1, <1>2, FS_CardinalityType
<1>4. Cardinality(Marking) # 0
  BY <1>1, <1>3, TickLoopAssumption DEF FreeConnection
<1>5. PICK p \in Connected : tick[p[1]][p[2]].at = "marking"
  BY <1>2, <1>4, FS_EmptySet DEF Marking
<1> QED  BY <1>5

\* A process whose pool has one connection more than it has workers is never stuck
\* with every connection held by a step that failed and cannot say so.
THEOREM PoolIsEnough ==
  ASSUME IsFiniteSet(Worker), Connections > Cardinality(Worker)
  PROVE  Spec => []PoolSuffices
<1>1. TickInv => PoolSuffices
  BY OneMoreSuffices
<1> QED  BY TickInit, TickNext, <1>1, PTL DEF Spec

-----------------------------------------------------------------------------
\* Types.  That stepsLeft never passes zero needs to know that a run that is being
\* resumed is not done, and that nobody else is resuming it.

DataTypes ==
    /\ row \in [Run -> RowState]
    /\ stepsLeft \in [Run -> 0..StepsPerRun]
    /\ notes \in [Worker -> SUBSET Run]
    /\ heard \in [Worker -> SUBSET Run]
    /\ closing \in [Worker -> Closing]
    /\ shuttingDown \in BOOLEAN
    /\ backedOff \in SUBSET Run
    /\ skips \in 0..MaxSkips
    /\ failures \in 0..MaxFailures

OnRun == {"resuming", "failing", "marking"}

\* A run is resumed by one tick.
Resuming ==
    /\ \A w \in Worker, s \in Source : tick[w][s].at \in OnRun <=> tick[w][s].on \in Run
    /\ \A w, v \in Worker, s, z \in Source :
        tick[w][s].on = tick[v][z].on /\ tick[w][s].on \in Run => w = v /\ s = z

\* It is ready all the while, and has a step to execute.
ResumedIsReady ==
    /\ \A r \in Run : row[r] # "done" => stepsLeft[r] # 0
    /\ \A w \in Worker, s \in Source : tick[w][s].on \in Run => Runnable(tick[w][s].on)

TypeInv == TickInv /\ DataTypes /\ Resuming /\ ResumedIsReady

\* Ticks that resume no run.
Plain == {t \in Tick : t.on = NoRun /\ t.at \notin OnRun}

\* What happens to the rows does not end a run, nor make a ready one wait.
RowsGoOn ==
    /\ UNCHANGED stepsLeft
    /\ \A r \in Run : (row'[r] # "done" => row[r] # "done") /\ (Runnable(r) => Runnable(r)')

LEMMA NoTickPlain == NoTick \in Plain
  BY NoTickTyped DEF Plain, NoTick, OnRun

\* How ticks start and end, as far as the resumed runs are concerned.
LEMMA EndsPlain ==
  ASSUME NEW w, NEW s, NEW g, EndTick(w, s, g)
  PROVE  \E t \in Plain : tick' = [tick EXCEPT ![w][s] = t]
  BY NoTickPlain DEF EndTick

LEMMA DrainsPlain ==
  ASSUME NEW w, NEW s, NEW g, DrainOrEnd(w, s, g)
  PROVE  \E t \in Plain : tick' = [tick EXCEPT ![w][s] = t]
<1>1. [NoTick EXCEPT !.at = "draining"] \in Plain
  BY DEF Plain, NoTick, OnRun, Tick, TickState
<1> QED  BY <1>1, EndsPlain DEF DrainOrEnd

LEMMA StartsPlain ==
  ASSUME NEW w, NEW s, NEW g, StartTick(w, s, g)
  PROVE  \E t \in Plain : tick' = [tick EXCEPT ![w][s] = t]
<1>1. [NoTick EXCEPT !.at = "opening"] \in Plain
  BY DEF Plain, NoTick, OnRun, Tick, TickState
<1> QED  BY <1>1, DrainsPlain DEF StartTick

\* A tick that resumes no run when the step is over.
LEMMA PlainKeeps ==
  ASSUME TypeInv, RowsGoOn, NEW w \in Worker, NEW s \in Source,
         \E t \in Plain : tick' = [tick EXCEPT ![w][s] = t]
  PROVE  Resuming' /\ ResumedIsReady'
<1>1. PICK t \in Plain : tick' = [tick EXCEPT ![w][s] = t]
  OBVIOUS
<1>2. tick \in [Worker -> [Source -> Tick]]
  BY DEF TypeInv, TickInv, TickTypes
<1>3. t.on \notin Run /\ t.at \notin OnRun
  BY TickLoopAssumption DEF Plain
<1>4. \A v \in Worker, z \in Source :
        tick'[v][z] = IF v = w /\ z = s THEN t ELSE tick[v][z]
  BY <1>1, <1>2
<1>5. Resuming'
  BY <1>3, <1>4 DEF TypeInv, Resuming
<1>6. ResumedIsReady'
  BY <1>3, <1>4 DEF TypeInv, ResumedIsReady, RowsGoOn
<1> QED  BY <1>5, <1>6

\* No tick moves.
LEMMA StillKeeps ==
  ASSUME TypeInv, RowsGoOn, UNCHANGED tick
  PROVE  Resuming' /\ ResumedIsReady'
BY DEF TypeInv, Resuming, ResumedIsReady, RowsGoOn

\* A tick moves on with the run that it is resuming.
LEMMA OnwardKeeps ==
  ASSUME TypeInv, RowsGoOn, NEW w \in Worker, NEW s \in Source, NEW at \in OnRun,
         tick[w][s].at \in OnRun,
         tick' = [tick EXCEPT ![w][s] = [@ EXCEPT !.at = at]]
  PROVE  Resuming' /\ ResumedIsReady'
<1>1. tick \in [Worker -> [Source -> Tick]]
  BY DEF TypeInv, TickInv, TickTypes
<1>2. \A v \in Worker, z \in Source :
        /\ tick'[v][z].on = tick[v][z].on
        /\ tick'[v][z].at = IF v = w /\ z = s THEN at ELSE tick[v][z].at
  BY <1>1 DEF Tick
<1>3. Resuming'
  BY <1>2 DEF TypeInv, Resuming
<1>4. ResumedIsReady'
  BY <1>2 DEF TypeInv, ResumedIsReady, RowsGoOn
<1> QED  BY <1>3, <1>4
\* The two steps that are about the resumed run itself: it is picked, ...
LEMMA PickKeeps ==
  ASSUME TypeInv, RowsGoOn, NEW w \in Worker, NEW s \in Source, NEW r \in Run,
         ~Held(r), Runnable(r),
         tick' = [tick EXCEPT ![w][s] =
            [@ EXCEPT !.at = "resuming", !.on = r, !.resumed = TRUE, !.selection = {}]]
  PROVE  Resuming' /\ ResumedIsReady'
<1>1. tick \in [Worker -> [Source -> Tick]]
  BY DEF TypeInv, TickInv, TickTypes
<1>2. \A v \in Worker, z \in Source :
        /\ tick'[v][z].on = IF v = w /\ z = s THEN r ELSE tick[v][z].on
        /\ tick'[v][z].at = IF v = w /\ z = s THEN "resuming" ELSE tick[v][z].at
  BY <1>1 DEF Tick
<1>3. \A v \in Worker, z \in Source : tick[v][z].on # r
  BY DEF Held
<1>4. Resuming'
  <2>1. \A v \in Worker, z \in Source :
          tick'[v][z].at \in OnRun <=> tick'[v][z].on \in Run
    BY <1>2 DEF TypeInv, Resuming, OnRun
  <2>2. ASSUME NEW v \in Worker, NEW x \in Worker, NEW z \in Source, NEW y \in Source,
               tick'[v][z].on = tick'[x][y].on, tick'[v][z].on \in Run
        PROVE  v = x /\ z = y
    BY <1>2, <1>3, <2>2 DEF TypeInv, Resuming
  <2> QED  BY <2>1, <2>2 DEF Resuming
<1>5. ResumedIsReady'
  BY <1>2 DEF TypeInv, ResumedIsReady, RowsGoOn
<1> QED  BY <1>4, <1>5

\* ... and executes a step.
LEMMA StepKeeps ==
  ASSUME TypeInv, NEW w \in Worker, NEW s \in Source, StepCommit(w, s)
  PROVE  DataTypes' /\ Resuming' /\ ResumedIsReady'
<1> DEFINE r == tick[w][s].on
<1>1. tick \in [Worker -> [Source -> Tick]]
  BY DEF TypeInv, TickInv, TickTypes
<1>2. r \in Run
  BY DEF StepCommit, TypeInv, Resuming, OnRun
<1>3. row \in [Run -> RowState] /\ stepsLeft \in [Run -> 0..StepsPerRun]
  BY DEF TypeInv, DataTypes
<1>4. stepsLeft[r] # 0
  BY <1>2 DEF TypeInv, ResumedIsReady, Runnable
<1>5. PICK next \in IF stepsLeft[r] = 1 THEN {"done"} ELSE {"due", "parked"} :
        row' = [row EXCEPT ![r] = next]
  BY DEF StepCommit
<1>6. stepsLeft' = [stepsLeft EXCEPT ![r] = @ - 1]
  BY DEF StepCommit
<1>7. stepsLeft[r] \in Nat /\ stepsLeft[r] - 1 \in 0..StepsPerRun
  BY <1>2, <1>3, <1>4, TickLoopAssumption
<1>8. \A v \in Worker, z \in Source :
        /\ tick'[v][z].on = IF v = w /\ z = s THEN NoRun ELSE tick[v][z].on
        /\ tick'[v][z].at = IF v = w /\ z = s THEN "draining" ELSE tick[v][z].at
  BY <1>1 DEF StepCommit, Tick
<1>9. DataTypes'
  <2>1. row' \in [Run -> RowState]
    BY <1>2, <1>3, <1>5 DEF RowState
  <2>2. stepsLeft' \in [Run -> 0..StepsPerRun]
    BY <1>2, <1>3, <1>6, <1>7
  <2> QED  BY <2>1, <2>2 DEF StepCommit, TypeInv, DataTypes
<1>10. Resuming'
  BY <1>8, TickLoopAssumption DEF TypeInv, Resuming, OnRun
<1>11. ResumedIsReady'
  <2>1. \A q \in Run : row'[q] # "done" => stepsLeft'[q] # 0
    <3> TAKE q \in Run
    <3>1. CASE q = r
      <4>1. row'[r] = next /\ stepsLeft'[r] = stepsLeft[r] - 1
        BY <1>2, <1>3, <1>5, <1>6
      <4>2. stepsLeft[r] = 1 => next = "done"
        BY <1>5
      <4> QED  BY <3>1, <4>1, <4>2, <1>7
    <3>2. CASE q # r
      BY <1>3, <1>5, <1>6, <3>2 DEF TypeInv, ResumedIsReady
    <3> QED  BY <3>1, <3>2
  <2>2. ASSUME NEW v \in Worker, NEW z \in Source, tick'[v][z].on \in Run
        PROVE  Runnable(tick[v][z].on)'
    <3>1. ~(v = w /\ z = s) /\ tick'[v][z].on = tick[v][z].on
      BY <1>8, <2>2, TickLoopAssumption
    <3>2. tick[v][z].on # r
      BY <1>2, <3>1 DEF TypeInv, Resuming
    <3>3. Runnable(tick[v][z].on)
      BY <2>2, <3>1 DEF TypeInv, ResumedIsReady
    <3>4. row'[tick[v][z].on] = row[tick[v][z].on]
      BY <1>3, <1>5, <2>2, <3>1, <3>2
    <3> QED  BY <3>1, <3>3, <3>4 DEF Runnable
  <2> QED  BY <2>1, <2>2 DEF ResumedIsReady
<1> HIDE DEF r
<1> QED  BY <1>9, <1>10, <1>11
-----------------------------------------------------------------------------
LEMMA TypeInit == Init => TypeInv
<1> SUFFICES ASSUME Init PROVE TypeInv
  OBVIOUS
<1>1. DataTypes
  <2>1. /\ row \in [Run -> RowState]
        /\ notes \in [Worker -> SUBSET Run]
        /\ heard \in [Worker -> SUBSET Run]
        /\ closing \in [Worker -> Closing]
        /\ shuttingDown \in BOOLEAN
        /\ backedOff \in SUBSET Run
    BY DEF Init, RowState, Closing
  <2>2. StepsPerRun \in 0..StepsPerRun /\ 0 \in 0..MaxSkips /\ 0 \in 0..MaxFailures
    BY TickLoopAssumption
  <2>3. /\ stepsLeft \in [Run -> 0..StepsPerRun]
        /\ skips \in 0..MaxSkips
        /\ failures \in 0..MaxFailures
    BY <2>2 DEF Init
  <2> QED  BY <2>1, <2>3 DEF DataTypes
<1>2. \A w \in Worker, s \in Source : tick[w][s] = NoTick
  BY DEF Init
<1>3. Resuming
  BY <1>2, TickLoopAssumption DEF Resuming, NoTick, OnRun
<1>4. ResumedIsReady
  BY <1>2, TickLoopAssumption DEF Init, ResumedIsReady, NoTick
<1> QED  BY TickInit, <1>1, <1>3, <1>4 DEF TypeInv

\* No other step than StepCommit touches the count of steps.
LEMMA DataNext ==
  ASSUME TypeInv, [Next]_vars,
         \A w \in Worker, s \in Source : ~StepCommit(w, s)
  PROVE  DataTypes'
<1> USE DEF TypeInv, DataTypes, Rows
<1>1. ASSUME NEW w \in Worker, NEW s \in Source, ReconcileCommit(w, s)
      PROVE  DataTypes'
  <2>1. PICK locked \in SUBSET {r \in tick[w][s].selection : row[r] = "emitted"} :
          /\ skips' = IF locked = {} THEN skips ELSE skips + 1
          /\ skips' <= MaxSkips
          /\ LET started == {r \in tick[w][s].selection \ locked : row[r] = "emitted"}
             IN  /\ row' = [r \in Run |-> IF r \in started THEN "due" ELSE row[r]]
                 /\ heard' = [v \in Worker |-> heard[v] \ started]
    BY <1>1 DEF ReconcileCommit
  <2>2. row' \in [Run -> RowState] /\ heard' \in [Worker -> SUBSET Run]
    BY <2>1 DEF RowState
  <2>3. skips' \in 0..MaxSkips
    BY <2>1, TickLoopAssumption
  <2> QED  BY <1>1, <2>2, <2>3 DEF ReconcileCommit
<1>2. ASSUME NEW w \in Worker, NEW s \in Source,
             \/ ReconcileBegin(w, s) \/ ReconcileThrow(w, s) \/ DrainIteration(w, s)
             \/ Fetch(w, s) \/ StepThrow(w, s) \/ MarkFailure(w, s)
      PROVE  DataTypes'
  <2>1. UNCHANGED <<row, stepsLeft, backedOff, notes, heard, closing, shuttingDown, skips>>
    BY <1>2 DEF ReconcileBegin, ReconcileThrow, DrainIteration, Fetch, StepThrow,
                MarkFailure
  <2>2. \/ failures' = failures
        \/ failures < MaxFailures /\ failures' = failures + 1
    BY <1>2 DEF ReconcileBegin, ReconcileThrow, DrainIteration, Fetch, StepThrow,
                MarkFailure
  <2>3. failures \in 0..MaxFailures
    OBVIOUS
  <2>4. failures' \in 0..MaxFailures
    BY <2>2, <2>3, TickLoopAssumption
  <2> QED  BY <2>1, <2>4
<1>3. ASSUME NEW w \in Worker, NEW s \in Source,
             FailureMarked(w, s) \/ BookkeepingThrow(w, s)
      PROVE  DataTypes'
  <2>1. tick[w][s].on \in Run
    BY <1>3 DEF FailureMarked, BookkeepingThrow, Resuming, OnRun
  <2>2. backedOff' \in SUBSET Run /\ failures' \in 0..MaxFailures
    BY <1>3, <2>1, TickLoopAssumption DEF FailureMarked, BookkeepingThrow
  <2> QED  BY <1>3, <2>2 DEF FailureMarked, BookkeepingThrow
<1>4. ASSUME NEW w \in Worker, NEW r \in Run, Trigger(w, r)
      PROVE  DataTypes'
  <2>1. notes' \in [Worker -> SUBSET Run] /\ heard' \in [Worker -> SUBSET Run]
    BY <1>4 DEF Trigger
  <2> QED  BY <1>4, <2>1 DEF Trigger
<1>5. ASSUME NEW w \in Worker,
             \/ ScheduledLoop(w) \/ ReconcileSweepDue(w) \/ DrainSweepDue(w)
             \/ Close(w) \/ Closed(w)
      PROVE  DataTypes'
  <2>1. closing' \in [Worker -> Closing]
    BY <1>5 DEF ScheduledLoop, ReconcileSweepDue, DrainSweepDue, Close, Closed, Closing
  <2> QED
    BY <1>5, <2>1 DEF ScheduledLoop, ReconcileSweepDue, DrainSweepDue, Close, Closed
<1>6. ASSUME NEW r \in Run, Emit(r) PROVE DataTypes'
  <2>1. row' \in [Run -> RowState] /\ notes' \in [Worker -> SUBSET Run]
    BY <1>6 DEF Emit, RowState
  <2> QED  BY <1>6, <2>1 DEF Emit
<1>7. ASSUME NEW r \in Run, Wake(r) \/ BackoffOver(r) PROVE DataTypes'
  BY <1>7 DEF Wake, BackoffOver, RowState
<1>8. CASE ShutDown \/ ResumeTicks
  BY <1>8 DEF ShutDown, ResumeTicks
<1>9. CASE UNCHANGED vars
  BY <1>9 DEF vars
<1> QED
  BY <1>1, <1>2, <1>3, <1>4, <1>5, <1>6, <1>7, <1>8, <1>9 DEF Next, Proceed

\* What the other steps do to the runs that are being resumed.
LEMMA ResumedNext ==
  ASSUME TypeInv, [Next]_vars,
         \A w \in Worker, s \in Source : ~StepCommit(w, s)
  PROVE  Resuming' /\ ResumedIsReady'
<1>a. row \in [Run -> RowState]
  BY DEF TypeInv, DataTypes
<1>b. UNCHANGED <<row, stepsLeft>> => RowsGoOn
  BY DEF RowsGoOn, Runnable
<1>1. ASSUME NEW w \in Worker, NEW s \in Source, ReconcileCommit(w, s)
      PROVE  Resuming' /\ ResumedIsReady'
  <2>1. RowsGoOn
    <3>1. \A r \in Run : row'[r] = row[r] \/ (row[r] = "emitted" /\ row'[r] = "due")
      BY <1>1 DEF ReconcileCommit
    <3> QED  BY <1>1, <3>1 DEF ReconcileCommit, RowsGoOn, Runnable
  <2>2. \E t \in Plain : tick' = [tick EXCEPT ![w][s] = t]
    BY <1>1, DrainsPlain DEF ReconcileCommit
  <2> QED  BY <2>1, <2>2, PlainKeeps
<1>2. ASSUME NEW w \in Worker, NEW s \in Source,
             \/ ReconcileThrow(w, s) \/ FailureMarked(w, s) \/ BookkeepingThrow(w, s)
      PROVE  Resuming' /\ ResumedIsReady'
  <2>1. RowsGoOn
    BY <1>2, <1>b DEF ReconcileThrow, FailureMarked, BookkeepingThrow, Rows
  <2>2. \E t \in Plain : tick' = [tick EXCEPT ![w][s] = t]
    BY <1>2, EndsPlain DEF ReconcileThrow, FailureMarked, BookkeepingThrow
  <2> QED  BY <2>1, <2>2, PlainKeeps
<1>3. ASSUME NEW w \in Worker, NEW s \in Source,
             ReconcileBegin(w, s) \/ DrainIteration(w, s)
      PROVE  Resuming' /\ ResumedIsReady'
  <2> DEFINE begun == [tick[w][s] EXCEPT !.at = "reconciling",
                                         !.selection = {r \in Run : row[r] = "emitted"}]
             asked == [tick[w][s] EXCEPT !.at = "fetching",
                                         !.selection = {r \in Run : Runnable(r)}]
  <2>1. RowsGoOn
    BY <1>3, <1>b DEF ReconcileBegin, DrainIteration, Rows
  <2>a. tick[w][s] \in Tick
    BY DEF TypeInv, TickInv, TickTypes
  <2>b. tick[w][s].at \notin OnRun
    BY <1>3 DEF ReconcileBegin, DrainIteration, OnRun
  <2>c. tick[w][s].on \notin Run
    BY <2>b DEF TypeInv, Resuming
  <2>2. tick[w][s] \in Tick /\ tick[w][s].on = NoRun
    BY <2>a, <2>c DEF Tick
  <2>3. begun \in Plain /\ asked \in Plain
    BY <2>2 DEF Plain, Tick, TickState, OnRun
  <2>4. tick' = [tick EXCEPT ![w][s] = begun] \/ tick' = [tick EXCEPT ![w][s] = asked]
    BY <1>3 DEF ReconcileBegin, DrainIteration, TypeInv, TickInv, TickTypes
  <2> HIDE DEF begun, asked
  <2> QED  BY <2>1, <2>3, <2>4, PlainKeeps
<1>4. ASSUME NEW w \in Worker, NEW s \in Source, Fetch(w, s)
      PROVE  Resuming' /\ ResumedIsReady'
  <2>1. RowsGoOn
    BY <1>4, <1>b DEF Fetch, Rows
  <2>2. CASE \E g : EndTick(w, s, g)
    BY <2>1, <2>2, EndsPlain, PlainKeeps
  <2>3. CASE ~ \E g : EndTick(w, s, g)
    <3>1. tick[w][s].selection \subseteq Run
      BY DEF TypeInv, TickInv, TickTypes, Tick
    <3>2. PICK r \in Run :
            /\ ~Held(r) /\ Runnable(r)
            /\ tick' = [tick EXCEPT ![w][s] =
                  [@ EXCEPT !.at = "resuming", !.on = r, !.resumed = TRUE,
                            !.selection = {}]]
      BY <1>4, <2>3, <3>1 DEF Fetch
    <3> QED  BY <2>1, <3>2, PickKeeps
  <2> QED  BY <2>2, <2>3
<1>5. ASSUME NEW w \in Worker, NEW s \in Source, StepThrow(w, s) \/ MarkFailure(w, s)
      PROVE  Resuming' /\ ResumedIsReady'
  <2>1. RowsGoOn
    BY <1>5, <1>b DEF StepThrow, MarkFailure, Rows
  <2>2. tick[w][s].at \in OnRun
    BY <1>5 DEF StepThrow, MarkFailure, OnRun
  <2>3. \E at \in OnRun : tick' = [tick EXCEPT ![w][s] = [@ EXCEPT !.at = at]]
    BY <1>5 DEF StepThrow, MarkFailure, OnRun
  <2> QED  BY <2>1, <2>2, <2>3, OnwardKeeps
<1>6. ASSUME NEW w \in Worker, NEW s \in Source, NEW g, StartTick(w, s, g),
             UNCHANGED <<row, stepsLeft>>
      PROVE  Resuming' /\ ResumedIsReady'
  BY <1>6, <1>b, StartsPlain, PlainKeeps
<1>7. ASSUME NEW w \in Worker, ScheduledLoop(w) PROVE Resuming' /\ ResumedIsReady'
  BY <1>6, <1>7 DEF ScheduledLoop, Rows, Source
<1>8. ASSUME NEW w \in Worker, NEW r \in Run, Trigger(w, r)
      PROVE  Resuming' /\ ResumedIsReady'
  <2>1. UNCHANGED <<row, stepsLeft>>
    BY <1>8 DEF Trigger, Rows
  <2>2. UNCHANGED tick \/ StartTick(w, "trigger", MarkDirty(gate[w]))
    BY <1>8 DEF Trigger
  <2> QED  BY <1>6, <1>b, <2>1, <2>2, StillKeeps DEF Source
<1>9. ASSUME NEW r \in Run, Emit(r) \/ Wake(r)
      PROVE  Resuming' /\ ResumedIsReady'
  <2>1. RowsGoOn /\ UNCHANGED tick
    BY <1>9, <1>a DEF Emit, Wake, RowsGoOn, Runnable
  <2> QED  BY <2>1, StillKeeps
<1>10. ASSUME UNCHANGED <<row, stepsLeft, tick>>
       PROVE  Resuming' /\ ResumedIsReady'
  BY <1>10, <1>b, StillKeeps
<1>11. ASSUME NEW w \in Worker,
              ReconcileSweepDue(w) \/ DrainSweepDue(w) \/ Close(w) \/ Closed(w)
       PROVE  UNCHANGED <<row, stepsLeft, tick>>
  BY <1>11 DEF ReconcileSweepDue, DrainSweepDue, Close, Closed, Rows
<1>12. ASSUME (\E r \in Run : BackoffOver(r)) \/ ShutDown \/ ResumeTicks \/ UNCHANGED vars
       PROVE  UNCHANGED <<row, stepsLeft, tick>>
  BY <1>12 DEF BackoffOver, ShutDown, ResumeTicks, vars, Rows
<1> QED
  BY <1>1, <1>2, <1>3, <1>4, <1>5, <1>7, <1>8, <1>9, <1>10, <1>11, <1>12
     DEF Next, Proceed

LEMMA TypeNext == TypeInv /\ [Next]_vars => TypeInv'
<1> SUFFICES ASSUME TypeInv, [Next]_vars PROVE TypeInv'
  OBVIOUS
<1>1. TickInv'
  BY TickNext DEF TypeInv
<1>2. CASE \E w \in Worker, s \in Source : StepCommit(w, s)
  BY <1>1, <1>2, StepKeeps DEF TypeInv
<1>3. CASE \A w \in Worker, s \in Source : ~StepCommit(w, s)
  BY <1>1, <1>3, DataNext, ResumedNext DEF TypeInv
<1> QED  BY <1>2, <1>3

\* Everything stays in its domain, for every number of workers, runs and steps: no
\* run executes a step after its last, because a run is resumed by one tick only
\* and stays ready while it is.
THEOREM TickLoopTyped == Spec => []TypeOK
<1>1. TypeInv => TypeOK
  BY DEF TypeInv, TickInv, TickTypes, DataTypes, TypeOK
<1> QED  BY TypeInit, TypeNext, <1>1, PTL DEF Spec
-----------------------------------------------------------------------------
\* Closing.  The timer of a worker that is being closed is never set again, and a
\* closed worker does not hold the permit.
Stopping ==
    \A w \in Worker :
        /\ timer[w] => closing[w] = "open"
        /\ closing[w] = "closed" => ~gateBusy[w]

StopInv == TickInv /\ Stopping

\* What a tick does to the timer and the permit of its worker, however it goes on.
LEMMA EndingTimer ==
  ASSUME TickInv, NEW w \in Worker, NEW s \in Source, NEW g, EndTick(w, s, g)
  PROVE  /\ \A v \in Worker : timer'[v] => timer[v] \/ closing[v] = "open"
         /\ \A v \in Worker : gateBusy'[v] => gateBusy[v] \/ v = w
BY DEF EndTick, TickInv, TickTypes

LEMMA DrainingTimer ==
  ASSUME TickInv, NEW w \in Worker, NEW s \in Source, NEW g, DrainOrEnd(w, s, g)
  PROVE  /\ \A v \in Worker : timer'[v] => timer[v] \/ closing[v] = "open"
         /\ \A v \in Worker : gateBusy'[v] => gateBusy[v] \/ v = w
<1>1. CASE ShouldDrain(g)
  BY <1>1 DEF DrainOrEnd, TickInv, TickTypes
<1>2. CASE ~ShouldDrain(g)
  BY <1>2, EndingTimer DEF DrainOrEnd
<1> QED  BY <1>1, <1>2

LEMMA StartingTimer ==
  ASSUME TickInv, NEW w \in Worker, NEW s \in Source, NEW g, StartTick(w, s, g)
  PROVE  /\ \A v \in Worker : timer'[v] => timer[v] \/ closing[v] = "open"
         /\ \A v \in Worker : gateBusy'[v] => gateBusy[v] \/ v = w
<1>1. CASE ShouldReconcile(g)
  BY <1>1 DEF StartTick, TickInv, TickTypes
<1>2. CASE ~ShouldReconcile(g)
  BY <1>2, DrainingTimer DEF StartTick
<1> QED  BY <1>1, <1>2

\* A worker that ticks, or is open, is not closed.
LEMMA TicksKeepStopping ==
  ASSUME StopInv, NEW w \in Worker, closing[w] # "closed", UNCHANGED closing,
         \A v \in Worker : timer'[v] => timer[v] \/ closing[v] = "open",
         \A v \in Worker : gateBusy'[v] => gateBusy[v] \/ v = w
  PROVE  Stopping'
BY DEF StopInv, Stopping

LEMMA StopNext == StopInv /\ [Next]_vars => StopInv'
<1> SUFFICES ASSUME StopInv, [Next]_vars PROVE Stopping'
  BY TickNext DEF StopInv
<1>a. TickInv
  BY DEF StopInv
<1>1. ASSUME NEW w \in Worker, NEW s \in Source, Proceed(w, s) PROVE Stopping'
  <2>1. Ticking(w, s) /\ UNCHANGED closing
    BY <1>1 DEF Proceed, ReconcileBegin, ReconcileCommit, ReconcileThrow, DrainIteration,
                Fetch, StepCommit, StepThrow, MarkFailure, FailureMarked,
                BookkeepingThrow, Ticking
  <2>2. closing[w] # "closed"
    BY <2>1 DEF StopInv, Stopping, TickInv, OneTickAtATime
  <2>3. \/ UNCHANGED <<timer, gateBusy>>
        \/ \E g : DrainOrEnd(w, s, g) \/ EndTick(w, s, g)
    BY <1>1 DEF Proceed, ReconcileBegin, ReconcileCommit, ReconcileThrow, DrainIteration,
                Fetch, StepCommit, StepThrow, MarkFailure, FailureMarked,
                BookkeepingThrow
  <2>4. /\ \A v \in Worker : timer'[v] => timer[v] \/ closing[v] = "open"
        /\ \A v \in Worker : gateBusy'[v] => gateBusy[v] \/ v = w
    BY <1>a, <2>3, DrainingTimer, EndingTimer
  <2> QED  BY <2>1, <2>2, <2>4, TicksKeepStopping
<1>2. ASSUME NEW w \in Worker, NEW s \in Source, NEW g, closing[w] = "open",
             StartTick(w, s, g), UNCHANGED closing
      PROVE  Stopping'
  <2>1. /\ \A v \in Worker : timer'[v] => timer[v] \/ closing[v] = "open"
        /\ \A v \in Worker : gateBusy'[v] => gateBusy[v] \/ v = w
    BY <1>2, <1>a, StartingTimer
  <2> QED  BY <1>2, <2>1, TicksKeepStopping
<1>3. ASSUME NEW w \in Worker, ScheduledLoop(w) PROVE Stopping'
  BY <1>2, <1>3 DEF ScheduledLoop, StopInv, Stopping, Source
<1>4. ASSUME NEW w \in Worker, NEW r \in Run, Trigger(w, r) PROVE Stopping'
  <2>1. CASE closing[w] # "open" \/ gateBusy[w]
    BY <1>4, <2>1 DEF Trigger, StopInv, Stopping
  <2>2. CASE closing[w] = "open" /\ ~gateBusy[w]
    BY <1>2, <1>4, <2>2 DEF Trigger, Source
  <2> QED  BY <2>1, <2>2
<1>5. ASSUME NEW w \in Worker, Close(w) PROVE Stopping'
  <2>1. ~timer'[w] /\ (\A v \in Worker : v # w => timer'[v] = timer[v])
    BY <1>5, <1>a DEF Close, TickInv, TickTypes
  <2>2. \A v \in Worker : v # w => closing'[v] = closing[v]
    BY <1>5 DEF Close
  <2>3. closing'[w] = "closed" => ~gateBusy[w]
    <3>1. (\E s \in Source : Ticking(w, s)) => closing'[w] # "closed"
      BY <1>5 DEF Close
    <3> QED  BY <3>1, <1>a DEF TickInv, OneTickAtATime
  <2> QED  BY <1>5, <2>1, <2>2, <2>3 DEF Close, StopInv, Stopping
<1>6. ASSUME NEW w \in Worker, Closed(w) PROVE Stopping'
  <2>1. \A v \in Worker : v # w => closing'[v] = closing[v]
    BY <1>6 DEF Closed
  <2>2. closing'[w] = "closed" => ~gateBusy[w]
    <3>1. (\E s \in Source : Ticking(w, s)) => closing'[w] # "closed"
      BY <1>6 DEF Closed
    <3> QED  BY <3>1, <1>a DEF TickInv, OneTickAtATime
  <2>3. ~timer[w]
    BY <1>6 DEF Closed, StopInv, Stopping
  <2> QED  BY <1>6, <2>1, <2>2, <2>3 DEF Closed, StopInv, Stopping
<1>7. ASSUME UNCHANGED <<timer, gateBusy, closing>> PROVE Stopping'
  BY <1>7 DEF StopInv, Stopping
<1>8. ASSUME NEW w \in Worker, ReconcileSweepDue(w) \/ DrainSweepDue(w)
      PROVE  UNCHANGED <<timer, gateBusy, closing>>
  BY <1>8 DEF ReconcileSweepDue, DrainSweepDue
<1>9. ASSUME \/ \E r \in Run : Emit(r) \/ Wake(r) \/ BackoffOver(r)
             \/ ShutDown \/ ResumeTicks \/ UNCHANGED vars
      PROVE  UNCHANGED <<timer, gateBusy, closing>>
  BY <1>9 DEF Emit, Wake, BackoffOver, ShutDown, ResumeTicks, vars
<1> QED
  BY <1>1, <1>3, <1>4, <1>5, <1>6, <1>7, <1>8, <1>9 DEF Next

\* close() returns without a warning only when the worker is at rest for good: no
\* timer and no notification starts another tick of it.
THEOREM ClosedIsStopped == Spec => []ClosedMeansStopped
<1>1. Init => StopInv
  BY TickInit DEF Init, StopInv, Stopping
<1>2. StopInv => ClosedMeansStopped
  BY DEF StopInv, Stopping, TickInv, OneTickAtATime, ClosedMeansStopped
<1> QED  BY <1>1, StopNext, <1>2, PTL DEF Spec
-----------------------------------------------------------------------------
\* Signals.  A notification that was delivered is a mark on the gate or a quiet tail
\* that only skipped passes have shortened; a pass that did not see the message
\* when it began leaves the mark.
Tail(w) == gate[w].quietTicksRemaining + skips >= QUIET_TICKS

Signalled ==
    \A w \in Worker : \A r \in heard[w] :
        /\ row[r] = "emitted"
        /\ gate[w].dirtySignal \/ Tail(w)
        /\ \A s \in Source :
            tick[w][s].at = "reconciling" =>
                gate[w].dirtySignal \/ r \in tick[w][s].selection

SignalInv == TypeInv /\ Signalled

LEMMA SignalNumbers ==
  ASSUME TypeInv
  PROVE  skips \in Nat /\ \A w \in Worker : gate[w].quietTicksRemaining \in Nat
<1>1. skips \in Nat
  BY DEF TypeInv, DataTypes
<1>2. \A w \in Worker : gate[w].quietTicksRemaining \in 0..QUIET_TICKS
  BY DEF TypeInv, TickInv, TickTypes, Gate
<1> QED  BY <1>1, <1>2 DEF QUIET_TICKS

\* Steps that take no mark away, shorten no tail, and begin no pass.
LEMMA SignalStays ==
  ASSUME SignalInv, skips' = skips,
         \A w \in Worker : heard'[w] \subseteq heard[w],
         \A r \in Run : row[r] = "emitted" => row'[r] = "emitted",
         \A w \in Worker :
            /\ gate[w].dirtySignal => gate'[w].dirtySignal
            /\ gate'[w].quietTicksRemaining \in {gate[w].quietTicksRemaining, QUIET_TICKS},
         \A w \in Worker, s \in Source :
            tick'[w][s].at = "reconciling" => tick'[w][s] = tick[w][s]
  PROVE  Signalled'
<1> SUFFICES ASSUME NEW w \in Worker, NEW r \in heard'[w]
             PROVE  /\ row'[r] = "emitted"
                    /\ gate'[w].dirtySignal \/ Tail(w)'
                    /\ \A s \in Source :
                        tick'[w][s].at = "reconciling" =>
                            gate'[w].dirtySignal \/ r \in tick'[w][s].selection
  BY DEF Signalled
<1>1. r \in heard[w] /\ r \in Run
  BY DEF SignalInv, TypeInv, DataTypes
<1>2. skips \in Nat /\ gate[w].quietTicksRemaining \in Nat
  BY SignalNumbers DEF SignalInv
<1>3. row'[r] = "emitted"
  BY <1>1 DEF SignalInv, Signalled
<1>4. gate'[w].dirtySignal \/ Tail(w)'
  BY <1>1, <1>2 DEF SignalInv, Signalled, Tail, QUIET_TICKS
<1>5. \A s \in Source : tick'[w][s].at = "reconciling" =>
        gate'[w].dirtySignal \/ r \in tick'[w][s].selection
  BY <1>1 DEF SignalInv, Signalled
<1> QED  BY <1>3, <1>4, <1>5

\* A gate as far as the reconcile half is concerned.
SameSignal(g, h) ==
    /\ g.dirtySignal = h.dirtySignal
    /\ g.quietTicksRemaining = h.quietTicksRemaining

LEMMA DrainMethods ==
  ASSUME NEW g \in Gate, NEW some \in BOOLEAN
  PROVE  /\ SameSignal(AskedDrain(g), g)
         /\ SameSignal(DrainCompleted(g, some), g)
         /\ SameSignal(DrainFailed(g), g)
BY DEF SameSignal, Gate, AskedDrain, DrainCompleted, DrainFailed

\* The end of a tick, or its drain, puts the gate it is given in place.
LEMMA EndingSignal ==
  ASSUME TickInv, NEW w \in Worker, NEW s \in Source, NEW g \in Gate,
         EndTick(w, s, g) \/ DrainOrEnd(w, s, g)
  PROVE  /\ SameSignal(gate'[w], g)
         /\ \A v \in Worker : v # w => gate'[v] = gate[v]
         /\ \A v \in Worker, z \in Source :
                tick'[v][z].at = "reconciling" => tick'[v][z] = tick[v][z]
<1>1. SameSignal(AskedDrain(g), g) /\ SameSignal(g, g)
  BY DrainMethods DEF SameSignal
<1>2. gate' = [gate EXCEPT ![w] = g] \/ gate' = [gate EXCEPT ![w] = AskedDrain(g)]
  BY DEF DrainOrEnd, EndTick
<1>3. \E t \in {NoTick, [NoTick EXCEPT !.at = "draining"]} :
        tick' = [tick EXCEPT ![w][s] = t]
  BY DEF DrainOrEnd, EndTick
<1>4. gate \in [Worker -> Gate] /\ tick \in [Worker -> [Source -> Tick]]
  BY DEF TickInv, TickTypes
<1>5. SameSignal(gate'[w], g) /\ \A v \in Worker : v # w => gate'[v] = gate[v]
  BY <1>1, <1>2, <1>4
<1>6. \A v \in Worker, z \in Source :
        tick'[v][z].at = "reconciling" => tick'[v][z] = tick[v][z]
  <2>1. PICK t \in {NoTick, [NoTick EXCEPT !.at = "draining"]} :
          tick' = [tick EXCEPT ![w][s] = t]
    BY <1>3
  <2>2. t.at # "reconciling"
    BY DEF NoTick
  <2>3. \A v \in Worker, z \in Source :
          tick'[v][z] = IF v = w /\ z = s THEN t ELSE tick[v][z]
    BY <1>4, <2>1
  <2> QED  BY <2>2, <2>3
<1> QED  BY <1>5, <1>6

\* A tick that starts turns the mark of its gate into a full tail.
LEMMA StartingSignal ==
  ASSUME TickInv, NEW w \in Worker, NEW s \in Source, NEW g \in Gate,
         StartTick(w, s, g)
  PROVE  /\ IF g.dirtySignal THEN gate'[w].quietTicksRemaining = QUIET_TICKS
                             ELSE SameSignal(gate'[w], g)
         /\ \A v \in Worker : v # w => gate'[v] = gate[v]
         /\ \A v \in Worker, z \in Source :
                tick'[v][z].at = "reconciling" => tick'[v][z] = tick[v][z]
<1>1. AskedReconcile(g) \in Gate
  BY GateMethods
<1>2. IF g.dirtySignal THEN AskedReconcile(g).quietTicksRemaining = QUIET_TICKS
                       ELSE AskedReconcile(g) = g
  BY DEF AskedReconcile, Gate
<1>3. CASE ShouldReconcile(g)
  <2>1. gate \in [Worker -> Gate] /\ tick \in [Worker -> [Source -> Tick]]
    BY DEF TickInv, TickTypes
  <2>2. gate' = [gate EXCEPT ![w] = AskedReconcile(g)]
    BY <1>3 DEF StartTick
  <2>3. PICK t : t.at = "opening" /\ tick' = [tick EXCEPT ![w][s] = t]
    BY <1>3 DEF StartTick, NoTick
  <2>4. \A v \in Worker, z \in Source :
          tick'[v][z] = IF v = w /\ z = s THEN t ELSE tick[v][z]
    BY <2>1, <2>3
  <2> QED  BY <1>2, <2>1, <2>2, <2>3, <2>4 DEF SameSignal
<1>4. CASE ~ShouldReconcile(g)
  <2>1. DrainOrEnd(w, s, AskedReconcile(g))
    BY <1>4 DEF StartTick
  <2> QED  BY <1>1, <1>2, <2>1, EndingSignal DEF SameSignal
<1> QED  BY <1>3, <1>4
LEMMA StartingKeepsSignal ==
  ASSUME SignalInv, NEW w \in Worker, NEW s \in Source, ~gateBusy[w],
         StartTick(w, s, gate[w]) \/ StartTick(w, s, MarkDirty(gate[w])),
         UNCHANGED <<row, skips>>,
         \A v \in Worker : v # w => heard'[v] = heard[v],
         \A r \in heard'[w] :
            \/ r \in heard[w]
            \/ row[r] = "emitted" /\ StartTick(w, s, MarkDirty(gate[w]))
  PROVE  Signalled'
<1>a. TickInv /\ gate[w] \in Gate /\ MarkDirty(gate[w]) \in Gate
  BY GateMethods DEF SignalInv, TypeInv, TickInv, TickTypes
<1>b. MarkDirty(gate[w]).dirtySignal
  BY <1>a DEF MarkDirty, Gate
<1>1. \A v \in Worker : v # w => gate'[v] = gate[v]
  BY <1>a, StartingSignal
<1>2. \A v \in Worker, z \in Source :
        tick'[v][z].at = "reconciling" => tick'[v][z] = tick[v][z]
  BY <1>a, StartingSignal
<1>3. \A z \in Source : tick'[w][z].at # "reconciling"
  <2>1. \A z \in Source : tick[w][z].at = "none"
    BY <1>a DEF TickInv, OneTickAtATime, Ticking
  <2> QED  BY <1>2, <2>1
<1>4. StartTick(w, s, MarkDirty(gate[w])) => gate'[w].quietTicksRemaining = QUIET_TICKS
  BY <1>a, <1>b, StartingSignal
<1>5. StartTick(w, s, gate[w]) =>
        \/ gate'[w].quietTicksRemaining = QUIET_TICKS
        \/ SameSignal(gate'[w], gate[w])
  BY <1>a, StartingSignal
<1>6. skips' = skips /\ skips \in Nat
  BY SignalNumbers DEF SignalInv
<1>7. gate'[w].quietTicksRemaining = QUIET_TICKS => Tail(w)'
  BY <1>6 DEF Tail, QUIET_TICKS
<1>8. ASSUME NEW r \in heard'[w]
      PROVE  row'[r] = "emitted" /\ (gate'[w].dirtySignal \/ Tail(w)')
  <2>1. CASE gate'[w].quietTicksRemaining = QUIET_TICKS
    BY <1>7, <1>8, <2>1 DEF SignalInv, Signalled
  <2>2. CASE gate'[w].quietTicksRemaining # QUIET_TICKS
    <3>1. SameSignal(gate'[w], gate[w]) /\ r \in heard[w]
      BY <1>4, <1>5, <1>8, <2>2
    <3> QED  BY <1>6, <3>1 DEF SameSignal, SignalInv, Signalled, Tail
  <2> QED  BY <2>1, <2>2
<1>9. ASSUME NEW v \in Worker, v # w, NEW r \in heard'[v]
      PROVE  /\ row'[r] = "emitted"
             /\ gate'[v].dirtySignal \/ Tail(v)'
             /\ \A z \in Source : tick'[v][z].at = "reconciling" =>
                    gate'[v].dirtySignal \/ r \in tick'[v][z].selection
  <2>1. gate'[v] = gate[v] /\ heard'[v] = heard[v]
    BY <1>1, <1>9
  <2> QED  BY <1>2, <1>6, <1>9, <2>1 DEF SignalInv, Signalled, Tail
<1> QED  BY <1>3, <1>8, <1>9 DEF Signalled

\* A pass takes one from the tail, unless it started something; the message it
\* leaves behind is one whose row it skipped.
LEMMA CommitKeepsSignal ==
  ASSUME SignalInv, NEW w \in Worker, NEW s \in Source, ReconcileCommit(w, s)
  PROVE  Signalled'
<1> DEFINE selection == tick[w][s].selection
<1>a. TickInv /\ gate[w] \in Gate
  BY DEF SignalInv, TypeInv, TickInv, TickTypes
<1>1. PICK locked \in SUBSET {r \in selection : row[r] = "emitted"} :
        /\ skips' = IF locked = {} THEN skips ELSE skips + 1
        /\ LET started == {r \in selection \ locked : row[r] = "emitted"}
           IN  /\ row' = [r \in Run |-> IF r \in started THEN "due" ELSE row[r]]
               /\ heard' = [v \in Worker |-> heard[v] \ started]
               /\ DrainOrEnd(w, s, ReconcileSucceeded(gate[w], started # {}))
  BY DEF ReconcileCommit
<1> DEFINE started == {r \in selection \ locked : row[r] = "emitted"}
           g == ReconcileSucceeded(gate[w], started # {})
<1>2. g \in Gate
  BY <1>a, GateMethods
<1>3. /\ SameSignal(gate'[w], g)
      /\ \A v \in Worker : v # w => gate'[v] = gate[v]
      /\ \A v \in Worker, z \in Source :
            tick'[v][z].at = "reconciling" => tick'[v][z] = tick[v][z]
  BY <1>a, <1>1, <1>2, EndingSignal
<1>4. /\ g.dirtySignal = gate[w].dirtySignal
      /\ g.quietTicksRemaining \in {QUIET_TICKS, LessOne(gate[w].quietTicksRemaining)}
  BY <1>a DEF ReconcileSucceeded, Gate
<1>5. skips \in Nat /\ gate[w].quietTicksRemaining \in Nat
      /\ skips' \in {skips, skips + 1} /\ (skips' = skips => locked = {})
  <2>1. skips \in Nat /\ gate[w].quietTicksRemaining \in Nat
    BY SignalNumbers DEF SignalInv
  <2> QED  BY <1>1, <2>1
<1> SUFFICES ASSUME NEW v \in Worker, NEW r \in heard'[v]
             PROVE  /\ row'[r] = "emitted"
                    /\ gate'[v].dirtySignal \/ Tail(v)'
                    /\ \A z \in Source : tick'[v][z].at = "reconciling" =>
                            gate'[v].dirtySignal \/ r \in tick'[v][z].selection
  BY DEF Signalled
<1>6. r \in heard[v] /\ r \in Run /\ r \notin started
  BY <1>1 DEF SignalInv, TypeInv, DataTypes
<1>7. row[r] = "emitted" /\ row'[r] = "emitted"
  BY <1>1, <1>6 DEF SignalInv, Signalled
<1>8. gate'[v].dirtySignal = gate[v].dirtySignal
  BY <1>3, <1>4 DEF SameSignal
<1>9. \A z \in Source : tick'[v][z].at = "reconciling" =>
        gate'[v].dirtySignal \/ r \in tick'[v][z].selection
  BY <1>3, <1>6, <1>8 DEF SignalInv, Signalled
<1>10. ASSUME ~gate[v].dirtySignal PROVE Tail(v)'
  <2>1. gate[v].quietTicksRemaining + skips >= QUIET_TICKS
    BY <1>6, <1>10 DEF SignalInv, Signalled, Tail
  <2>2. gate[v].quietTicksRemaining \in Nat
    BY SignalNumbers DEF SignalInv
  <2>3. CASE v # w
    <3>1. gate'[v] = gate[v]
      BY <1>3, <2>3
    <3> QED  BY <1>5, <2>1, <2>2, <3>1 DEF Tail, QUIET_TICKS
  <2>4. CASE v = w
    <3>1. r \in selection
      BY <1>6, <1>10, <2>4 DEF ReconcileCommit, SignalInv, Signalled
    <3>2. r \in locked
      BY <1>6, <1>7, <3>1
    <3>3. skips' = skips + 1
      BY <1>5, <3>2
    <3>4. gate'[w].quietTicksRemaining
            \in {QUIET_TICKS, LessOne(gate[w].quietTicksRemaining)}
      BY <1>3, <1>4 DEF SameSignal
    <3> QED  BY <1>5, <2>1, <2>4, <3>3, <3>4 DEF Tail, LessOne, QUIET_TICKS
  <2> QED  BY <2>3, <2>4
<1> QED  BY <1>7, <1>8, <1>9, <1>10
\* The steps of a tick that touch neither its gate's reconcile half nor a selection.
LEMMA ProceedKeepsSignal ==
  ASSUME SignalInv, NEW w \in Worker, NEW s \in Source, Proceed(w, s)
  PROVE  Signalled'
<1>a. TickInv /\ gate[w] \in Gate /\ row \in [Run -> RowState]
  BY DEF SignalInv, TypeInv, TickInv, TickTypes, DataTypes
<1>1. CASE ReconcileCommit(w, s)
  BY <1>1, CommitKeepsSignal
<1>2. CASE ReconcileBegin(w, s)
  <2>1. \A v \in Worker, z \in Source :
          tick'[v][z].at = "reconciling" =>
            \/ tick'[v][z] = tick[v][z]
            \/ tick'[v][z].selection = {r \in Run : row[r] = "emitted"}
    BY <1>2, <1>a DEF ReconcileBegin, TickInv, TickTypes, Tick
  <2>2. UNCHANGED <<row, heard, gate, skips>>
    BY <1>2 DEF ReconcileBegin, Rows
  <2>3. \A v \in Worker : heard[v] \subseteq Run
    BY DEF SignalInv, TypeInv, DataTypes
  <2> QED  BY <2>1, <2>2, <2>3 DEF SignalInv, Signalled, Tail
<1>3. ASSUME NEW g \in Gate, EndTick(w, s, g), UNCHANGED <<heard, row, skips>>,
             g.dirtySignal = gate[w].dirtySignal,
             g.quietTicksRemaining \in {gate[w].quietTicksRemaining, QUIET_TICKS}
      PROVE  Signalled'
  <2>1. /\ SameSignal(gate'[w], g)
        /\ \A v \in Worker : v # w => gate'[v] = gate[v]
        /\ \A v \in Worker, z \in Source :
              tick'[v][z].at = "reconciling" => tick'[v][z] = tick[v][z]
    BY <1>3, <1>a, EndingSignal
  <2>2. \A v \in Worker :
          /\ gate[v].dirtySignal => gate'[v].dirtySignal
          /\ gate'[v].quietTicksRemaining \in {gate[v].quietTicksRemaining, QUIET_TICKS}
    BY <1>3, <2>1 DEF SameSignal
  <2> QED  BY <1>3, <2>1, <2>2, SignalStays
<1>4. CASE ReconcileThrow(w, s)
  <2> DEFINE g == DrainFailed(ReconcileFailed(gate[w]))
  <2>1. ReconcileFailed(gate[w]) \in Gate /\ g \in Gate
    BY <1>a, GateMethods
  <2>2. /\ g.dirtySignal = gate[w].dirtySignal
        /\ g.quietTicksRemaining = QUIET_TICKS
    <3>1. SameSignal(g, ReconcileFailed(gate[w]))
      BY <2>1, DrainMethods
    <3> QED  BY <1>a, <3>1 DEF SameSignal, ReconcileFailed, Gate
  <2>3. EndTick(w, s, g) /\ UNCHANGED <<heard, row, skips>>
    BY <1>4 DEF ReconcileThrow, Rows
  <2> HIDE DEF g
  <2> QED  BY <1>3, <2>1, <2>2, <2>3
<1>5. CASE FailureMarked(w, s) \/ BookkeepingThrow(w, s)
  <2>1. DrainFailed(gate[w]) \in Gate /\ SameSignal(DrainFailed(gate[w]), gate[w])
    BY <1>a, GateMethods, DrainMethods
  <2>2. EndTick(w, s, DrainFailed(gate[w])) /\ UNCHANGED <<heard, row, skips>>
    BY <1>5 DEF FailureMarked, BookkeepingThrow
  <2> QED  BY <1>3, <2>1, <2>2 DEF SameSignal
<1>6. ASSUME UNCHANGED <<heard, gate, skips>>,
             \A r \in Run : row[r] = "emitted" => row'[r] = "emitted",
             NEW t, t.at # "reconciling", tick' = [tick EXCEPT ![w][s] = t]
      PROVE  Signalled'
  <2>1. \A v \in Worker, z \in Source :
          tick'[v][z].at = "reconciling" => tick'[v][z] = tick[v][z]
    BY <1>6, <1>a DEF TickInv, TickTypes
  <2> QED  BY <1>6, <2>1, SignalStays
<1>7. CASE DrainIteration(w, s) \/ StepThrow(w, s) \/ MarkFailure(w, s)
  <2>1. UNCHANGED <<heard, gate, skips, row>>
    BY <1>7 DEF DrainIteration, StepThrow, MarkFailure, Rows
  <2>2. \E t : t.at # "reconciling" /\ tick' = [tick EXCEPT ![w][s] = t]
    <3>1. CASE DrainIteration(w, s)
      <4> DEFINE t == [tick[w][s] EXCEPT !.at = "fetching",
                                         !.selection = {r \in Run : Runnable(r)}]
      <4>1. tick' = [tick EXCEPT ![w][s] = t] /\ t.at # "reconciling"
        BY <3>1, <1>a DEF DrainIteration, TickInv, TickTypes, Tick
      <4> HIDE DEF t
      <4> QED  BY <4>1
    <3>2. CASE StepThrow(w, s)
      <4> DEFINE t == [tick[w][s] EXCEPT !.at = "failing"]
      <4>1. tick' = [tick EXCEPT ![w][s] = t] /\ t.at # "reconciling"
        BY <3>2, <1>a DEF StepThrow, TickInv, TickTypes, Tick
      <4> HIDE DEF t
      <4> QED  BY <4>1
    <3>3. CASE MarkFailure(w, s)
      <4> DEFINE t == [tick[w][s] EXCEPT !.at = "marking"]
      <4>1. tick' = [tick EXCEPT ![w][s] = t] /\ t.at # "reconciling"
        BY <3>3, <1>a DEF MarkFailure, TickInv, TickTypes, Tick
      <4> HIDE DEF t
      <4> QED  BY <4>1
    <3> QED  BY <1>7, <3>1, <3>2, <3>3
  <2> QED  BY <1>6, <2>1, <2>2
<1>8. CASE Fetch(w, s)
  <2>1. UNCHANGED <<heard, skips, row>> /\ tick[w][s].resumed \in BOOLEAN
    BY <1>8, <1>a DEF Fetch, Rows, TickInv, TickTypes, Tick
  <2>2. CASE \E some \in BOOLEAN : EndTick(w, s, DrainCompleted(gate[w], some))
    <3>1. PICK some \in BOOLEAN : EndTick(w, s, DrainCompleted(gate[w], some))
      BY <2>2
    <3>2. /\ DrainCompleted(gate[w], some) \in Gate
          /\ SameSignal(DrainCompleted(gate[w], some), gate[w])
      BY <1>a, GateMethods, DrainMethods
    <3> QED  BY <1>3, <2>1, <3>1, <3>2 DEF SameSignal
  <2>3. CASE ~ \E some \in BOOLEAN : EndTick(w, s, DrainCompleted(gate[w], some))
    <3>1. PICK r :
            /\ tick' = [tick EXCEPT ![w][s] =
                  [@ EXCEPT !.at = "resuming", !.on = r, !.resumed = TRUE,
                            !.selection = {}]]
            /\ UNCHANGED gate
      BY <1>8, <2>1, <2>3 DEF Fetch
    <3> DEFINE t == [tick[w][s] EXCEPT !.at = "resuming", !.on = r, !.resumed = TRUE,
                                       !.selection = {}]
    <3>2. tick' = [tick EXCEPT ![w][s] = t] /\ t.at # "reconciling"
      BY <3>1, <1>a DEF TickInv, TickTypes, Tick
    <3> HIDE DEF t
    <3> QED  BY <1>6, <2>1, <3>1, <3>2
  <2> QED  BY <2>2, <2>3
<1>9. CASE StepCommit(w, s)
  <2> DEFINE t == [tick[w][s] EXCEPT !.at = "draining", !.on = NoRun]
  <2>1. tick' = [tick EXCEPT ![w][s] = t] /\ t.at # "reconciling"
    BY <1>9, <1>a DEF StepCommit, TickInv, TickTypes, Tick
  <2>2. \A r \in Run : row[r] = "emitted" => row'[r] = "emitted"
    <3>1. tick[w][s].on \in Run
      BY <1>9 DEF StepCommit, SignalInv, TypeInv, Resuming, OnRun
    <3>2. row[tick[w][s].on] # "emitted"
      BY <3>1 DEF SignalInv, TypeInv, ResumedIsReady, Runnable
    <3> QED  BY <1>9, <3>2, <1>a DEF StepCommit
  <2>3. UNCHANGED <<heard, gate, skips>>
    BY <1>9 DEF StepCommit
  <2> HIDE DEF t
  <2> QED  BY <1>6, <2>1, <2>2, <2>3
<1> QED
  BY <1>1, <1>2, <1>4, <1>5, <1>7, <1>8, <1>9 DEF Proceed

LEMMA SignalNext == SignalInv /\ [Next]_vars => SignalInv'
<1> SUFFICES ASSUME SignalInv, [Next]_vars PROVE Signalled'
  BY TypeNext DEF SignalInv
<1>a. /\ TickInv /\ row \in [Run -> RowState]
      /\ gate \in [Worker -> Gate] /\ heard \in [Worker -> SUBSET Run]
  BY DEF SignalInv, TypeInv, TickInv, TickTypes, DataTypes
<1>1. ASSUME NEW w \in Worker, NEW s \in Source, Proceed(w, s) PROVE Signalled'
  BY <1>1, ProceedKeepsSignal
<1>2. ASSUME NEW w \in Worker, ScheduledLoop(w) PROVE Signalled'
  BY <1>2, StartingKeepsSignal DEF ScheduledLoop, Rows, Source
<1>3. ASSUME NEW w \in Worker, NEW r \in Run, Trigger(w, r) PROVE Signalled'
  <2>1. UNCHANGED <<row, skips>>
    BY <1>3 DEF Trigger, Rows
  <2>2. /\ \A v \in Worker : v # w => heard'[v] = heard[v]
        /\ \A q \in heard'[w] : q \in heard[w] \/ row[q] = "emitted"
    BY <1>3, <1>a DEF Trigger
  <2>3. CASE closing[w] # "open" \/ gateBusy[w]
    <3>1. gate' = [gate EXCEPT ![w] = MarkDirty(@)] /\ UNCHANGED tick
      BY <1>3, <2>3 DEF Trigger
    <3>2. MarkDirty(gate[w]).dirtySignal
      BY <1>a DEF MarkDirty, Gate
    <3>3. gate'[w].dirtySignal /\ \A v \in Worker : v # w => gate'[v] = gate[v]
      BY <1>a, <3>1, <3>2
    <3>4. \A v \in Worker : v # w => Tail(v)' = Tail(v)
      BY <2>1, <3>3 DEF Tail
    <3>5. ASSUME NEW q \in heard'[w] PROVE row'[q] = "emitted"
      BY <2>1, <2>2 DEF SignalInv, Signalled
    <3>6. ASSUME NEW v \in Worker, v # w, NEW q \in heard'[v]
          PROVE  /\ row'[q] = "emitted"
                 /\ gate'[v].dirtySignal \/ Tail(v)'
                 /\ \A s \in Source : tick'[v][s].at = "reconciling" =>
                        gate'[v].dirtySignal \/ q \in tick'[v][s].selection
      BY <2>1, <2>2, <3>1, <3>3, <3>4, <3>6 DEF SignalInv, Signalled
    <3> QED  BY <3>3, <3>5, <3>6 DEF Signalled
  <2>4. CASE closing[w] = "open" /\ ~gateBusy[w]
    <3>1. StartTick(w, "trigger", MarkDirty(gate[w]))
      BY <1>3, <2>4 DEF Trigger
    <3> QED  BY <2>1, <2>2, <2>4, <3>1, StartingKeepsSignal DEF Source
  <2> QED  BY <2>3, <2>4
<1>4. ASSUME UNCHANGED <<tick, skips, heard>>,
             \A r \in Run : row[r] = "emitted" => row'[r] = "emitted",
             \A w \in Worker : SameSignal(gate'[w], gate[w])
      PROVE  Signalled'
  BY <1>4, SignalStays DEF SameSignal
<1>5. ASSUME NEW w \in Worker, ReconcileSweepDue(w) \/ DrainSweepDue(w)
      PROVE  Signalled'
  <2>1. \A v \in Worker : SameSignal(gate'[v], gate[v])
    BY <1>5, <1>a DEF ReconcileSweepDue, DrainSweepDue, SameSignal, Gate
  <2> QED  BY <1>4, <1>5, <2>1 DEF ReconcileSweepDue, DrainSweepDue, Rows
<1>6. ASSUME UNCHANGED <<tick, skips, heard, gate>>,
             \A r \in Run : row[r] = "emitted" => row'[r] = "emitted"
      PROVE  Signalled'
  BY <1>4, <1>6 DEF SameSignal
<1>7. ASSUME NEW r \in Run, Emit(r) \/ Wake(r) \/ BackoffOver(r) PROVE Signalled'
  <2>1. \A q \in Run : row[q] = "emitted" => row'[q] = "emitted"
    BY <1>7, <1>a DEF Emit, Wake, BackoffOver
  <2> QED  BY <1>6, <1>7, <2>1 DEF Emit, Wake, BackoffOver
<1>8. ASSUME \/ \E w \in Worker : Close(w) \/ Closed(w)
             \/ ShutDown \/ ResumeTicks \/ UNCHANGED vars
      PROVE  Signalled'
  <2>1. UNCHANGED <<tick, skips, heard, gate, row>>
    BY <1>8 DEF Close, Closed, ShutDown, ResumeTicks, vars, Rows
  <2> QED  BY <1>6, <2>1
<1> QED
  BY <1>1, <1>2, <1>3, <1>5, <1>7, <1>8 DEF Next

\* A notification that reached a worker is not lost: as long as fewer passes than
\* the quiet tail has find a row locked, the worker has a pass to come that does not
\* wait for the safety net, for every number of workers, messages and failures.
THEOREM SignalIsKept ==
  ASSUME MaxSkips < QUIET_TICKS
  PROVE  Spec => []SignalKept
<1>1. Init => SignalInv
  BY TypeInit DEF Init, SignalInv, Signalled
<1>2. SignalInv => SignalKept
  <2> SUFFICES ASSUME SignalInv, NEW w \in Worker, ~gate[w].dirtySignal, Tail(w)
               PROVE  gate[w].quietTicksRemaining > 0
    BY DEF SignalInv, Signalled, SignalKept
  <2>1. skips \in 0..MaxSkips /\ gate[w].quietTicksRemaining \in Nat
    BY SignalNumbers DEF SignalInv, TypeInv, DataTypes
  <2> QED  BY <2>1, TickLoopAssumption DEF Tail, QUIET_TICKS
<1> QED  BY <1>1, SignalNext, <1>2, PTL DEF Spec

-----------------------------------------------------------------------------
\* A run that is ready has a worker that will come by.

\* The gate lets the next drain through without waiting for a sweep.
Alert(g) == g.drainDirtySignal \/ g.drainQuietTicksRemaining > 0

\* w has a drain to come after all that anybody executed so far, or one in
\* progress whose first query saw r and only runs that still are ready.
Watching(w, r) ==
    \/ gate[w].drainDirtySignal
    \/ \E s \in Source : tick[w][s].resumed
    \/ /\ gate[w].drainQuietTicksRemaining > 0
       /\ \A s \in Source : tick[w][s].at = "fetching" =>
            /\ r \in tick[w][s].selection
            /\ \A q \in tick[w][s].selection : Runnable(q)

Watched ==
    \A r \in Run : row[r] = "due" /\ ~Held(r) => \E w \in Worker : Watching(w, r)

\* A drain remembers that it resumed something, to its end and no longer.
Carrying ==
    \A w \in Worker, s \in Source :
        /\ tick[w][s].at \in OnRun => tick[w][s].resumed
        /\ tick[w][s].resumed => tick[w][s].at \in OnRun \cup {"draining", "fetching"}

\* The inductive invariant: a drain that found only runs that are held or no
\* longer ready is not the last one, because whoever held them goes on.
WatchInv == TypeInv /\ Carrying /\ Watched

LEMMA AlertMethods ==
  ASSUME NEW g \in Gate, NEW some \in BOOLEAN
  PROVE  /\ Alert(MarkDirty(g))
         /\ Alert(g) => Alert(AskedReconcile(g)) /\ Alert(AskedDrain(g)) /\ ShouldDrain(g)
         /\ Alert(g) \/ some => Alert(ReconcileSucceeded(g, some))
         /\ Alert(DrainFailed(g))
         /\ some => Alert(DrainCompleted(g, some))
         /\ g.drainDirtySignal => Alert(DrainCompleted(g, some))
         /\ DrainFailed(ReconcileFailed(g)) = ReconcileFailed(g)
<1>1. g.drainQuietTicksRemaining \in {0, 1}
  BY DEF Gate, DRAIN_QUIET_TICKS
<1>2. Alert(MarkDirty(g))
  <2>1. MarkDirty(g).drainDirtySignal
    BY DEF Gate, MarkDirty
  <2> QED
    BY <2>1 DEF Alert
<1>3. ASSUME Alert(g) PROVE Alert(AskedReconcile(g)) /\ Alert(AskedDrain(g)) /\ ShouldDrain(g)
  <2>1. /\ AskedReconcile(g).drainDirtySignal = g.drainDirtySignal
        /\ AskedReconcile(g).drainQuietTicksRemaining = g.drainQuietTicksRemaining
    BY DEF Gate, AskedReconcile
  <2>2. AskedDrain(g).drainQuietTicksRemaining > 0
    BY <1>1, <1>3 DEF Alert, Gate, AskedDrain, DRAIN_QUIET_TICKS
  <2> QED
    BY <1>3, <2>1, <2>2 DEF Alert, ShouldDrain
<1>4. ASSUME Alert(g) \/ some PROVE Alert(ReconcileSucceeded(g, some))
  <2>1. /\ ReconcileSucceeded(g, some).drainDirtySignal = g.drainDirtySignal
        /\ ReconcileSucceeded(g, some).drainQuietTicksRemaining =
              IF some THEN 1 ELSE g.drainQuietTicksRemaining
    BY DEF Gate, ReconcileSucceeded, DRAIN_QUIET_TICKS
  <2> QED
    BY <1>4, <2>1 DEF Alert
<1>5. Alert(DrainFailed(g))
  <2>1. DrainFailed(g).drainQuietTicksRemaining = 1
    BY DEF Gate, DrainFailed, DRAIN_QUIET_TICKS
  <2> QED
    BY <2>1 DEF Alert
<1>6. ASSUME some PROVE Alert(DrainCompleted(g, some))
  <2>1. DrainCompleted(g, some).drainQuietTicksRemaining = 1
    BY <1>6 DEF Gate, DrainCompleted, DRAIN_QUIET_TICKS
  <2> QED
    BY <2>1 DEF Alert
<1>7. g.drainDirtySignal => Alert(DrainCompleted(g, some))
  <2>1. DrainCompleted(g, some).drainDirtySignal = g.drainDirtySignal
    BY DEF Gate, DrainCompleted
  <2> QED
    BY <2>1 DEF Alert
<1>8. DrainFailed(ReconcileFailed(g)) = ReconcileFailed(g)
  BY DEF Gate, DrainFailed, ReconcileFailed
<1> QED
  BY <1>2, <1>3, <1>4, <1>5, <1>6, <1>7, <1>8

\* The other source of a worker whose tick it is has none.
LEMMA OtherSource ==
  ASSUME TypeInv, NEW w \in Worker, NEW s \in Source, Ticking(w, s) \/ ~gateBusy[w],
         NEW z \in Source, z # s
  PROVE  tick[w][z].at = "none"
BY DEF TypeInv, TickInv, OneTickAtATime, Ticking, Source

LEMMA EndsAlert ==
  ASSUME TypeInv, Carrying, NEW w \in Worker, NEW s \in Source, NEW g \in Gate,
         Ticking(w, s) \/ ~gateBusy[w], EndTick(w, s, g), Alert(g)
  PROVE  \A r \in Run : Watching(w, r)'
<1>1. gate'[w] = g /\ tick'[w][s] = NoTick /\ \A z \in Source : z # s => tick'[w][z] = tick[w][z]
  BY DEF TypeInv, TickInv, TickTypes, EndTick
<1>2. \A z \in Source : tick'[w][z].at # "fetching"
  BY <1>1, OtherSource DEF NoTick
<1> QED
  BY <1>1, <1>2 DEF Alert, Watching

LEMMA DrainsAlert ==
  ASSUME TypeInv, Carrying, NEW w \in Worker, NEW s \in Source, NEW g \in Gate,
         Ticking(w, s) \/ ~gateBusy[w], DrainOrEnd(w, s, g), Alert(g)
  PROVE  \A r \in Run : Watching(w, r)'
<1>1. ShouldDrain(g) /\ Alert(AskedDrain(g))
  BY AlertMethods
<1>2. /\ gate'[w] = AskedDrain(g) /\ tick'[w][s] = [NoTick EXCEPT !.at = "draining"]
      /\ \A z \in Source : z # s => tick'[w][z] = tick[w][z]
  BY <1>1 DEF TypeInv, TickInv, TickTypes, DrainOrEnd
<1>3. \A z \in Source : tick'[w][z].at # "fetching"
  BY <1>2, OtherSource DEF NoTick
<1>4. gate'[w].drainDirtySignal \/ gate'[w].drainQuietTicksRemaining > 0
  BY <1>1, <1>2 DEF Alert
<1> QED
  BY <1>3, <1>4 DEF Watching

LEMMA StartsAlert ==
  ASSUME TypeInv, Carrying, NEW w \in Worker, NEW s \in Source, NEW g \in Gate,
         ~gateBusy[w], StartTick(w, s, g), Alert(g)
  PROVE  \A r \in Run : Watching(w, r)'
<1>1. Alert(AskedReconcile(g)) /\ AskedReconcile(g) \in Gate
  BY AlertMethods, GateMethods
<1>2. CASE ShouldReconcile(g)
  <2>1. /\ gate'[w] = AskedReconcile(g) /\ tick'[w][s] = [NoTick EXCEPT !.at = "opening"]
        /\ \A z \in Source : z # s => tick'[w][z] = tick[w][z]
    <3>1. /\ gate' = [gate EXCEPT ![w] = AskedReconcile(g)]
          /\ tick' = [tick EXCEPT ![w][s] = [NoTick EXCEPT !.at = "opening"]]
      BY <1>2 DEF StartTick
    <3> QED
      BY <3>1 DEF TypeInv, TickInv, TickTypes
  <2>2. \A z \in Source : tick'[w][z].at # "fetching"
    BY <2>1, OtherSource DEF NoTick
  <2>3. gate'[w].drainDirtySignal \/ gate'[w].drainQuietTicksRemaining > 0
    BY <1>1, <2>1 DEF Alert
  <2> QED
    BY <2>2, <2>3 DEF Watching
<1>3. CASE ~ShouldReconcile(g)
  BY <1>1, <1>3, DrainsAlert DEF StartTick
<1> QED
  BY <1>2, <1>3

\* A worker that is not on a run it resumed watches because its gate is alert.
LEMMA WatchingAlert ==
  ASSUME TypeInv, Carrying, NEW w \in Worker, NEW r, Watching(w, r),
         \A s \in Source : ~tick[w][s].resumed
  PROVE  Alert(gate[w])
BY DEF Watching, Alert

\* A tick that resumes, fails or marks watches, and so does what it becomes.
LEMMA OnRunWatches ==
  ASSUME TypeInv, Carrying, NEW w \in Worker, NEW s \in Source,
         \/ StepCommit(w, s) \/ StepThrow(w, s) \/ MarkFailure(w, s)
         \/ FailureMarked(w, s) \/ BookkeepingThrow(w, s)
  PROVE  \A r \in Run : Watching(w, r)'
<1>1. tick[w][s].at \in OnRun /\ Ticking(w, s) /\ tick[w][s].resumed
  BY DEF StepCommit, StepThrow, MarkFailure, FailureMarked, BookkeepingThrow, OnRun,
         Ticking, Carrying
<1>2. tick \in [Worker -> [Source -> Tick]] /\ gate[w] \in Gate
  BY DEF TypeInv, TickInv, TickTypes
<1>3. CASE FailureMarked(w, s) \/ BookkeepingThrow(w, s)
  <2>1. EndTick(w, s, DrainFailed(gate[w]))
    BY <1>3 DEF FailureMarked, BookkeepingThrow
  <2> QED
    BY <1>1, <1>2, <2>1, AlertMethods, GateMethods, EndsAlert
<1>4. CASE StepCommit(w, s) \/ StepThrow(w, s) \/ MarkFailure(w, s)
  <2>1. PICK t \in Tick : t = tick[w][s] /\ t.resumed
    BY <1>1, <1>2
  <2>2. \/ tick'[w][s] = [[t EXCEPT !.at = "draining"] EXCEPT !.on = NoRun]
        \/ tick'[w][s] = [t EXCEPT !.at = "failing"]
        \/ tick'[w][s] = [t EXCEPT !.at = "marking"]
    BY <1>2, <1>4, <2>1 DEF StepCommit, StepThrow, MarkFailure
  <2>3. tick'[w][s].resumed
    BY <2>1, <2>2 DEF Tick
  <2> QED
    BY <2>3 DEF Watching
<1> QED
  BY <1>3, <1>4

\* A worker that watches over a free run that is due still does when it moves.
LEMMA FetchWatches ==
  ASSUME TypeInv, Carrying, NEW w \in Worker, NEW s \in Source, Fetch(w, s),
         NEW r \in Run, ~Held(r), Watching(w, r)
  PROVE  Watching(w, r)'
<1>1. tick \in [Worker -> [Source -> Tick]] /\ gate[w] \in Gate
  BY DEF TypeInv, TickInv, TickTypes
<1>2. Ticking(w, s) /\ tick[w][s].at = "fetching"
  BY DEF Fetch, Ticking
<1>3. \A z \in Source : z # s => ~tick[w][z].resumed
  BY <1>2, OtherSource DEF Carrying, OnRun
<1>4. CASE tick'[w][s].resumed
  BY <1>4 DEF Watching
<1>5. ASSUME NEW some \in BOOLEAN, EndTick(w, s, DrainCompleted(gate[w], some)),
             some \/ gate[w].drainDirtySignal
      PROVE  Watching(w, r)'
  <2>1. Alert(DrainCompleted(gate[w], some))
    BY <1>1, <1>5, AlertMethods
  <2> QED
    BY <1>1, <1>2, <1>5, <2>1, EndsAlert, GateMethods
<1>6. PICK resumed \in BOOLEAN : resumed = tick[w][s].resumed
  BY <1>1 DEF Tick
<1>7. resumed \/ gate[w].drainDirtySignal \/
        (r \in tick[w][s].selection /\ \A q \in tick[w][s].selection : Runnable(q))
  BY <1>2, <1>3, <1>6 DEF Watching
<1>8. CASE EndTick(w, s, DrainCompleted(gate[w], TRUE))
  BY <1>5, <1>8
<1>9. CASE EndTick(w, s, DrainCompleted(gate[w], resumed)) /\
             (resumed \/ gate[w].drainDirtySignal)
  BY <1>5, <1>9
<1>10. ASSUME NEW q \in Run,
              tick' = [tick EXCEPT ![w][s] =
                [@ EXCEPT !.at = "resuming", !.on = q, !.resumed = TRUE, !.selection = {}]]
       PROVE  tick'[w][s].resumed
  <2>1. PICK t \in Tick : t = tick[w][s]
    BY <1>1
  <2>2. tick'[w][s] = [t EXCEPT !.at = "resuming", !.on = q, !.resumed = TRUE, !.selection = {}]
    BY <1>1, <1>10, <2>1
  <2> QED
    BY <2>1, <2>2 DEF Tick
<1>11. tick[w][s].selection \subseteq Run
  BY <1>1 DEF Tick
<1> QED
  BY <1>4, <1>6, <1>7, <1>8, <1>9, <1>10, <1>11 DEF Fetch

LEMMA MoverKeeps ==
  ASSUME TypeInv, Carrying, NEW w \in Worker, NEW s \in Source, Proceed(w, s),
         NEW r \in Run, row[r] = "due", ~Held(r), Watching(w, r)
  PROVE  Watching(w, r)'
<1>1. tick \in [Worker -> [Source -> Tick]] /\ gate[w] \in Gate
  BY DEF TypeInv, TickInv, TickTypes
<1>2. CASE ReconcileBegin(w, s)
  <2>1. PICK t \in Tick : t = tick[w][s]
    BY <1>1
  <2>2. /\ tick'[w][s] = [t EXCEPT !.at = "reconciling",
                                   !.selection = {q \in Run : row[q] = "emitted"}]
        /\ \A z \in Source : z # s => tick'[w][z] = tick[w][z]
        /\ gate' = gate /\ UNCHANGED row
    BY <1>1, <1>2, <2>1 DEF ReconcileBegin, Rows
  <2>3. tick'[w][s].at = "reconciling" /\ tick'[w][s].resumed = tick[w][s].resumed
    BY <2>1, <2>2 DEF Tick
  <2> QED
    BY <2>2, <2>3 DEF Watching, Runnable
<1>3. CASE ReconcileCommit(w, s)
  <2>1. Ticking(w, s) /\ tick[w][s].at = "reconciling"
    BY <1>3 DEF ReconcileCommit, Ticking
  <2>2. \A z \in Source : ~tick[w][z].resumed
    BY <2>1, OtherSource DEF Carrying, OnRun
  <2>3. Alert(gate[w])
    BY <2>2, WatchingAlert
  <2>4. PICK some \in BOOLEAN : DrainOrEnd(w, s, ReconcileSucceeded(gate[w], some))
    BY <1>3 DEF ReconcileCommit
  <2>5. Alert(ReconcileSucceeded(gate[w], some)) /\ ReconcileSucceeded(gate[w], some) \in Gate
    BY <1>1, <2>3, AlertMethods, GateMethods
  <2> QED
    BY <2>1, <2>4, <2>5, DrainsAlert
<1>4. CASE ReconcileThrow(w, s)
  <2>1. Ticking(w, s) /\ EndTick(w, s, DrainFailed(ReconcileFailed(gate[w])))
    BY <1>4 DEF ReconcileThrow, Ticking
  <2>2. ReconcileFailed(gate[w]) \in Gate
    BY <1>1, GateMethods
  <2>3. DrainFailed(ReconcileFailed(gate[w])) \in Gate /\ Alert(DrainFailed(ReconcileFailed(gate[w])))
    BY <2>2, AlertMethods, GateMethods
  <2> QED
    BY <2>1, <2>3, EndsAlert
<1>5. CASE DrainIteration(w, s)
  <2>1. PICK t \in Tick : t = tick[w][s]
    BY <1>1
  <2>2. /\ tick'[w][s] = [t EXCEPT !.at = "fetching", !.selection = {q \in Run : Runnable(q)}]
        /\ \A z \in Source : z # s => tick'[w][z] = tick[w][z]
        /\ gate' = gate /\ row' = row
        /\ Ticking(w, s)
    BY <1>1, <1>5, <2>1 DEF DrainIteration, Rows, Ticking
  <2>3. /\ tick'[w][s].selection = {q \in Run : Runnable(q)}
        /\ tick'[w][s].resumed = tick[w][s].resumed
    BY <2>1, <2>2 DEF Tick
  <2>4. \A z \in Source : z # s => tick[w][z].at = "none"
    BY <2>2, OtherSource
  <2>5. \A z \in Source : tick'[w][z].at = "fetching" =>
            r \in tick'[w][z].selection /\ \A q \in tick'[w][z].selection : Runnable(q)'
    BY <2>2, <2>3, <2>4 DEF Runnable
  <2>6. \/ gate'[w].drainDirtySignal
        \/ \E z \in Source : tick'[w][z].resumed
        \/ gate'[w].drainQuietTicksRemaining > 0
    BY <2>2, <2>3 DEF Watching
  <2> QED
    BY <2>5, <2>6 DEF Watching
<1>6. CASE Fetch(w, s)
  BY <1>6, FetchWatches
<1>7. CASE \/ StepCommit(w, s) \/ StepThrow(w, s) \/ MarkFailure(w, s)
           \/ FailureMarked(w, s) \/ BookkeepingThrow(w, s)
  BY <1>7, OnRunWatches
<1> QED
  BY <1>2, <1>3, <1>4, <1>5, <1>6, <1>7 DEF Proceed

\* The pass that starts a run arms the drain of its own tick.
LEMMA StarterWatches ==
  ASSUME TypeInv, Carrying, NEW w \in Worker, NEW s \in Source, ReconcileCommit(w, s),
         NEW r \in Run, row[r] # "due", row'[r] = "due"
  PROVE  Watching(w, r)'
<1>1. gate[w] \in Gate /\ Ticking(w, s)
  BY DEF TypeInv, TickInv, TickTypes, ReconcileCommit, Ticking
<1>2. DrainOrEnd(w, s, ReconcileSucceeded(gate[w], TRUE))
  <2>1. PICK started \in SUBSET Run :
          /\ row' = [q \in Run |-> IF q \in started THEN "due" ELSE row[q]]
          /\ DrainOrEnd(w, s, ReconcileSucceeded(gate[w], started # {}))
    <3>1. tick[w][s].selection \subseteq Run
      BY DEF TypeInv, TickInv, TickTypes, Tick
    <3> QED
      BY <3>1 DEF ReconcileCommit
  <2>2. (started # {}) = TRUE
    BY <2>1
  <2> QED
    BY <2>1, <2>2
<1>3. Alert(ReconcileSucceeded(gate[w], TRUE)) /\ ReconcileSucceeded(gate[w], TRUE) \in Gate
  BY <1>1, AlertMethods, GateMethods
<1> QED
  BY <1>1, <1>2, <1>3, DrainsAlert

\* A tick that goes on keeps its mark, and is on a run only with it.
LEMMA OnCarries ==
  ASSUME TypeInv, Carrying, NEW w \in Worker, NEW s \in Source, NEW t,
         tick' = [tick EXCEPT ![w][s] = t],
         t.at \in OnRun => t.resumed,
         t.resumed => t.at \in OnRun \cup {"draining", "fetching"}
  PROVE  Carrying'
<1>1. /\ \A v \in Worker, z \in Source : ~(v = w /\ z = s) => tick'[v][z] = tick[v][z]
      /\ tick'[w][s] = t
  BY DEF TypeInv, TickInv, TickTypes
<1> QED
  BY <1>1 DEF Carrying

\* What a tick is when it starts, ends or goes on to its drain has resumed nothing.
LEMMA EndCarries ==
  ASSUME TypeInv, Carrying, NEW w \in Worker, NEW s \in Source, NEW g \in Gate,
         EndTick(w, s, g) \/ DrainOrEnd(w, s, g) \/ StartTick(w, s, g)
  PROVE  Carrying'
<1>1. tick \in [Worker -> [Source -> Tick]]
  BY DEF TypeInv, TickInv, TickTypes
<1>2. PICK t : /\ tick' = [tick EXCEPT ![w][s] = t]
               /\ t.at \in {"none", "draining", "opening"} /\ ~t.resumed
  <2>1. \/ tick' = [tick EXCEPT ![w][s] = NoTick]
        \/ tick' = [tick EXCEPT ![w][s] = [NoTick EXCEPT !.at = "draining"]]
        \/ tick' = [tick EXCEPT ![w][s] = [NoTick EXCEPT !.at = "opening"]]
    BY DEF EndTick, DrainOrEnd, StartTick
  <2>2. /\ NoTick.at = "none" /\ ~NoTick.resumed
        /\ \A at : [NoTick EXCEPT !.at = at].at = at /\ ~[NoTick EXCEPT !.at = at].resumed
    BY DEF NoTick
  <2> QED
    BY <2>1, <2>2
<1>3. t.at \notin OnRun
  BY <1>2 DEF OnRun
<1> QED
  BY <1>2, <1>3, OnCarries

LEMMA CarryingNext ==
  ASSUME TypeInv, Carrying, [Next]_vars
  PROVE  Carrying'
<1>1. /\ tick \in [Worker -> [Source -> Tick]]
      /\ \A v \in Worker : gate[v] \in Gate
  BY DEF TypeInv, TickInv, TickTypes
<1>2. ASSUME NEW w \in Worker, NEW s \in Source, Proceed(w, s) PROVE Carrying'
  <2>1. PICK t \in Tick : t = tick[w][s]
    BY <1>1
  <2>2. /\ t.at \in OnRun => t.resumed
        /\ t.resumed => t.at \in OnRun \cup {"draining", "fetching"}
    BY <2>1 DEF Carrying
  <2>3. CASE ReconcileBegin(w, s)
    <3>1. PICK u : u = [t EXCEPT !.at = "reconciling",
                                 !.selection = {r \in Run : row[r] = "emitted"}]
      OBVIOUS
    <3>2. tick' = [tick EXCEPT ![w][s] = u] /\ t.at = "opening"
      BY <2>1, <2>3, <3>1 DEF ReconcileBegin
    <3>3. ~u.resumed /\ u.at = "reconciling"
      BY <2>2, <3>1, <3>2 DEF Tick, OnRun
    <3> QED
      BY <3>2, <3>3, OnCarries DEF OnRun
  <2>4. CASE DrainIteration(w, s)
    <3>1. PICK u : u = [t EXCEPT !.at = "fetching", !.selection = {r \in Run : Runnable(r)}]
      OBVIOUS
    <3>2. tick' = [tick EXCEPT ![w][s] = u]
      BY <2>1, <2>4, <3>1 DEF DrainIteration
    <3>3. u.at = "fetching"
      BY <3>1 DEF Tick
    <3> QED
      BY <3>2, <3>3, OnCarries DEF OnRun
  <2>5. CASE StepCommit(w, s)
    <3>1. PICK u : u = [t EXCEPT !.at = "draining", !.on = NoRun]
      OBVIOUS
    <3>2. tick' = [tick EXCEPT ![w][s] = u]
      BY <2>1, <2>5, <3>1 DEF StepCommit
    <3>3. u.at = "draining"
      BY <3>1 DEF Tick
    <3> QED
      BY <3>2, <3>3, OnCarries DEF OnRun
  <2>6. ASSUME NEW at \in OnRun, t.at \in OnRun,
               tick' = [tick EXCEPT ![w][s] = [t EXCEPT !.at = at]]
        PROVE  Carrying'
    <3>1. PICK u : u = [t EXCEPT !.at = at]
      OBVIOUS
    <3>2. u.at = at /\ u.resumed = t.resumed
      BY <3>1 DEF Tick
    <3> QED
      BY <2>2, <2>6, <3>1, <3>2, OnCarries
  <2>7. CASE StepThrow(w, s) \/ MarkFailure(w, s)
    BY <2>1, <2>6, <2>7 DEF StepThrow, MarkFailure, OnRun
  <2>8. ASSUME NEW r \in Run,
               tick' = [tick EXCEPT ![w][s] =
                 [t EXCEPT !.at = "resuming", !.on = r, !.resumed = TRUE, !.selection = {}]]
        PROVE  Carrying'
    <3>1. PICK u : u = [t EXCEPT !.at = "resuming", !.on = r, !.resumed = TRUE, !.selection = {}]
      OBVIOUS
    <3>2. u.at = "resuming" /\ u.resumed
      BY <3>1 DEF Tick
    <3> QED
      BY <2>8, <3>1, <3>2, OnCarries DEF OnRun
  <2>9. ASSUME NEW g \in Gate, EndTick(w, s, g) \/ DrainOrEnd(w, s, g) PROVE Carrying'
    BY <2>9, EndCarries
  <2>10. CASE Fetch(w, s)
    <3>1. \A some \in BOOLEAN : DrainCompleted(gate[w], some) \in Gate
      BY <1>1, GateMethods
    <3>2. ASSUME NEW some \in BOOLEAN, EndTick(w, s, DrainCompleted(gate[w], some))
          PROVE  Carrying'
      BY <2>9, <3>1, <3>2
    <3>3. t.resumed \in BOOLEAN /\ t.selection \subseteq Run
      BY DEF Tick
    <3> QED
      BY <2>1, <2>8, <2>10, <3>2, <3>3 DEF Fetch
  <2>11. CASE ReconcileCommit(w, s)
    <3>1. PICK some \in BOOLEAN : DrainOrEnd(w, s, ReconcileSucceeded(gate[w], some))
      BY <2>11 DEF ReconcileCommit
    <3> QED
      BY <1>1, <2>9, <3>1, GateMethods
  <2>12. CASE ReconcileThrow(w, s) \/ FailureMarked(w, s) \/ BookkeepingThrow(w, s)
    <3>1. \A g \in Gate : DrainFailed(g) \in Gate /\ ReconcileFailed(g) \in Gate
      BY GateMethods
    <3> QED
      BY <1>1, <2>9, <2>12, <3>1 DEF ReconcileThrow, FailureMarked, BookkeepingThrow
  <2> QED
    BY <1>2, <2>3, <2>4, <2>5, <2>7, <2>10, <2>11, <2>12 DEF Proceed
<1>3. ASSUME UNCHANGED tick PROVE Carrying'
  BY <1>3 DEF Carrying
<1>4. ASSUME NEW w \in Worker, ScheduledLoop(w) PROVE Carrying'
  BY <1>1, <1>4, EndCarries DEF ScheduledLoop, Source
<1>5. ASSUME NEW w \in Worker, NEW r \in Run, Trigger(w, r) PROVE Carrying'
  <2>1. UNCHANGED tick \/ StartTick(w, "trigger", MarkDirty(gate[w]))
    BY <1>5 DEF Trigger
  <2> QED
    BY <1>1, <1>3, <2>1, EndCarries, GateMethods DEF Source
<1> QED
  BY <1>2, <1>3, <1>4, <1>5
  DEF Next, ReconcileSweepDue, DrainSweepDue, Close, Closed, Emit, Wake, BackoffOver,
      ShutDown, ResumeTicks, vars

-----------------------------------------------------------------------------
\* A worker gets a run off only by executing a step of it, or by failing to.
LEMMA HeldOn ==
  ASSUME TypeInv, NEW w \in Worker, NEW s \in Source, NEW r \in Run, Held(r),
         \/ ReconcileBegin(w, s) \/ ReconcileCommit(w, s) \/ ReconcileThrow(w, s)
         \/ DrainIteration(w, s) \/ Fetch(w, s)
  PROVE  Held(r)'
<1>1. tick \in [Worker -> [Source -> Tick]]
  BY DEF TypeInv, TickInv, TickTypes
<1>2. PICK v \in Worker, z \in Source : tick[v][z].on = r
  BY DEF Held
<1>3. ~(v = w /\ z = s)
  BY <1>2 DEF TypeInv, Resuming, OnRun, ReconcileBegin, ReconcileCommit, ReconcileThrow,
              DrainIteration, Fetch
<1>4. \E t : tick' = [tick EXCEPT ![w][s] = t]
  BY DEF ReconcileBegin, ReconcileCommit, ReconcileThrow, DrainIteration, Fetch, EndTick,
         DrainOrEnd
<1>5. tick'[v][z] = tick[v][z]
  BY <1>1, <1>3, <1>4
<1> QED
  BY <1>2, <1>5 DEF Held

\* The move of one tick: whoever watched goes on, unless it is the one that moves.
LEMMA ProceedWatched ==
  ASSUME WatchInv, NEW w \in Worker, NEW s \in Source, Proceed(w, s)
  PROVE  Watched'
<1>1. /\ tick \in [Worker -> [Source -> Tick]] /\ gate \in [Worker -> Gate]
      /\ row \in [Run -> RowState]
      /\ TypeInv /\ Carrying
  BY DEF WatchInv, TypeInv, TickInv, TickTypes, DataTypes
<1>2. SUFFICES ASSUME NEW r \in Run, row'[r] = "due", ~Held(r)'
               PROVE  \E v \in Worker : Watching(v, r)'
  BY DEF Watched
<1>3. CASE \/ StepCommit(w, s) \/ StepThrow(w, s) \/ MarkFailure(w, s)
           \/ FailureMarked(w, s) \/ BookkeepingThrow(w, s)
  BY <1>1, <1>3, OnRunWatches
<1>4. CASE \/ ReconcileBegin(w, s) \/ ReconcileCommit(w, s) \/ ReconcileThrow(w, s)
           \/ DrainIteration(w, s) \/ Fetch(w, s)
  <2>1. ~Held(r)
    BY <1>1, <1>2, <1>4, HeldOn
  <2>2. \A q \in Run : row'[q] = row[q] \/ (row[q] = "emitted" /\ row'[q] = "due")
    BY <1>1, <1>4 DEF ReconcileBegin, ReconcileCommit, ReconcileThrow, DrainIteration, Fetch, Rows
  <2>3. CASE row[r] # "due"
    <3>1. ReconcileCommit(w, s)
      BY <1>2, <1>4, <2>3 DEF ReconcileBegin, ReconcileThrow, DrainIteration, Fetch, Rows
    <3> QED
      BY <1>1, <1>2, <2>3, <3>1, StarterWatches
  <2>4. CASE row[r] = "due"
    <3>1. PICK v \in Worker : Watching(v, r)
      BY <2>1, <2>4 DEF WatchInv, Watched
    <3>2. CASE v = w
      BY <1>1, <2>1, <2>4, <3>1, <3>2, MoverKeeps
    <3>3. CASE v # w
      <4>1. gate'[v] = gate[v] /\ tick'[v] = tick[v]
        BY <1>1, <1>4, <3>3 DEF ReconcileBegin, ReconcileCommit, ReconcileThrow,
             DrainIteration, Fetch, EndTick, DrainOrEnd
      <4>2. \A z \in Source : tick[v][z].selection \subseteq Run
        BY <1>1 DEF Tick
      <4>3. \A q \in Run : Runnable(q) => Runnable(q)'
        BY <2>2 DEF Runnable
      <4> QED
        BY <3>1, <4>1, <4>2, <4>3 DEF Watching
    <3> QED
      BY <3>2, <3>3
  <2> QED
    BY <2>3, <2>4
<1> QED
  BY <1>3, <1>4 DEF Proceed

\* A tick that starts, and a trigger that starts none.
LEMMA StartingWatched ==
  ASSUME WatchInv, NEW w \in Worker,
         UNCHANGED row, \A v \in Worker : v # w => gate'[v] = gate[v] /\ tick'[v] = tick[v],
         \A r \in Run : Held(r) => Held(r)',
         \A r \in Run : Watching(w, r) => Watching(w, r)'
  PROVE  Watched'
<1> SUFFICES ASSUME NEW r \in Run, row'[r] = "due", ~Held(r)'
             PROVE  \E v \in Worker : Watching(v, r)'
  BY DEF Watched
<1>1. PICK v \in Worker : Watching(v, r)
  BY DEF WatchInv, Watched
<1>2. CASE v # w
  BY <1>1, <1>2 DEF Watching, Runnable
<1> QED
  BY <1>1, <1>2

LEMMA StartHeld ==
  ASSUME TypeInv, NEW w \in Worker, NEW s \in Source, NEW g \in Gate, ~gateBusy[w],
         StartTick(w, s, g)
  PROVE  /\ \A v \in Worker : v # w => gate'[v] = gate[v] /\ tick'[v] = tick[v]
         /\ \A r \in Run : Held(r) => Held(r)'
<1>1. tick \in [Worker -> [Source -> Tick]] /\ gate \in [Worker -> Gate]
  BY DEF TypeInv, TickInv, TickTypes
<1>2. /\ \E t : tick' = [tick EXCEPT ![w][s] = t]
      /\ \E h : gate' = [gate EXCEPT ![w] = h]
  BY DEF StartTick, DrainOrEnd, EndTick
<1>3. \A v \in Worker, z \in Source : ~(v = w /\ z = s) => tick'[v][z] = tick[v][z]
  BY <1>1, <1>2
<1>4. tick[w][s].at = "none"
  BY DEF TypeInv, TickInv, OneTickAtATime, Ticking
<1>5. tick[w][s].on \notin Run
  BY <1>4 DEF TypeInv, Resuming, OnRun
<1> QED
  BY <1>1, <1>2, <1>3, <1>5 DEF Held

LEMMA WatchedNext == WatchInv /\ [Next]_vars => Watched'
<1> SUFFICES ASSUME WatchInv, [Next]_vars PROVE Watched'
  OBVIOUS
<1>a. /\ tick \in [Worker -> [Source -> Tick]] /\ gate \in [Worker -> Gate]
      /\ row \in [Run -> RowState]
      /\ TypeInv /\ Carrying
  BY DEF WatchInv, TypeInv, TickInv, TickTypes, DataTypes
<1>1. ASSUME NEW w \in Worker, NEW s \in Source, Proceed(w, s) PROVE Watched'
  BY <1>1, ProceedWatched
<1>2. ASSUME NEW w \in Worker, ScheduledLoop(w) PROVE Watched'
  <2>1. StartTick(w, "timer", gate[w]) /\ ~gateBusy[w] /\ UNCHANGED row /\ "timer" \in Source
    BY <1>2 DEF ScheduledLoop, Rows, Source
  <2>2. \A s \in Source : ~tick[w][s].resumed
    BY <1>a, <2>1 DEF TypeInv, TickInv, OneTickAtATime, Ticking, Carrying, OnRun
  <2>3. ASSUME NEW r \in Run, Watching(w, r) PROVE Watching(w, r)'
    BY <1>a, <2>1, <2>2, <2>3, WatchingAlert, StartsAlert
  <2> QED
    BY <1>a, <2>1, <2>3, StartHeld, StartingWatched
<1>3. ASSUME NEW w \in Worker, NEW r \in Run, Trigger(w, r) PROVE Watched'
  <2>1. UNCHANGED row
    BY <1>3 DEF Trigger, Rows
  <2>2. CASE closing[w] # "open" \/ gateBusy[w]
    <3>1. gate' = [gate EXCEPT ![w] = MarkDirty(@)] /\ UNCHANGED tick
      BY <1>3, <2>2 DEF Trigger
    <3>2. MarkDirty(gate[w]).drainDirtySignal
      BY <1>a DEF MarkDirty, Gate
    <3>3. gate'[w].drainDirtySignal /\ \A v \in Worker : v # w => gate'[v] = gate[v]
      BY <1>a, <3>1, <3>2
    <3>4. \A q \in Run : Watching(w, q)'
      BY <3>3 DEF Watching
    <3>5. \A q \in Run : Held(q) => Held(q)'
      BY <3>1 DEF Held
    <3> QED
      BY <2>1, <3>1, <3>3, <3>4, <3>5, StartingWatched
  <2>3. CASE ~gateBusy[w] /\ closing[w] = "open"
    <3>1. StartTick(w, "trigger", MarkDirty(gate[w])) /\ "trigger" \in Source
      BY <1>3, <2>3 DEF Trigger, Source
    <3>2. MarkDirty(gate[w]) \in Gate /\ Alert(MarkDirty(gate[w]))
      BY <1>a, GateMethods, AlertMethods
    <3>3. \A q \in Run : Watching(w, q)'
      BY <1>a, <2>3, <3>1, <3>2, StartsAlert
    <3> QED
      BY <1>a, <2>1, <2>3, <3>1, <3>2, <3>3, StartHeld, StartingWatched
  <2> QED
    BY <2>2, <2>3
<1>4. ASSUME UNCHANGED tick,
             \A w \in Worker :
               /\ gate'[w].drainDirtySignal = gate[w].drainDirtySignal
               /\ gate'[w].drainQuietTicksRemaining = gate[w].drainQuietTicksRemaining,
             \A r \in Run : /\ row'[r] = "due" => row[r] = "due"
                            /\ Runnable(r) => Runnable(r)'
      PROVE  Watched'
  <2> SUFFICES ASSUME NEW r \in Run, row'[r] = "due", ~Held(r)'
               PROVE  \E v \in Worker : Watching(v, r)'
    BY DEF Watched
  <2>1. ~Held(r) /\ row[r] = "due"
    BY <1>4 DEF Held
  <2>2. PICK v \in Worker : Watching(v, r)
    BY <2>1 DEF WatchInv, Watched
  <2>3. \A z \in Source : tick[v][z].selection \subseteq Run
    BY <1>a DEF Tick
  <2> QED
    BY <1>4, <2>2, <2>3 DEF Watching
<1>5. ASSUME NEW w \in Worker, ReconcileSweepDue(w) \/ DrainSweepDue(w) PROVE Watched'
  <2>1. \A v \in Worker :
           /\ gate'[v].drainDirtySignal = gate[v].drainDirtySignal
           /\ gate'[v].drainQuietTicksRemaining = gate[v].drainQuietTicksRemaining
    <3>1. \/ gate' = [gate EXCEPT ![w].sweepDue = TRUE]
          \/ gate' = [gate EXCEPT ![w].drainSweepDue = TRUE]
      BY <1>5 DEF ReconcileSweepDue, DrainSweepDue
    <3>2. ASSUME NEW g \in Gate
          PROVE  /\ [g EXCEPT !.sweepDue = TRUE].drainDirtySignal = g.drainDirtySignal
                 /\ [g EXCEPT !.drainSweepDue = TRUE].drainDirtySignal = g.drainDirtySignal
                 /\ [g EXCEPT !.sweepDue = TRUE].drainQuietTicksRemaining
                      = g.drainQuietTicksRemaining
                 /\ [g EXCEPT !.drainSweepDue = TRUE].drainQuietTicksRemaining
                      = g.drainQuietTicksRemaining
      BY DEF Gate
    <3>3. /\ gate'[w] \in {[gate[w] EXCEPT !.sweepDue = TRUE], [gate[w] EXCEPT !.drainSweepDue = TRUE]}
          /\ \A v \in Worker : v # w => gate'[v] = gate[v]
      BY <1>a, <3>1
    <3>4. ASSUME NEW v \in Worker
          PROVE  /\ gate'[v].drainDirtySignal = gate[v].drainDirtySignal
                 /\ gate'[v].drainQuietTicksRemaining = gate[v].drainQuietTicksRemaining
      <4>1. PICK g \in Gate : g = gate[v]
        BY <1>a
      <4>2. gate'[v] \in {g, [g EXCEPT !.sweepDue = TRUE], [g EXCEPT !.drainSweepDue = TRUE]}
        BY <3>3, <4>1
      <4> QED
        BY <3>2, <4>1, <4>2
    <3> QED
      BY <3>4
  <2> QED
    BY <1>4, <1>5, <2>1 DEF ReconcileSweepDue, DrainSweepDue, Rows, Runnable
<1>6. ASSUME NEW r \in Run, Emit(r) \/ Wake(r) \/ BackoffOver(r) PROVE Watched'
  <2>1. \A q \in Run : /\ row'[q] = "due" => row[q] = "due"
                       /\ Runnable(q) => Runnable(q)'
    BY <1>6, <1>a DEF Emit, Wake, BackoffOver, Runnable
  <2> QED
    BY <1>4, <1>6, <2>1 DEF Emit, Wake, BackoffOver
<1>7. ASSUME \/ \E w \in Worker : Close(w) \/ Closed(w)
             \/ ShutDown \/ ResumeTicks \/ UNCHANGED vars
      PROVE  Watched'
  <2>1. UNCHANGED <<tick, gate, row>>
    BY <1>7 DEF Close, Closed, ShutDown, ResumeTicks, vars, Rows
  <2> QED
    BY <1>4, <2>1 DEF Runnable
<1> QED
  BY <1>1, <1>2, <1>3, <1>5, <1>6, <1>7 DEF Next

\* A run its topic's own workers made ready never waits for the safety net, for any
\* number of workers, runs, lost notifications and failures: a worker whose drain
\* found nothing but runs of others goes quiet, but the others do not, and a gate
\* that could go quiet while the run is free saw the run when its drain looked.
THEOREM ReadyIsWatched == Spec => []ReadyRunHasAWorker
<1>1. Init => WatchInv
  <2> SUFFICES ASSUME Init PROVE WatchInv
    OBVIOUS
  <2>1. Carrying
    BY DEF Init, Carrying, NoTick, OnRun
  <2>2. Watched
    BY DEF Init, Watched
  <2> QED
    BY TypeInit, <2>1, <2>2 DEF WatchInv
<1>2. WatchInv /\ [Next]_vars => WatchInv'
  BY TypeNext, CarryingNext, WatchedNext DEF WatchInv
<1>3. WatchInv => ReadyRunHasAWorker
  BY DEF WatchInv, Watched, Watching, ReadyRunHasAWorker, Armed
<1> QED
  BY <1>1, <1>2, <1>3, PTL DEF Spec
=============================================================================
