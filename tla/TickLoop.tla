------------------------------- MODULE TickLoop -------------------------------
(***************************************************************************)
(* tickPeriodically: the workers of one handler, each ticking on a timer   *)
(* and on notifications, one tick at a time, and only the halves of a tick *)
(* its gate lets through.  What a tick does to a run - a continuation      *)
(* starts, a step of it is executed - is reduced to how far the run got;   *)
(* EventLoop has the detail.                                               *)
(***************************************************************************)
EXTENDS ReconcileGate, FiniteSets

CONSTANTS
    Worker,       \* the instances subscribed to the topic
    Run,          \* runs of the handler, one per message of the topic
    Transient,    \* workers whose subscription may be closed
    Hearing,      \* bound: workers a NOTIFY may reach
    Sweeping,     \* bound: workers that live to see a safety-net sweep
    Connections,  \* the pool of the process: max of postgres()
    MayShutDown,  \* BOOLEAN: PostgresMessageQueue.close or pauseTicks is called
    StepsPerRun,  \* bound: steps a run executes
    MaxSkips,     \* bound: reconcile passes that find an emitter's row locked
    MaxFailures,  \* bound: halves of a tick that throw
    NoRun

ASSUME TickLoopAssumption ==
    /\ NoRun \notin Run
    /\ Transient \subseteq Worker /\ Hearing \subseteq Worker /\ Sweeping \subseteq Worker
    /\ Connections \in Nat \ {0}
    /\ MayShutDown \in BOOLEAN
    /\ StepsPerRun \in Nat \ {0} /\ MaxSkips \in Nat /\ MaxFailures \in Nat

VARIABLES
    row,         \* run -> how far it got
    stepsLeft,   \* run -> steps still to execute
    notes,       \* worker -> runs whose NOTIFY is on its way
    heard,       \* worker -> unstarted runs whose NOTIFY was delivered
    gate,        \* worker -> its ReconcileGate
    gateBusy,    \* worker -> a tick is accounted for
    timer,       \* worker -> the next scheduled tick is set
    tick,        \* worker, source -> the tick in progress
    closing,     \* worker -> what became of its subscription
    shuttingDown,  \* isShuttingDown
    backedOff,   \* runs in an infrastructure-failure backoff
    skips, failures

vars == <<row, stepsLeft, notes, heard, gate, gateBusy, timer, tick, closing,
          shuttingDown, backedOff, skips, failures>>

\* due: ready through what the topic's own workers did.  woken: ready through
\* something no NOTIFY tells of - a child's commit on another topic, the clock.
RowState == {"absent", "emitted", "due", "woken", "parked", "done"}

Source == {"timer", "trigger"}

\* opening and draining: at the begin of a transaction, failing: at the begin of
\* another one inside the step's, marking: in that one.
TickState == {"none", "opening", "reconciling", "draining", "fetching", "resuming",
              "failing", "marking"}

\* selection: the rows a statement saw when it started.  on: the run being resumed.
Tick == [at : TickState,
         selection : SUBSET Run, on : Run \cup {NoRun}, resumed : BOOLEAN]

NoTick == [at |-> "none", selection |-> {}, on |-> NoRun, resumed |-> FALSE]

\* "closed": close() returned.  "abandoned": it stopped waiting for a stuck tick.
Closing == {"open", "closing", "closed", "abandoned"}

Init ==
    /\ row = [r \in Run |-> "absent"]
    /\ stepsLeft = [r \in Run |-> StepsPerRun]
    /\ notes = [w \in Worker |-> {}]
    /\ heard = [w \in Worker |-> {}]
    /\ gate = [w \in Worker |-> NewGate]
    /\ gateBusy = [w \in Worker |-> FALSE]
    /\ timer = [w \in Worker |-> TRUE]
    /\ tick = [w \in Worker |-> [s \in Source |-> NoTick]]
    /\ closing = [w \in Worker |-> "open"]
    /\ shuttingDown = FALSE
    /\ backedOff = {}
    /\ skips = 0
    /\ failures = 0

\* Everything stays in its domain; the counts of the gate never pass zero, also
\* when a sweep lets a half through whose quiet tail is used up.
TypeOK ==
    /\ row \in [Run -> RowState]
    /\ stepsLeft \in [Run -> 0..StepsPerRun]
    /\ notes \in [Worker -> SUBSET Run]
    /\ heard \in [Worker -> SUBSET Run]
    /\ gate \in [Worker -> Gate]
    /\ gateBusy \in [Worker -> BOOLEAN]
    /\ timer \in [Worker -> BOOLEAN]
    /\ tick \in [Worker -> [Source -> Tick]]
    /\ closing \in [Worker -> Closing]
    /\ shuttingDown \in BOOLEAN
    /\ backedOff \in SUBSET Run
    /\ skips \in 0..MaxSkips
    /\ failures \in 0..MaxFailures

-----------------------------------------------------------------------------
Runnable(r) == row[r] \in {"due", "woken"}

Ticking(w, s) == tick[w][s].at # "none"

\* FOR UPDATE SKIP LOCKED on the run's SEEN row.
Held(r) == \E w \in Worker, s \in Source : tick[w][s].on = r

\* A transaction takes a connection from the pool when it begins and keeps it until
\* it ends; begin waits as long as there is none.
Connected == {p \in Worker \X Source : tick[p[1]][p[2]].at \in
                {"reconciling", "fetching", "resuming", "failing", "marking"}}

\* Ticks that hold a second one.
Marking == {p \in Connected : tick[p[1]][p[2]].at = "marking"}

\* Mutant of FreeConnection: each worker's LISTEN takes a connection of the pool.
FreeButForListeners ==
    Cardinality(Connected) + Cardinality(Marking) + Cardinality(Worker) < Connections

FreeConnection == Cardinality(Connected) + Cardinality(Marking) < Connections

Rows == <<row, stepsLeft, backedOff>>

\* The tick is over: the permit is given back, and the loop that ran it on its
\* timer sets the timer again.
EndTick(w, s, g) ==
    /\ gate' = [gate EXCEPT ![w] = g]
    /\ tick' = [tick EXCEPT ![w][s] = NoTick]
    /\ gateBusy' = [gateBusy EXCEPT ![w] = FALSE]
    /\ timer' = [timer EXCEPT ![w] = IF s = "timer" THEN closing[w] = "open" ELSE @]

\* The second half of tick, up to the first await.
DrainOrEnd(w, s, g) ==
    IF ShouldDrain(g)
    THEN /\ gate' = [gate EXCEPT ![w] = AskedDrain(g)]
         /\ tick' = [tick EXCEPT ![w][s] = [NoTick EXCEPT !.at = "draining"]]
         /\ gateBusy' = [gateBusy EXCEPT ![w] = TRUE]
         /\ timer' = [timer EXCEPT ![w] = IF s = "timer" THEN FALSE ELSE @]
    ELSE EndTick(w, s, AskedDrain(g))

\* tick, up to its first await: a transaction for the reconcile half, or the drain.
StartTick(w, s, g) ==
    IF ShouldReconcile(g)
    THEN /\ gate' = [gate EXCEPT ![w] = AskedReconcile(g)]
         /\ tick' = [tick EXCEPT ![w][s] = [NoTick EXCEPT !.at = "opening"]]
         /\ gateBusy' = [gateBusy EXCEPT ![w] = TRUE]
         /\ timer' = [timer EXCEPT ![w] = IF s = "timer" THEN FALSE ELSE @]
    ELSE DrainOrEnd(w, s, AskedReconcile(g))

\* scheduledLoop.  Skipping a tick sets the timer again.
ScheduledLoop(w) ==
    /\ timer[w]
    /\ ~shuttingDown /\ ~gateBusy[w]
    /\ StartTick(w, "timer", gate[w])
    /\ UNCHANGED <<Rows, notes, heard, closing, shuttingDown, skips, failures>>

\* Mutant of Trigger: a trigger that is coalesced leaves no mark.
TriggerCoalesced(w, r) ==
    /\ r \in notes[w]
    /\ notes' = [notes EXCEPT ![w] = @ \ {r}]
    /\ heard' = [heard EXCEPT ![w] = IF row[r] = "emitted" THEN @ \cup {r} ELSE @]
    /\ IF closing[w] # "open" \/ gateBusy[w]
       THEN UNCHANGED <<gate, tick, gateBusy, timer>>
       ELSE StartTick(w, "trigger", MarkDirty(gate[w]))
    /\ UNCHANGED <<Rows, closing, shuttingDown, skips, failures>>

\* Mutant of Trigger: starts a tick whatever runs already.
TriggerAnyway(w, r) ==
    /\ r \in notes[w]
    /\ notes' = [notes EXCEPT ![w] = @ \ {r}]
    /\ heard' = [heard EXCEPT ![w] = IF row[r] = "emitted" THEN @ \cup {r} ELSE @]
    /\ ~Ticking(w, "trigger")
    /\ StartTick(w, "trigger", MarkDirty(gate[w]))
    /\ UNCHANGED <<Rows, closing, shuttingDown, skips, failures>>

\* trigger: the NOTIFY callback.
Trigger(w, r) ==
    /\ r \in notes[w]
    /\ notes' = [notes EXCEPT ![w] = @ \ {r}]
    /\ heard' = [heard EXCEPT ![w] = IF row[r] = "emitted" THEN @ \cup {r} ELSE @]
    /\ IF closing[w] # "open" \/ gateBusy[w]
       THEN /\ gate' = [gate EXCEPT ![w] = MarkDirty(@)]
            /\ UNCHANGED <<tick, gateBusy, timer>>
       ELSE StartTick(w, "trigger", MarkDirty(gate[w]))
    /\ UNCHANGED <<Rows, closing, shuttingDown, skips, failures>>

-----------------------------------------------------------------------------
\* The reconcile half: its statement starts.
ReconcileBegin(w, s) ==
    /\ tick[w][s].at = "opening"
    /\ FreeConnection
    /\ tick' = [tick EXCEPT ![w][s] =
            [@ EXCEPT !.at = "reconciling",
                      !.selection = {r \in Run : row[r] = "emitted"}]]
    /\ UNCHANGED <<Rows, notes, heard, gate, gateBusy, timer, closing, shuttingDown,
                   skips, failures>>

\* Another handler's pass may hold the emitter's row.
ReconcileCommit(w, s) ==
    /\ tick[w][s].at = "reconciling"
    /\ \E locked \in SUBSET {r \in tick[w][s].selection : row[r] = "emitted"} :
        /\ skips' = IF locked = {} THEN skips ELSE skips + 1
        /\ skips' <= MaxSkips
        /\ LET started == {r \in tick[w][s].selection \ locked : row[r] = "emitted"}
           IN  /\ row' = [r \in Run |-> IF r \in started THEN "due" ELSE row[r]]
               /\ heard' = [v \in Worker |-> heard[v] \ started]
               /\ DrainOrEnd(w, s, ReconcileSucceeded(gate[w], started # {}))
    /\ UNCHANGED <<stepsLeft, backedOff, notes, closing, shuttingDown, failures>>

\* The pass throws: the tick ends before its drain.
ReconcileThrow(w, s) ==
    /\ tick[w][s].at = "reconciling"
    /\ failures < MaxFailures
    /\ failures' = failures + 1
    /\ EndTick(w, s, DrainFailed(ReconcileFailed(gate[w])))
    /\ UNCHANGED <<Rows, notes, heard, closing, shuttingDown, skips>>

-----------------------------------------------------------------------------
\* The drain half: whileISaySo.
DrainIteration(w, s) ==
    /\ tick[w][s].at = "draining"
    /\ FreeConnection
    /\ tick' = [tick EXCEPT ![w][s] =
            [@ EXCEPT !.at = "fetching", !.selection = {r \in Run : Runnable(r)}]]
    /\ UNCHANGED <<Rows, notes, heard, gate, gateBusy, timer, closing, shuttingDown,
                   skips, failures>>

\* Of what the first query saw it locks a row nobody holds; a second query asks
\* whether the run is still ready.  If there is none, if it is not, or if the
\* run is backed off, the drain is over.
Fetch(w, s) ==
    LET free == {r \in tick[w][s].selection : ~Held(r)}
        Done(resumed) == EndTick(w, s, DrainCompleted(gate[w], resumed))
    IN  /\ tick[w][s].at = "fetching"
        /\ \/ free = {} /\ Done(tick[w][s].resumed)
           \/ \E r \in free :
                \/ ~Runnable(r) /\ Done(tick[w][s].resumed)
                \/ Runnable(r) /\ r \in backedOff /\ Done(TRUE)
                \/ /\ Runnable(r) /\ r \notin backedOff
                   /\ tick' = [tick EXCEPT ![w][s] =
                        [@ EXCEPT !.at = "resuming", !.on = r, !.resumed = TRUE,
                                  !.selection = {}]]
                   /\ UNCHANGED <<gate, gateBusy, timer>>
        /\ UNCHANGED <<Rows, notes, heard, closing, shuttingDown, skips, failures>>

\* A step commits; the run is ready again, waits for children, or is over.
StepCommit(w, s) ==
    LET r == tick[w][s].on
    IN  /\ tick[w][s].at = "resuming"
        /\ stepsLeft' = [stepsLeft EXCEPT ![r] = @ - 1]
        /\ \E next \in IF stepsLeft[r] = 1 THEN {"done"} ELSE {"due", "parked"} :
            row' = [row EXCEPT ![r] = next]
        /\ backedOff' = backedOff \ {r}
        /\ tick' = [tick EXCEPT ![w][s] =
                [@ EXCEPT !.at = "draining", !.on = NoRun]]
        /\ UNCHANGED <<notes, heard, gate, gateBusy, timer, closing, shuttingDown,
                       skips, failures>>

\* The step throws: within its transaction, ROLLING_BACK or ROLLBACK_FAILED is to
\* be written in a separate one.
StepThrow(w, s) ==
    /\ tick[w][s].at = "resuming"
    /\ failures < MaxFailures
    /\ failures' = failures + 1
    /\ tick' = [tick EXCEPT ![w][s] = [@ EXCEPT !.at = "failing"]]
    /\ UNCHANGED <<Rows, notes, heard, gate, gateBusy, timer, closing, shuttingDown, skips>>

MarkFailure(w, s) ==
    /\ tick[w][s].at = "failing"
    /\ FreeConnection
    /\ tick' = [tick EXCEPT ![w][s] = [@ EXCEPT !.at = "marking"]]
    /\ UNCHANGED <<Rows, notes, heard, gate, gateBusy, timer, closing, shuttingDown,
                   skips, failures>>

\* The separate transaction commits, and the step's own rolls back.  The run is to
\* be resumed again, to roll back.
FailureMarked(w, s) ==
    /\ tick[w][s].at = "marking"
    /\ backedOff' = backedOff \ {tick[w][s].on}
    /\ EndTick(w, s, DrainFailed(gate[w]))
    /\ UNCHANGED <<row, stepsLeft, notes, heard, closing, shuttingDown, skips, failures>>

\* Scoop's own bookkeeping fails: the run is backed off, the transaction rolls back.
BookkeepingThrow(w, s) ==
    /\ tick[w][s].at \in {"resuming", "marking"}
    /\ failures < MaxFailures
    /\ failures' = failures + 1
    /\ backedOff' = backedOff \cup {tick[w][s].on}
    /\ EndTick(w, s, DrainFailed(gate[w]))
    /\ UNCHANGED <<row, stepsLeft, notes, heard, closing, shuttingDown, skips>>

-----------------------------------------------------------------------------
\* A message is published; a NOTIFY may get lost while a LISTEN reconnects.
Emit(r) ==
    /\ row[r] = "absent"
    /\ row' = [row EXCEPT ![r] = "emitted"]
    /\ \E reached \in SUBSET Hearing :
        notes' = [w \in Worker |-> IF w \in reached THEN notes[w] \cup {r} ELSE notes[w]]
    /\ UNCHANGED <<stepsLeft, backedOff, heard, gate, gateBusy, timer, tick, closing,
                   shuttingDown, skips, failures>>

\* The children of a run end, its wake-up time comes.
Wake(r) ==
    /\ row[r] = "parked"
    /\ row' = [row EXCEPT ![r] = "woken"]
    /\ UNCHANGED <<stepsLeft, backedOff, notes, heard, gate, gateBusy, timer, tick,
                   closing, shuttingDown, skips, failures>>

BackoffOver(r) ==
    /\ r \in backedOff
    /\ backedOff' = backedOff \ {r}
    /\ UNCHANGED <<row, stepsLeft, notes, heard, gate, gateBusy, timer, tick, closing,
                   shuttingDown, skips, failures>>

\* The safety-net interval of one half of the gate passes.  It makes a difference
\* only to a gate that has no other reason to let the half through.
ReconcileSweepDue(w) ==
    /\ w \in Sweeping /\ ~ShouldReconcile(gate[w])
    /\ gate' = [gate EXCEPT ![w].sweepDue = TRUE]
    /\ UNCHANGED <<Rows, notes, heard, gateBusy, timer, tick, closing, shuttingDown,
                   skips, failures>>

DrainSweepDue(w) ==
    /\ w \in Sweeping /\ ~ShouldDrain(gate[w])
    /\ gate' = [gate EXCEPT ![w].drainSweepDue = TRUE]
    /\ UNCHANGED <<Rows, notes, heard, gateBusy, timer, tick, closing, shuttingDown,
                   skips, failures>>

\* close(), up to its wait for the tick in flight.
Close(w) ==
    /\ w \in Transient
    /\ closing[w] = "open"
    /\ timer' = [timer EXCEPT ![w] = FALSE]
    /\ closing' = [closing EXCEPT ![w] =
            IF \E s \in Source : Ticking(w, s) THEN "closing" ELSE "closed"]
    /\ UNCHANGED <<Rows, notes, heard, gate, gateBusy, tick, shuttingDown, skips, failures>>

\* Mutant of Closed: does not wait.
ClosedAtOnce(w) ==
    /\ closing[w] = "closing"
    /\ closing' = [closing EXCEPT ![w] = "closed"]
    /\ UNCHANGED <<Rows, notes, heard, gate, gateBusy, timer, tick, shuttingDown,
                   skips, failures>>

\* The tick in flight ended, or SHUTDOWN_TIMEOUT_MILLIS passed.
Closed(w) ==
    /\ closing[w] = "closing"
    /\ closing' = [closing EXCEPT ![w] =
            IF \E s \in Source : Ticking(w, s) THEN "abandoned" ELSE "closed"]
    /\ UNCHANGED <<Rows, notes, heard, gate, gateBusy, timer, tick, shuttingDown,
                   skips, failures>>

\* pauseTicks, or close of the queue, after which there is no resumeTicks.
ShutDown ==
    /\ MayShutDown
    /\ ~shuttingDown
    /\ shuttingDown' = TRUE
    /\ UNCHANGED <<Rows, notes, heard, gate, gateBusy, timer, tick, closing, skips, failures>>

ResumeTicks ==
    /\ shuttingDown
    /\ shuttingDown' = FALSE
    /\ UNCHANGED <<Rows, notes, heard, gate, gateBusy, timer, tick, closing, skips, failures>>

-----------------------------------------------------------------------------
\* A tick in progress moves on.
Proceed(w, s) ==
    \/ ReconcileBegin(w, s) \/ ReconcileCommit(w, s) \/ ReconcileThrow(w, s)
    \/ DrainIteration(w, s) \/ Fetch(w, s)
    \/ StepCommit(w, s) \/ StepThrow(w, s)
    \/ MarkFailure(w, s) \/ FailureMarked(w, s) \/ BookkeepingThrow(w, s)

Next ==
    \/ \E w \in Worker :
        \/ ScheduledLoop(w) \/ ReconcileSweepDue(w) \/ DrainSweepDue(w)
        \/ Close(w) \/ Closed(w)
        \/ \E r \in Run : Trigger(w, r)
        \/ \E s \in Source : Proceed(w, s)
    \/ \E r \in Run : Emit(r) \/ Wake(r) \/ BackoffOver(r)
    \/ ShutDown \/ ResumeTicks

Spec == Init /\ [][Next]_vars

\* Timers fire and queries return; what a run waits for comes; the clock reaches
\* the next sweep.  No NOTIFY need ever be delivered.
Fairness ==
    /\ \A w \in Worker :
        /\ WF_vars(ScheduledLoop(w))
        /\ WF_vars(ReconcileSweepDue(w)) /\ WF_vars(DrainSweepDue(w))
        /\ \A s \in Source : WF_vars(Proceed(w, s))
    /\ \A r \in Run : WF_vars(Wake(r)) /\ WF_vars(BackoffOver(r))

FairSpec == Spec /\ Fairness

-----------------------------------------------------------------------------
\* PeriodicTick: "at most one tick runs at any moment for a given worker",
\* whether its timer or a notification started it.
OneTickAtATime ==
    \A w \in Worker :
        /\ ~(Ticking(w, "timer") /\ Ticking(w, "trigger"))
        /\ gateBusy[w] <=> \E s \in Source : Ticking(w, s)

\* A notification is never lost on the worker it reached: as long as the message
\* is not started, the worker has a reconcile pass to come that does not wait
\* for the safety net - also when the notification arrived during a tick whose
\* pass had begun, and when up to QUIET_TICKS - 1 passes found the row locked.
SignalKept ==
    \A w \in Worker : \A r \in heard[w] :
        row[r] = "emitted" /\ closing[w] = "open" =>
            \/ gate[w].dirtySignal
            \/ gate[w].quietTicksRemaining > 0
            \/ \E s \in Source :
                \/ tick[w][s].at = "opening"
                \/ tick[w][s].at = "reconciling" /\ r \in tick[w][s].selection

Armed(w) ==
    \/ gate[w].drainDirtySignal
    \/ gate[w].drainQuietTicksRemaining > 0
    \/ \E s \in Source :
        tick[w][s].at \in {"draining", "resuming", "failing", "marking"} \/ tick[w][s].resumed

\* A run its topic's own workers made ready does not wait for the safety net:
\* some worker is on it or has a drain to come, although each goes quiet after
\* one drain that found every ready run locked by the others.
ReadyRunHasAWorker ==
    (\A w \in Worker : closing[w] = "open") =>
        \A r \in Run : row[r] = "due" => Held(r) \/ \E w \in Worker : Armed(w)

\* requiredConnectionCount: "each subscribed worker holds at most one connection at
\* a time, so the total equals the number of subscribed worker instances".  When the
\* pool is used up, not every tick that holds a connection waits for another one.
PoolSuffices ==
    FreeConnection \/ \E p \in Connected : tick[p[1]][p[2]].at # "failing"

\* close() returns without a warning only when the worker is at rest for good.
ClosedMeansStopped ==
    \A w \in Worker : closing[w] = "closed" => \A s \in Source : ~Ticking(w, s)

\* "Correctness never depends on notification delivery": every message is
\* handled, whatever notifications are lost, passes fail and rows are locked.
EveryMessageIsHandled == \A r \in Run : row[r] = "emitted" ~> row[r] = "done"

\* The point of the gate: once there is nothing to do, only sweeps query.
GatesGoQuiet ==
    <>[](\A w \in Worker \ Transient :
        /\ ~gate[w].dirtySignal /\ gate[w].quietTicksRemaining = 0
        /\ ~gate[w].drainDirtySignal /\ gate[w].drainQuietTicksRemaining = 0)
=============================================================================
