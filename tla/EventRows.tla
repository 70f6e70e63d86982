----------------------------- MODULE EventRows ------------------------------
(***************************************************************************)
(* The rows of one run as PostgreSQL keeps them.  EventLoop takes two      *)
(* things for granted of the rows that carry a run's lineage:              *)
(*                                                                         *)
(*  - their created_at tells which tick a row belongs to, whatever the     *)
(*    clock does and whoever else writes to the lineage meanwhile;         *)
(*  - the flag settled_at of its SEEN row, written by the loop, by         *)
(*    reconcile and by repairSettledFlags, each on its own snapshot, never *)
(*    keeps the run from going on.                                         *)
(*                                                                         *)
(* What the steps do, and what they wait for, is left open here: a step    *)
(* inserts rows and ends in one of the ways a step may end.                *)
(***************************************************************************)
EXTENDS Naturals, FiniteSets

CONSTANTS
    Worker,     \* workers that tick the run's coroutine
    NoOne,      \* no transaction
    Repair,     \* the transaction of repairSettledFlags
    Instant,    \* what CLOCK_TIMESTAMP() may answer, at any time
    MaxTicks,   \* bound: a run with this many ticks does not suspend again
    MaxInserts, \* bound: emissions of one tick
    MaxRequests \* bound: rows that clients insert on the lineage

ASSUME EventRowsAssumption ==
    /\ NoOne \notin Worker \cup {Repair}
    /\ Repair \notin Worker
    /\ Instant \subseteq Nat /\ Instant # {}
    /\ MaxTicks \in Nat /\ MaxInserts \in Nat /\ MaxRequests \in Nat

VARIABLES
    rows,       \* committed rows of the lineage
    settled,    \* settled_at of its SEEN row is set
    requestedBy,\* the scope behind the ROLLBACK_EMITTED of the run's message
    holder,     \* the transaction that holds the SEEN row FOR UPDATE
    job,        \* worker -> what its transaction does
    back,       \* worker -> whether it resumed the run on the rollback path
    open,       \* worker -> rows inserted, not committed
    snap,       \* worker -> what its reconcile statement selected
    repair,     \* where the repair is
    ticks       \* SUSPENDED rows so far (history: numbers the ticks)

vars == <<rows, settled, requestedBy, holder, job, back, open, snap, repair, ticks>>

\* Rows a tick writes of itself carry its number, the others 0.
TickTypes == {"EMITTED", "ROLLBACK_EMITTED", "SUSPENDED"}

RunTypes == {"SEEN", "COMMITTED", "ROLLING_BACK", "ROLLED_BACK", "ROLLBACK_FAILED",
             "ROLLBACK_EMITTED", "CANCELLATION_REQUESTED"}

Row == [type : TickTypes \cup RunTypes, tick : Nat, at : Nat]

NewRow(type, tick, at) == [type |-> type, tick |-> tick, at |-> at]

\* own: requested on the run's own scope; above: on a scope above it.
Requesters == {"nobody", "own", "above"}

Snapshot == [undo : BOOLEAN, heal : BOOLEAN, stamped : BOOLEAN]

NoSnapshot == [undo |-> FALSE, heal |-> FALSE, stamped |-> FALSE]

Init ==
    /\ \E t \in Instant : rows = {NewRow("SEEN", 0, t)}
    /\ settled = FALSE
    /\ requestedBy = "nobody"
    /\ holder = NoOne
    /\ job = [w \in Worker |-> "idle"]
    /\ back = [w \in Worker |-> FALSE]
    /\ open = [w \in Worker |-> {}]
    /\ snap = [w \in Worker |-> NoSnapshot]
    /\ repair = "off"
    /\ ticks = 0

\* Every variable has the shape the code gives it; only a transaction that holds
\* the row has rows it did not commit.
TypeOK ==
    /\ rows \in SUBSET Row
    /\ settled \in BOOLEAN
    /\ requestedBy \in Requesters
    /\ holder \in Worker \cup {NoOne, Repair}
    /\ job \in [Worker -> {"idle", "step", "failed", "reconcile"}]
    /\ back \in [Worker -> BOOLEAN]
    /\ open \in [Worker -> SUBSET Row]
    /\ snap \in [Worker -> Snapshot]
    /\ repair \in {"off", "settling", "checking", "unsettling"}
    /\ ticks \in Nat
    /\ \A w \in Worker : job[w] \in {"step", "failed"} <=> holder = w
    /\ \A w \in Worker : open[w] # {} => holder = w

-----------------------------------------------------------------------------
\* created_at.

\* Mutant of IsStamp: the column default, the clock alone.
IsClock(at, clock, visible) == at = clock

\* GREATEST(CLOCK_TIMESTAMP(), max(created_at) + 1 microsecond): the max is over
\* the rows of the lineage that the statement sees.
IsStamp(at, clock, visible) ==
    /\ at >= clock
    /\ \A v \in visible : at > v.at
    /\ at = clock \/ \E v \in visible : at = v.at + 1

\* The stamps that an insert may get.
Stamps(visible) ==
    {t \in Instant \cup {v.at + 1 : v \in visible} :
        \E clock \in Instant : IsStamp(t, clock, visible)}

\* The step window of PendingCoroutineRunSql and insertRollbackEmittedEventsForStep:
\* rows before the SUSPENDED row s with no SUSPENDED row between.
Window(s) ==
    {e \in rows :
        /\ e.type \in {"EMITTED", "ROLLBACK_EMITTED"} /\ e.tick # 0
        /\ e.at < s.at
        /\ ~\E mid \in rows : mid.type = "SUSPENDED" /\ mid.at > e.at /\ mid.at < s.at}

-----------------------------------------------------------------------------
\* What the rows say.

Written(type) == \E row \in rows : row.type = type

Undoing == Written("ROLLING_BACK")

Ended == Written("ROLLED_BACK") \/ Written("ROLLBACK_FAILED")

\* candidate_seens
Candidate ==
    /\ ~settled
    /\ \/ requestedBy = "nobody" /\ ~Undoing /\ ~Written("COMMITTED")
       \/ Undoing /\ ~Ended

\* Mutant of SettledTruth: ROLLING_BACK taken for ROLLED_BACK.
UndoingOrCommitted == Undoing \/ Written("COMMITTED")

\* settledTruth of repairSettledFlags
SettledTruth == Ended \/ (Written("COMMITTED") /\ ~Undoing)

-----------------------------------------------------------------------------
\* A tick of the event loop on the run.

\* Mutant of Release: the rows of the transaction stay.
ReleaseKeepsRows(w) ==
    /\ job' = [job EXCEPT ![w] = "idle"]
    /\ back' = [back EXCEPT ![w] = FALSE]
    /\ UNCHANGED open

Release(w) ==
    /\ job' = [job EXCEPT ![w] = "idle"]
    /\ back' = [back EXCEPT ![w] = FALSE]
    /\ open' = [open EXCEPT ![w] = {}]

\* fetchPendingCoroutineRun: the SEEN row is locked FOR UPDATE SKIP LOCKED and what
\* the log says is asked again under the lock (EventLoop has both queries).
Dispatch(w) ==
    /\ job[w] = "idle"
    /\ Candidate
    /\ holder = NoOne
    /\ holder' = w
    /\ job' = [job EXCEPT ![w] = "step"]
    /\ back' = [back EXCEPT ![w] = Undoing]
    /\ UNCHANGED <<rows, settled, requestedBy, open, snap, repair, ticks>>

\* What the tick's own statements see.
Visible(w) == rows \cup open[w]

\* launch, or on the rollback path also emitRollbacksForEmissions.
Emit(w) ==
    /\ job[w] = "step"
    /\ Cardinality(open[w]) < MaxInserts
    /\ \E type \in {"EMITTED"} \cup (IF back[w] THEN {"ROLLBACK_EMITTED"} ELSE {}) :
       \E at \in Stamps(Visible(w)) :
        open' = [open EXCEPT ![w] = @ \cup {NewRow(type, ticks + 1, at)}]
    /\ UNCHANGED <<rows, settled, requestedBy, holder, job, back, snap, repair, ticks>>

\* markSuspended, and the commit.
Suspend(w) ==
    /\ job[w] = "step"
    /\ ticks < MaxTicks
    /\ \E at \in Stamps(Visible(w)) :
        rows' = Visible(w) \cup {NewRow("SUSPENDED", ticks + 1, at)}
    /\ ticks' = ticks + 1
    /\ holder' = NoOne
    /\ Release(w)
    /\ UNCHANGED <<settled, requestedBy, snap, repair>>

\* markCommitted, markRolledBack: the flag is stamped by the same statement.
Finish(w) ==
    /\ job[w] = "step"
    /\ open[w] = {}
    /\ \E at \in Stamps(Visible(w)) :
        rows' = rows \cup {NewRow(IF back[w] THEN "ROLLED_BACK" ELSE "COMMITTED", 0, at)}
    /\ settled' = TRUE
    /\ holder' = NoOne
    /\ Release(w)
    /\ UNCHANGED <<requestedBy, snap, repair, ticks>>

\* markRollingBackInSeparateTransaction, markRollbackFailedInSeparateTransaction:
\* a transaction that sees the committed rows only and skips the flag, because
\* the tick holds the SEEN row.  A second ROLLING_BACK violates its unique index.
Fail(w) ==
    /\ job[w] = "step"
    /\ job' = [job EXCEPT ![w] = "failed"]
    /\ IF ~back[w] /\ Undoing
       THEN UNCHANGED rows
       ELSE \E at \in Stamps(rows) :
            rows' = rows \cup
                {NewRow(IF back[w] THEN "ROLLBACK_FAILED" ELSE "ROLLING_BACK", 0, at)}
    /\ UNCHANGED <<settled, requestedBy, holder, back, open, snap, repair, ticks>>

\* The tick's transaction rolls back: its rows are gone.
Abort(w) ==
    /\ job[w] = "failed"
    /\ holder' = NoOne
    /\ Release(w)
    /\ UNCHANGED <<rows, settled, requestedBy, snap, repair, ticks>>

\* The process dies or a query fails, in a tick or in a reconcile.
Crash(w) ==
    /\ job[w] \in {"step", "reconcile"}
    /\ holder' = IF holder = w THEN NoOne ELSE holder
    /\ Release(w)
    /\ snap' = [snap EXCEPT ![w] = NoSnapshot]
    /\ UNCHANGED <<rows, settled, requestedBy, repair, ticks>>

-----------------------------------------------------------------------------
\* Clients: they lock nothing and see what is committed.

\* A client's row on the run's own lineage.
Request(type) ==
    /\ Cardinality({row \in rows : row.tick = 0 /\
            row.type \in {"ROLLBACK_EMITTED", "CANCELLATION_REQUESTED"}}) < MaxRequests
    /\ \E at \in Stamps(rows) : rows' = rows \cup {NewRow(type, 0, at)}

\* ROLLBACK_EMITTED on the run's own lineage, or on one above.
RequestRollback(by) ==
    /\ requestedBy = "nobody"
    /\ by # "nobody"
    /\ requestedBy' = by
    /\ IF by = "own"
       THEN Request("ROLLBACK_EMITTED")
       ELSE UNCHANGED rows
    /\ UNCHANGED <<settled, holder, job, back, open, snap, repair, ticks>>

Cancel ==
    /\ ~Written("CANCELLATION_REQUESTED")
    /\ Request("CANCELLATION_REQUESTED")
    /\ UNCHANGED <<settled, requestedBy, holder, job, back, open, snap, repair, ticks>>

-----------------------------------------------------------------------------
\* The rollback half of startContinuationsForCoroutine.

\* Mutant of Stale: nothing is ever stale.
NeverStale == FALSE

\* stale_rolling_back_unsettle
Stale == settled /\ Undoing /\ ~Ended

Due == requestedBy # "nobody" /\ ~Undoing

ReconcileBegin(w) ==
    /\ job[w] = "idle"
    /\ Due \/ Stale
    /\ job' = [job EXCEPT ![w] = "reconcile"]
    /\ snap' = [snap EXCEPT ![w] = [undo |-> Due, heal |-> Stale, stamped |-> settled]]
    /\ UNCHANGED <<rows, settled, requestedBy, holder, back, open, repair, ticks>>

\* ROLLING_BACK gets the column default of created_at, the clock.  A request on
\* the run's own scope needs the lock of its SEEN row, as clearing the flag does;
\* a row locked by another transaction is skipped.
ReconcileCommit(w) ==
    LET free   == holder = NoOne
        undo   == snap[w].undo /\ (requestedBy = "own" => free)
        clears == free /\ snap[w].stamped /\ (undo \/ snap[w].heal)
    IN  /\ job[w] = "reconcile"
        /\ IF undo /\ ~Undoing
           THEN \E clock \in Instant : rows' = rows \cup {NewRow("ROLLING_BACK", 0, clock)}
           ELSE UNCHANGED rows
        /\ settled' = (settled /\ ~clears)
        /\ snap' = [snap EXCEPT ![w] = NoSnapshot]
        /\ Release(w)
        /\ UNCHANGED <<requestedBy, holder, repair, ticks>>

-----------------------------------------------------------------------------
\* repairSettledFlags: two UPDATEs in one transaction.  Each selects on the
\* snapshot it starts from; it then waits for the row lock and asks again only
\* what the row itself says, settled_at.

RepairBegin ==
    /\ repair = "off"
    /\ ~settled /\ SettledTruth
    /\ repair' = "settling"
    /\ UNCHANGED <<rows, settled, requestedBy, holder, job, back, open, snap, ticks>>

\* The row it stamps stays locked until the transaction ends.
RepairSettle ==
    /\ repair = "settling"
    /\ holder = NoOne
    /\ settled' = TRUE
    /\ holder' = IF settled THEN NoOne ELSE Repair
    /\ repair' = "checking"
    /\ UNCHANGED <<rows, requestedBy, job, back, open, snap, ticks>>

\* The second UPDATE takes its snapshot; the first may have selected nothing.
RepairCheck ==
    /\ repair \in {"off", "checking"}
    /\ settled /\ ~SettledTruth
    /\ repair' = "unsettling"
    /\ UNCHANGED <<rows, settled, requestedBy, holder, job, back, open, snap, ticks>>

RepairUnsettle ==
    /\ repair = "unsettling"
    /\ holder \in {NoOne, Repair}
    /\ settled' = FALSE
    /\ holder' = NoOne
    /\ repair' = "off"
    /\ UNCHANGED <<rows, requestedBy, job, back, open, snap, ticks>>

\* The second UPDATE selects nothing: commit.
RepairEnd ==
    /\ repair = "checking"
    /\ ~settled \/ SettledTruth
    /\ repair' = "off"
    /\ holder' = IF holder = Repair THEN NoOne ELSE holder
    /\ UNCHANGED <<rows, settled, requestedBy, job, back, open, snap, ticks>>

-----------------------------------------------------------------------------
\* How a step that began ends of itself.
Outcome(w) == Suspend(w) \/ Finish(w) \/ Fail(w)

\* What ends a repair that began.
RepairStep ==
    \/ RepairSettle \/ RepairUnsettle \/ RepairEnd
    \/ repair = "checking" /\ RepairCheck

WorkerStep(w) ==
    \/ Dispatch(w) \/ Emit(w) \/ Outcome(w) \/ Abort(w) \/ Crash(w)
    \/ ReconcileBegin(w) \/ ReconcileCommit(w)

Next ==
    \/ \E w \in Worker : WorkerStep(w)
    \/ \E by \in Requesters : RequestRollback(by)
    \/ Cancel
    \/ RepairBegin \/ RepairSettle \/ RepairCheck \/ RepairUnsettle \/ RepairEnd

Spec == Init /\ [][Next]_vars

\* Some worker comes around to either half of its tick again and again, and not
\* every attempt crashes; the repair's transaction ends once it began, but nothing
\* makes it begin.
FairSpec ==
    /\ Spec
    /\ SF_vars(\E w \in Worker : Dispatch(w))
    /\ SF_vars(\E w \in Worker : Outcome(w))
    /\ WF_vars(\E w \in Worker : Abort(w))
    /\ SF_vars(\E w \in Worker : ReconcileBegin(w))
    /\ SF_vars(\E w \in Worker : ReconcileCommit(w))
    /\ SF_vars(RepairStep)

-----------------------------------------------------------------------------
\* "Making created_at strictly increasing per lineage removes the tie at the
\* source": the window of every SUSPENDED row holds exactly what its tick
\* emitted, and the rows are in the order of the ticks, although the clock may
\* stand still or go back, and clients and reconcile write to the lineage too.
WindowIsTick ==
    \A s \in rows : s.type = "SUSPENDED" =>
        /\ Window(s) = {e \in rows : e.tick = s.tick /\ e # s}
        /\ \A t \in rows : t.type = "SUSPENDED" /\ t.tick < s.tick => t.at < s.at

\* The flag hides only a run that committed or whose rollback is over, whoever
\* wrote it and on whatever snapshot.
OnlyFinishedIsHidden == settled => Written("COMMITTED") \/ Ended

\* SettledFlag: "a wrongly-settled row is invisible to dispatch".  A run that
\* rolls back gets to the end of it, though the flag was skipped by whoever found
\* the row locked, set on a stale snapshot, or written by a repair that ran
\* meanwhile - and without a repair to come.
RollbackGoesOn == Undoing ~> Ended
=============================================================================
