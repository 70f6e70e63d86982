---------------------------- MODULE MessageEvents ----------------------------
(***************************************************************************)
(* The message_event log and the SQL that reads it: the "structured        *)
(* cooperation" readiness query (PendingCoroutineRunSql), the strategy      *)
(* fragments it embeds, and the SELECTs of the reconcile statement.        *)
(*                                                                         *)
(* The emissions and rollback requests a tick writes commit together with  *)
(* the SUSPENDED row that closes it, and created_at is strictly increasing *)
(* per lineage, so the window "between two SUSPENDED rows" is a field of   *)
(* the tick: tick.emits and tick.undoes.                                   *)
(***************************************************************************)
EXTENDS CooperationTree, Sequences

CONSTANTS
    StepCount    \* coroutine -> number of steps its builder declared

ASSUME StepAssumption == StepCount \in [Coroutine -> Nat \ {0}]

VARIABLES
    emitted,     \* messages with an EMITTED row
    seen,        \* runs with a SEEN row
    ticks,       \* run -> its SUSPENDED rows, oldest first
    marks,       \* run -> its COMMITTED / ROLLING_BACK / ROLLED_BACK / ROLLBACK_FAILED rows
    lastEvent,   \* run -> type of the newest row carrying the run's lineage
    requested,   \* message -> lineage of its ROLLBACK_EMITTED row, or Outside
    asking,      \* the ROLLBACK_EMITTED rows clients have not committed yet
    cancelled,   \* scopes with a CANCELLATION_REQUESTED row
    settled,     \* runs whose SEEN has settled_at set
    expired      \* <<run, "happy" | "rollback">> whose deadline has passed

log == <<emitted, seen, ticks, marks, lastEvent, requested, asking, cancelled, settled, expired>>

MarkType == {"COMMITTED", "ROLLING_BACK", "ROLLED_BACK", "ROLLBACK_FAILED"}

EventType == MarkType \cup
    {"none", "SEEN", "SUSPENDED", "ROLLBACK_EMITTED", "CANCELLATION_REQUESTED"}

Path == {"happy", "rollback"}

\* childFailureHandlerIteration: Normal is NO_CHILD_FAILURE, otherwise iteration + 1.
Normal == 0

\* <<"do", k>> is step k of the saga; <<"undoChildren", i>> and <<"undoSelf", i>>
\* are the synthetic rollback sub-steps of the i-th tick.
StepKind == {"do", "undoChildren", "undoSelf"}

Step == StepKind \X Nat

\* A SUSPENDED row with what its window holds.  next = 0 is next_step NULL.
Tick == [step : Step, next : Nat, iter : Nat,
         emits : SUBSET Message, undoes : SUBSET Message]

\* A client's row for a message and a scope.  ticks: how many SUSPENDED rows the
\* lineage had when the row got its created_at.
Request == [message : Message, scope : Scope, ticks : Nat]

LogInit ==
    /\ emitted = {}
    /\ seen = {}
    /\ ticks = [r \in Run |-> <<>>]
    /\ marks = [r \in Run |-> {}]
    /\ lastEvent = [r \in Run |-> "none"]
    /\ requested = [m \in Message |-> Outside]
    /\ asking = {}
    /\ cancelled = {}
    /\ settled = {}
    /\ expired = {}

LogTypeOK ==
    /\ emitted \in SUBSET Message
    /\ seen \in SUBSET Run
    /\ ticks \in [Run -> Seq(Tick)]
    /\ marks \in [Run -> SUBSET MarkType]
    /\ lastEvent \in [Run -> EventType]
    /\ requested \in [Message -> Scope \cup {Outside}]
    /\ asking \in SUBSET Request
    /\ cancelled \in SUBSET Scope
    /\ settled \in SUBSET Run
    /\ expired \in SUBSET (Run \X Path)

-----------------------------------------------------------------------------
\* What the rows say about one run.

RollingBack(r) == "ROLLING_BACK" \in marks[r]

\* The two outcomes of a rollback, the two of a run as its parent sees it.
RollbackOver(r) == marks[r] \cap {"ROLLED_BACK", "ROLLBACK_FAILED"} # {}

Terminated(r) == marks[r] \cap {"COMMITTED", "ROLLED_BACK", "ROLLBACK_FAILED"} # {}

HasTicks(r) == ticks[r] # <<>>

\* latest_suspended
Latest(r) == ticks[r][Len(ticks[r])]

\* child_emissions_in_latest_step
LatestEmits(r) == IF HasTicks(r) THEN Latest(r).emits ELSE {}

\* child_rollback_emissions_in_latest_step
LatestUndoes(r) == IF HasTicks(r) THEN Latest(r).undoes ELSE {}

-----------------------------------------------------------------------------
\* PendingCoroutineRunSql

\* Mutant of Candidate: forgets the runs that roll back.
CandidateForward(r) ==
    r \in seen \ settled /\ requested[r[1]] = Outside /\ marks[r] = {}

\* candidate_seens: an unsettled SEEN that has still something to run.  A run
\* whose rollback is requested waits for its ROLLING_BACK row.
Candidate(r) ==
    /\ r \in seen
    /\ r \notin settled
    /\ \/ /\ requested[r[1]] = Outside
          /\ marks[r] \cap {"COMMITTED", "ROLLING_BACK"} = {}
       \/ /\ RollingBack(r)
          /\ ~RollbackOver(r)

Candidates(h) == {r \in RunsOf(h) : Candidate(r)}

\* child_seens: direct children seen, of the emissions of the latest step.
ChildSeens(r) == {c \in seen : Emitter[c[1]] = r /\ c[1] \in LatestEmits(r)}

\* child_rolling_backs: direct children rolling back, whatever step emitted them.
ChildRollingBacks(r) == {c \in ChildrenOf(r) : RollingBack(c)}

\* cancellationRequested: the request sits on the run or on a scope above it.
CancellationRequested(r) == cancelled \cap Lineage[r] # {}

\* giveUpOnHappyPath, giveUpOnRollbackPath (an absolute deadline is both).
GiveUpOnHappyPath(r) == CancellationRequested(r) \/ <<r, "happy">> \in expired

GiveUpOnRollbackPath(r) == <<r, "rollback">> \in expired

\* allEmissionsHaveCorrespondingContinuationStarts.  Its inner EXISTS names no
\* run: once r has a row in the window, a start missing for ANY candidate of
\* the coroutine holds r back.
AllStarted(r, window, started) ==
    window[r] # {} =>
        \A other \in Candidates(r[2]) : \A m \in window[other] :
            \A h \in Listeners[m] : <<m, h>> \in started

AlwaysResume(r) == TRUE  \* mutant of ResumeHappyPath and ResumeRollbackPath

ResumeHappyPath(r) == AllStarted(r, [c \in Run |-> LatestEmits(c)], seen)

ResumeRollbackPath(r) ==
    AllStarted(r, [c \in Run |-> LatestUndoes(c)], {c \in Run : RollingBack(c)})

\* Mutant of Ready: started is enough, terminated is not asked for.
ReadyOnceStarted(r) ==
    /\ Candidate(r)
    /\ IF LatestUndoes(r) = {} THEN ResumeHappyPath(r) \/ GiveUpOnHappyPath(r)
                               ELSE ResumeRollbackPath(r) \/ GiveUpOnRollbackPath(r)

\* candidate_seens_waiting_to_be_processed
Ready(r) ==
    /\ Candidate(r)
    /\ \/ /\ LatestUndoes(r) = {}
          /\ ResumeHappyPath(r) \/ GiveUpOnHappyPath(r)
          /\ \A c \in ChildSeens(r) : Terminated(c)
       \/ /\ LatestUndoes(r) # {}
          /\ ResumeRollbackPath(r) \/ GiveUpOnRollbackPath(r)
          /\ \A c \in ChildRollingBacks(r) : RollbackOver(c)

\* final_select: child_rolled_back_exceptions are those of the run's children...
HasRolledBackChild(r) == ChildRollingBacks(r) # {}

\* ...while child_rollback_failed_exceptions ranges over the children of every
\* candidate of the coroutine: the subquery does not join seen_for_processing.
SeesFailedRollback(r) ==
    \E other \in Candidates(r[2]) : \E c \in ChildRollingBacks(other) :
        "ROLLBACK_FAILED" \in marks[c]

-----------------------------------------------------------------------------
\* The SELECTs of startContinuationsForCoroutine.

\* emitted_missing_seen, its lock attempt aside: the emitter's last row is a
\* SUSPENDED and the emission belongs to the tick it closed.
StartEligible(c) ==
    /\ c[1] \in emitted
    /\ c \notin seen
    /\ LET p == Emitter[c[1]]
       IN  p # Outside => lastEvent[p] = "SUSPENDED" /\ c[1] \in LatestEmits(p)

\* rollback_emitted_missing_rolling_back, its lock attempt aside.
RollbackEligible(c) ==
    /\ requested[c[1]] # Outside
    /\ c \in seen
    /\ ~RollingBack(c)

NeverStale(r) == FALSE  \* mutant of StaleSettled

\* stale_rolling_back_unsettle
StaleSettled(r) ==
    /\ r \in settled
    /\ RollingBack(r)
    /\ ~RollbackOver(r)
=============================================================================
