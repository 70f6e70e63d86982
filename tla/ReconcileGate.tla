---------------------------- MODULE ReconcileGate ----------------------------
(***************************************************************************)
(* The gate of one worker: which halves of a tick - reconcile, drain - are *)
(* worth running.  A gate is a record; the operators are the methods of    *)
(* ReconcileGate, from the gate before the call to the gate after it.      *)
(* Time enters as "the sweep is due" (nowNanos - nextSweepNanos >= 0).     *)
(***************************************************************************)
EXTENDS Naturals

QUIET_TICKS == 3

DRAIN_QUIET_TICKS == 1

Gate == [dirtySignal : BOOLEAN, quietTicksRemaining : 0..QUIET_TICKS,
         sweepDue : BOOLEAN,
         drainDirtySignal : BOOLEAN, drainQuietTicksRemaining : 0..DRAIN_QUIET_TICKS,
         drainSweepDue : BOOLEAN]

\* Armed, so that the first tick catches what was emitted while nobody listened.
NewGate == [dirtySignal |-> TRUE, quietTicksRemaining |-> QUIET_TICKS, sweepDue |-> FALSE,
            drainDirtySignal |-> TRUE, drainQuietTicksRemaining |-> DRAIN_QUIET_TICKS,
            drainSweepDue |-> FALSE]

\* Mutant of LessOne: a sweep of a quiet gate drives the count below zero.
LessOneUnclamped(n) == n - 1

LessOne(n) == IF n = 0 THEN 0 ELSE n - 1

MarkDirty(g) == [g EXCEPT !.dirtySignal = TRUE, !.drainDirtySignal = TRUE]

ShouldReconcile(g) == g.dirtySignal \/ g.quietTicksRemaining > 0 \/ g.sweepDue

\* What shouldReconcile leaves behind, whatever it answers.
AskedReconcile(g) ==
    IF g.dirtySignal
    THEN [g EXCEPT !.dirtySignal = FALSE, !.quietTicksRemaining = QUIET_TICKS]
    ELSE g

\* Mutant of ReconcileSucceeded: the continuations it started do not arm the drain.
ReconcileSucceededQuietly(g, inserted) ==
    [g EXCEPT !.quietTicksRemaining = IF inserted THEN QUIET_TICKS ELSE LessOne(@),
              !.sweepDue = FALSE]

ReconcileSucceeded(g, inserted) ==
    [g EXCEPT !.quietTicksRemaining = IF inserted THEN QUIET_TICKS ELSE LessOne(@),
              !.drainQuietTicksRemaining = IF inserted THEN DRAIN_QUIET_TICKS ELSE @,
              !.sweepDue = FALSE]

ReconcileFailed(g) ==
    [g EXCEPT !.quietTicksRemaining = QUIET_TICKS,
              !.drainQuietTicksRemaining = DRAIN_QUIET_TICKS]

\* Mutant of ShouldDrain: no safety sweep.
ShouldDrainWhenTold(g) == g.drainDirtySignal \/ g.drainQuietTicksRemaining > 0

ShouldDrain(g) == g.drainDirtySignal \/ g.drainQuietTicksRemaining > 0 \/ g.drainSweepDue

AskedDrain(g) ==
    IF g.drainDirtySignal
    THEN [g EXCEPT !.drainDirtySignal = FALSE, !.drainQuietTicksRemaining = DRAIN_QUIET_TICKS]
    ELSE g

\* Mutant of DrainCompleted: a drain that ran dry keeps its tail.
DrainNeverQuiet(g, resumedAnything) ==
    [g EXCEPT !.drainQuietTicksRemaining = DRAIN_QUIET_TICKS, !.drainSweepDue = FALSE]

DrainCompleted(g, resumedAnything) ==
    [g EXCEPT !.drainQuietTicksRemaining =
                  IF resumedAnything THEN DRAIN_QUIET_TICKS ELSE LessOne(@),
              !.drainSweepDue = FALSE]

DrainFailed(g) == [g EXCEPT !.drainQuietTicksRemaining = DRAIN_QUIET_TICKS]
=============================================================================
