----------------------------- MODULE MCTickLoop -----------------------------
(***************************************************************************)
(* Two workers of one handler on its ticks; one of them may be closed.     *)
(***************************************************************************)
EXTENDS TickLoop, TLC

CONSTANTS a, b, r1, r2

None == {}
OneTransient == {b}

\* What is checked of safety does not tell the runs apart.
RunsAlike == Permutations({r1, r2})

\* Bound: a worker closes only while at most one half of a tick failed, and the
\* queue is paused only while none did and no worker closes.  The pause loses no
\* state but for its flag: all it does is to keep timers from firing.
TroublesApart ==
    /\ (\E w \in Worker : closing[w] # "open") => failures <= 1 /\ ~shuttingDown
    /\ shuttingDown => failures = 0
=============================================================================
