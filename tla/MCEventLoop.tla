----------------------------- MODULE MCEventLoop -----------------------------
(***************************************************************************)
(* The cooperation hierarchies on which the event loop is checked.  order  *)
(* and other are launched from outside; ship and bill by a run.  a to d    *)
(* are workers.                                                            *)
(***************************************************************************)
EXTENDS EventLoop, TLC

CONSTANTS order, other, ship, bill, parent, child, leaf, a, b, c, d

\* What may happen: who throws, who loops, who is cancelled or rolled back.
None == {}
AllThrow == Run \X Mode
DeepThrow == ({<<order, parent>>} \X Mode) \cup {<<<<ship, child>>, "invoke">>}
ParentLoops == {parent}
ParentBackDeadline == {<<order, parent>>} \X {"rollback"}
RootScopes == {RootScope(m) : m \in RootMessage}
ParentScope == {<<order, parent>>}
ChildScope == {<<ship, child>>}
RootAndChildScopes == RootScopes \cup ChildScope

Serve == (a :> parent) @@ (b :> child)
Serve2 == Serve @@ (c :> parent)

\* Chain: parent handles order and launches ship, which child handles.
ChainListeners == (order :> {parent}) @@ (ship :> {child})
ChainEmitter == (order :> Outside) @@ (ship :> <<order, parent>>)
ChainSteps == (parent :> 2) @@ (child :> 1)
ChainEmittedIn == (order :> {}) @@ (ship :> {"invoke"})

\* Retry: parent also launches bill, if need be to repair a failure of ship.
RetryListeners == ChainListeners @@ (bill :> {child})
RetryEmitter == ChainEmitter @@ (bill :> <<order, parent>>)
RetryEmittedIn == ChainEmittedIn @@ (bill :> {"invoke", "handle", "rollback"})

\* Deep: child launches bill, which leaf handles.
DeepListeners == ChainListeners @@ (bill :> {leaf})
DeepEmitter == ChainEmitter @@ (bill :> <<ship, child>>)
DeepEmittedIn == ChainEmittedIn @@ (bill :> {"invoke"})
DeepSteps == ChainSteps @@ (leaf :> 1)
DeepServe == Serve @@ (c :> leaf)

\* Pair: two runs of parent, each with a run of child below it.
PairListeners == RetryListeners @@ (other :> {parent})
PairEmitter == ChainEmitter @@ (other :> Outside) @@ (bill :> <<other, parent>>)
PairEmittedIn == ChainEmittedIn @@ (other :> {}) @@ (bill :> {"invoke"})
=============================================================================
