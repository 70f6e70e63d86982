--------------------------- MODULE MCScopeContext ---------------------------
(***************************************************************************)
(* The event loop's hierarchies with a context on every row.  happy and    *)
(* finally are the keys; instants are small numbers.                       *)
(***************************************************************************)
EXTENDS MCEventLoop, ScopeContext

CONSTANTS happy, finally

Nothing == [entries |-> NoEntries, map |-> TRUE]
Timeout(t) == [entries |-> happy :> t, map |-> FALSE]
Composite(t) == [entries |-> happy :> t, map |-> TRUE]

\* The client sets a deadline; parent launches ship with an earlier one, a later
\* one or none, and bill with none.
Timeouts == (order :> {Timeout(2)}) @@ (ship :> {Nothing, Timeout(1), Timeout(3)})
                @@ (bill :> {Nothing})
\* As Timeouts, in a CooperationContextMap.
Composites == (order :> {Timeout(2)}) @@ (ship :> {Composite(1)})

AllKinds == StepKinds
AllButFinally == {"plain", "try"}

ParentDeadline == {<<<<order, parent>>, "happy">>}

\* child has a try/finally, or parent too.
TryInChild == (parent :> <<"plain", "plain">>) @@ (child :> <<"try", "finally">>)
TryInBoth == (parent :> <<"try", "finally">>) @@ (child :> <<"try", "finally">>)
TwoSteps == (parent :> 2) @@ (child :> 2)
=============================================================================
