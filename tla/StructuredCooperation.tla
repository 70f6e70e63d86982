------------------------ MODULE StructuredCooperation ------------------------
(***************************************************************************)
(* What the event loop promises about a cooperation hierarchy, without     *)
(* rows, locks or transactions: a run executes only while none of its      *)
(* children does, commits only over committed children, and is rolled back *)
(* only over children that are rolled back.                                *)
(***************************************************************************)
EXTENDS CooperationTree

VARIABLES
    launched,  \* messages sent
    repairs,   \* those sent by a run that was rolling back
    status,    \* run -> how far it got
    busy       \* runs of which a step is being executed

Status == {"absent", "started", "committed", "rollingBack", "rolledBack", "rollbackFailed"}

promise == <<launched, repairs, status, busy>>

Init ==
    /\ launched = {}
    /\ repairs = {}
    /\ status = [r \in Run |-> "absent"]
    /\ busy = {}

HandlersOf(messages) == {r \in Run : r[1] \in messages}

\* Neither running forward nor rolling back.
AtRest(r) == status[r] \notin {"started", "rollingBack"}

Launch(m) ==
    /\ m \in RootMessage \ launched
    /\ launched' = launched \cup {m}
    /\ UNCHANGED <<repairs, status, busy>>

\* Handlers start while their parent waits; one whose rollback was requested
\* before it started has only that rollback to run.
Start(runs) ==
    /\ \A r \in runs :
        /\ status[r] = "absent"
        /\ r[1] \in launched
        /\ Emitter[r[1]] \notin busy
    /\ \E forward \in SUBSET runs :
        status' = [r \in Run |-> IF r \in forward THEN "started"
                                 ELSE IF r \in runs THEN "rollingBack"
                                 ELSE status[r]]
    /\ UNCHANGED <<launched, repairs, busy>>

\* A step begins only once everything the run has launched is at rest.
Enter(r) ==
    /\ status[r] \in {"started", "rollingBack"}
    /\ r \notin busy
    /\ \A c \in ChildrenOf(r) : AtRest(c)
    /\ busy' = busy \cup {r}
    /\ UNCHANGED <<launched, repairs, status>>

\* A step ends, having launched some messages, or having launched none because
\* its transaction was rolled back.
Leave(r) ==
    /\ r \in busy
    /\ \E messages \in SUBSET (EmittedBy(r) \ launched) :
        /\ launched' = launched \cup messages
        /\ repairs' = IF status[r] = "started" THEN repairs ELSE repairs \cup messages
    /\ busy' = busy \ {r}
    /\ UNCHANGED status

\* A run commits when every handler of everything it launched committed.
Commit(r) ==
    /\ r \in busy
    /\ status[r] = "started"
    /\ \A c \in HandlersOf(launched \cap EmittedBy(r)) : status[c] = "committed"
    /\ status' = [status EXCEPT ![r] = "committed"]
    /\ busy' = busy \ {r}
    /\ UNCHANGED <<launched, repairs>>

\* A step failed, its run turns around.
Turn(r) ==
    /\ r \in busy
    /\ status[r] = "started"
    /\ status' = [status EXCEPT ![r] = "rollingBack"]
    /\ UNCHANGED <<launched, repairs, busy>>

\* A run is told to roll back what it was told to do: by its parent, in the
\* course of the parent's own rollback, or by a client.
Undo(messages) ==
    /\ \A m \in messages : Emitter[m] # Outside =>
        Emitter[m] \in busy /\ status[Emitter[m]] = "rollingBack"
    /\ \A r \in HandlersOf(messages) : status[r] # "started"
    /\ status' = [r \in Run |-> IF r[1] \in messages /\ status[r] = "committed"
                                THEN "rollingBack" ELSE status[r]]
    /\ busy' = busy \ {Emitter[m] : m \in messages}
    /\ UNCHANGED <<launched, repairs>>

\* "If something rolled back, then everything must've rolled back."
RolledBack(r) ==
    /\ r \in busy
    /\ status[r] = "rollingBack"
    /\ \A c \in HandlersOf((launched \cap EmittedBy(r)) \ repairs) : status[c] = "rolledBack"
    /\ status' = [status EXCEPT ![r] = "rolledBack"]
    /\ busy' = busy \ {r}
    /\ UNCHANGED <<launched, repairs>>

Abandon(r) ==
    /\ r \in busy
    /\ status[r] = "rollingBack"
    /\ status' = [status EXCEPT ![r] = "rollbackFailed"]
    /\ UNCHANGED <<launched, repairs, busy>>

Next ==
    \/ \E m \in Message : Launch(m)
    \/ \E runs \in SUBSET Run : Start(runs)
    \/ \E messages \in SUBSET Message : Undo(messages)
    \/ \E r \in Run :
        Enter(r) \/ Leave(r) \/ Commit(r) \/ Turn(r) \/ RolledBack(r) \/ Abandon(r)

Spec == Init /\ [][Next]_promise
=============================================================================
