--------------------------- MODULE CooperationTree ---------------------------
(***************************************************************************)
(* The shape of one cooperation hierarchy: which coroutine listens to      *)
(* which message, and which run emits it.  A run of a coroutine on a       *)
(* message is what message_event calls a SEEN row; its cooperation lineage *)
(* is the lineage of the scope that emitted the message plus one fresh id, *)
(* so "A <@ B" of two lineages is "A is one of the scopes of B's lineage". *)
(***************************************************************************)
EXTENDS Naturals, FiniteSets

CONSTANTS
    Message,     \* every message that may ever be sent
    Coroutine,   \* handler names (distributedCoroutine.identifier.name)
    Listeners,   \* message -> the coroutines registered for its topic
    Emitter,     \* message -> the run that emits it, or Outside
    Outside      \* the global scope; also "no run" where a run is expected

\* SEEN is unique per (coroutine_name, message_id), so the pair names the run.
Run == UNION {{m} \X Listeners[m] : m \in Message}

RootMessage == {m \in Message : Emitter[m] = Outside}

\* A global emission opens a lineage of length one that no run has.
RootScope(m) == <<m, Outside>>

Scope == Run \cup {RootScope(m) : m \in RootMessage}

ASSUME TreeAssumption ==
    /\ Outside \notin Coroutine
    /\ Outside \notin Message
    /\ Outside \notin Scope
    /\ Listeners \in [Message -> SUBSET Coroutine]
    /\ Emitter \in [Message -> Run \cup {Outside}]

EmittingScope(m) == IF Emitter[m] = Outside THEN RootScope(m) ELSE Emitter[m]

EmittedBy(r) == {m \in Message : Emitter[m] = r}

ChildrenOf(r) == {c \in Run : Emitter[c[1]] = r}

\* Every run of one coroutine: what one fetchPendingCoroutineRun query ranges over.
RunsOf(h) == {r \in Run : r[2] = h}

\* Whatever holds s holds the scopes that led to it, emission by emission.
Ancestral(scopes) == \A c \in scopes \cap Run : EmittingScope(c[1]) \in scopes

\* The scopes whose lineage is a prefix of s's, s included: the least such set.
Lineage ==
    [s \in Scope |->
        {t \in Scope : \A scopes \in SUBSET Scope :
            s \in scopes /\ Ancestral(scopes) => t \in scopes}]

Above(s) == Lineage[s] \ {s}

Below(s) == {d \in Run : s \in Above(d)}
=============================================================================
