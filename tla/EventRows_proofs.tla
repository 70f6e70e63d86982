-------------------------- MODULE EventRows_proofs --------------------------
(***************************************************************************)
(* The stamps of EventRows, for any clock, workers and bounds: the order   *)
(* of created_at is the order of the ticks, so that the windows of the     *)
(* readiness query hold what they are meant to hold; and the flag hides    *)
(* only what is finished.                                                  *)
(*                                                                         *)
(* WindowIsTick says nothing of rows that are not committed yet.  What is  *)
(* inductive is RowsInOrder: the committed rows are in the order of their  *)
(* ticks, and the rows of the one open tick come after all of them.        *)
(***************************************************************************)
EXTENDS EventRows, TLAPS

IsEmission(row) == row.type \in {"EMITTED", "ROLLBACK_EMITTED"}

IsSuspension(row) == row.type = "SUSPENDED"

\* Committed rows of n ticks: one suspension each, in order, and each tick's
\* emissions between the suspension before and its own.
Ordered(R, n) ==
    /\ \A x \in R : x.tick # 0 => x.tick \in 1..n /\ (IsEmission(x) \/ IsSuspension(x))
    /\ \A x \in R : IsSuspension(x) => x.tick # 0
    /\ \A k \in 1..n : \E s \in R : IsSuspension(s) /\ s.tick = k
    /\ \A s, t \in R : IsSuspension(s) /\ IsSuspension(t) =>
        /\ s.tick = t.tick => s = t
        /\ t.tick < s.tick => t.at < s.at
    /\ \A e, s \in R : IsEmission(e) /\ e.tick # 0 /\ IsSuspension(s) =>
        /\ s.tick = e.tick => e.at < s.at
        /\ s.tick < e.tick => s.at < e.at

\* The rows of the tick that is not committed.
Pending(R, O, n) ==
    \A e \in O :
        /\ IsEmission(e) /\ e.tick = n + 1
        /\ \A s \in R : IsSuspension(s) => s.at < e.at

RowsInOrder ==
    /\ Ordered(rows, ticks)
    /\ \A w \in Worker : Pending(rows, open[w], ticks)

\* The flag, and the stamp the repair is about to set.
HiddenIsOver == settled \/ repair = "settling" => Written("COMMITTED") \/ Ended

-----------------------------------------------------------------------------
\* Rows and stamps.

\* A row is put together from its parts.
LEMMA NewRowIsRow ==
    ASSUME NEW type \in TickTypes \cup RunTypes, NEW tick \in Nat, NEW at \in Nat
    PROVE  /\ NewRow(type, tick, at) \in Row
           /\ NewRow(type, tick, at).type = type
           /\ NewRow(type, tick, at).tick = tick
           /\ NewRow(type, tick, at).at = at
BY DEF NewRow, Row

\* The fields of a row.
LEMMA RowFields ==
    ASSUME NEW row \in Row
    PROVE  row.tick \in Nat /\ row.at \in Nat
BY DEF Row

\* A stamp is later than every row its statement sees, whatever the clock says.
LEMMA StampIsLater ==
    ASSUME NEW visible \in SUBSET Row, NEW at \in Stamps(visible)
    PROVE  at \in Nat /\ \A v \in visible : v.at < at
<1>1. PICK clock \in Instant : IsStamp(at, clock, visible)
    BY DEF Stamps
<1>2. at \in Nat
  <2>1. CASE at \in Instant
    BY <2>1, EventRowsAssumption
  <2>2. CASE \E v \in visible : at = v.at + 1
    <3>1. PICK v \in visible : at = v.at + 1
      BY <2>2
    <3>2. v.at \in Nat
      BY RowFields
    <3> QED
      BY <3>1, <3>2
  <2> QED
    BY <2>1, <2>2 DEF Stamps
<1>3. \A v \in visible : v.at \in Nat
    BY RowFields
<1> QED
    BY <1>1, <1>2, <1>3 DEF IsStamp

\* A row that belongs to no tick disturbs none.
LEMMA PlainRowKeepsOrder ==
    ASSUME NEW R \in SUBSET Row, NEW n \in Nat, NEW x \in Row,
           x.tick = 0, ~IsSuspension(x), Ordered(R, n)
    PROVE  Ordered(R \cup {x}, n)
BY DEF Ordered

\* Nor does it come between the open tick and the committed ones.
LEMMA PlainRowKeepsPending ==
    ASSUME NEW R \in SUBSET Row, NEW n \in Nat, NEW O, NEW x \in Row,
           ~IsSuspension(x), Pending(R, O, n)
    PROVE  Pending(R \cup {x}, O, n)
BY DEF Pending

\* A suspension later than everything closes the open tick.
LEMMA SuspensionClosesTick ==
    ASSUME NEW R \in SUBSET Row, NEW O \in SUBSET Row, NEW n \in Nat, NEW x \in Row,
           Ordered(R, n), Pending(R, O, n),
           IsSuspension(x), x.tick = n + 1, \A v \in R \cup O : v.at < x.at
    PROVE  Ordered(R \cup O \cup {x}, n + 1)
<1> DEFINE S == R \cup O \cup {x}
<1>1. \A v \in S : v \in Row /\ v.tick \in Nat /\ v.at \in Nat
    BY RowFields
<1>2. \A v \in O : IsEmission(v) /\ ~IsSuspension(v) /\ v.tick = n + 1
    BY DEF Pending, IsEmission, IsSuspension
<1>3. \A v \in R : v.tick # 0 => v.tick \in 1..n
    BY DEF Ordered
<1>4. ~IsEmission(x)
    BY DEF IsEmission, IsSuspension
<1>5. \A v \in S : v.tick # 0 => v.tick \in 1..(n + 1) /\ (IsEmission(v) \/ IsSuspension(v))
    BY <1>1, <1>2 DEF Ordered
<1>6. \A v \in S : IsSuspension(v) => v.tick # 0
    BY <1>2 DEF Ordered
<1>7. \A k \in 1..(n + 1) : \E s \in S : IsSuspension(s) /\ s.tick = k
  <2>1. \A k \in 1..n : \E s \in R : IsSuspension(s) /\ s.tick = k
    BY DEF Ordered
  <2> QED
    BY <2>1
<1>8. ASSUME NEW s \in S, NEW t \in S, IsSuspension(s), IsSuspension(t)
      PROVE  (s.tick = t.tick => s = t) /\ (t.tick < s.tick => t.at < s.at)
  <2>1. (s \in R \/ s = x) /\ (t \in R \/ t = x)
    BY <1>2, <1>8
  <2>2. s \in R => s.tick \in 1..n
    BY <1>3, <1>6, <1>8
  <2>3. t \in R => t.tick \in 1..n
    BY <1>3, <1>6, <1>8
  <2>4. CASE s \in R /\ t \in R
    BY <1>8, <2>4 DEF Ordered
  <2> QED
    BY <1>1, <2>1, <2>2, <2>3, <2>4
<1>9. ASSUME NEW e \in S, NEW s \in S, IsEmission(e), e.tick # 0, IsSuspension(s)
      PROVE  (s.tick = e.tick => e.at < s.at) /\ (s.tick < e.tick => s.at < e.at)
  <2>1. (e \in R \/ e \in O) /\ (s \in R \/ s = x)
    BY <1>2, <1>4, <1>9
  <2>2. s \in R => s.tick \in 1..n
    BY <1>3, <1>6, <1>9
  <2>3. e \in R => e.tick \in 1..n
    BY <1>3, <1>9
  <2>4. CASE e \in R /\ s \in R
    BY <1>9, <2>4 DEF Ordered
  <2>5. CASE e \in O /\ s \in R
    BY <1>2, <1>9, <2>2, <2>5 DEF Pending
  <2>6. CASE s = x
    BY <1>1, <1>2, <2>1, <2>3, <2>6
  <2> QED
    BY <2>1, <2>4, <2>5, <2>6
<1> QED
    BY <1>5, <1>6, <1>7, <1>8, <1>9 DEF Ordered

\* Rows in order make every window the tick it stands for.
LEMMA OrderMakesWindows ==
    ASSUME rows \in SUBSET Row, ticks \in Nat, Ordered(rows, ticks)
    PROVE  WindowIsTick
<1>1. \A v \in rows : v.tick \in Nat /\ v.at \in Nat
    BY RowFields
<1> SUFFICES ASSUME NEW s \in rows, s.type = "SUSPENDED"
             PROVE  /\ Window(s) = {e \in rows : e.tick = s.tick /\ e # s}
                    /\ \A t \in rows : t.type = "SUSPENDED" /\ t.tick < s.tick => t.at < s.at
    BY DEF WindowIsTick
<1>2. IsSuspension(s) /\ s.tick # 0 /\ s.tick \in 1..ticks
    BY DEF Ordered, IsSuspension
<1>3. ASSUME NEW e \in Window(s)
      PROVE  e \in rows /\ e.tick = s.tick /\ e # s
  <2>1. /\ e \in rows /\ IsEmission(e) /\ e.tick # 0 /\ e.at < s.at
        /\ ~\E mid \in rows : IsSuspension(mid) /\ mid.at > e.at /\ mid.at < s.at
    BY <1>3 DEF Window, IsEmission, IsSuspension
  <2>2. ~(s.tick < e.tick)
    BY <1>1, <1>2, <2>1 DEF Ordered
  <2>3. ~(e.tick < s.tick)
    <3> SUFFICES ASSUME e.tick < s.tick PROVE FALSE
      OBVIOUS
    <3>1. e.tick \in 1..ticks
      BY <2>1 DEF Ordered
    <3>2. PICK mid \in rows : IsSuspension(mid) /\ mid.tick = e.tick
      BY <3>1 DEF Ordered
    <3>3. e.at < mid.at /\ mid.at < s.at
      BY <1>2, <2>1, <3>2 DEF Ordered
    <3> QED
      BY <1>1, <2>1, <3>2, <3>3
  <2>4. e # s
    BY <2>1 DEF IsEmission
  <2> QED
    BY <1>1, <2>1, <2>2, <2>3, <2>4
<1>4. ASSUME NEW e \in rows, e.tick = s.tick, e # s
      PROVE  e \in Window(s)
  <2>1. IsEmission(e) /\ e.tick # 0
    BY <1>2, <1>4 DEF Ordered
  <2>2. e.at < s.at
    BY <1>2, <1>4, <2>1 DEF Ordered
  <2>3. ASSUME NEW mid \in rows, IsSuspension(mid), mid.at > e.at, mid.at < s.at
        PROVE  FALSE
    <3>1. mid.tick # s.tick
      BY <1>1, <1>2, <2>3 DEF Ordered
    <3>2. ~(mid.tick < s.tick)
      BY <1>1, <1>4, <2>1, <2>3 DEF Ordered
    <3>3. ~(s.tick < mid.tick)
      BY <1>1, <1>2, <2>3 DEF Ordered
    <3> QED
      BY <1>1, <3>1, <3>2, <3>3
  <2> QED
    BY <2>1, <2>2, <2>3 DEF Window, IsEmission, IsSuspension
<1>5. \A t \in rows : t.type = "SUSPENDED" /\ t.tick < s.tick => t.at < s.at
    BY <1>2 DEF Ordered, IsSuspension
<1> QED
    BY <1>3, <1>4, <1>5

-----------------------------------------------------------------------------
\* Types.

LEMMA InitTyped == Init => TypeOK
<1> SUFFICES ASSUME Init PROVE TypeOK
    OBVIOUS
<1>1. rows \in SUBSET Row
  <2>1. PICK t \in Instant : rows = {NewRow("SEEN", 0, t)}
    BY DEF Init
  <2>2. t \in Nat /\ "SEEN" \in TickTypes \cup RunTypes
    BY EventRowsAssumption DEF RunTypes
  <2> QED
    BY <2>1, <2>2, NewRowIsRow
<1>2. NoSnapshot \in Snapshot
    BY DEF NoSnapshot, Snapshot
<1> QED
    BY <1>1, <1>2, EventRowsAssumption DEF Init, TypeOK, Requesters

\* One row more, stamped by a statement that sees some rows.
LEMMA StampedRow ==
    ASSUME NEW visible \in SUBSET Row, NEW at \in Stamps(visible),
           NEW type \in TickTypes \cup RunTypes, NEW tick \in Nat
    PROVE  visible \cup {NewRow(type, tick, at)} \in SUBSET Row
BY StampIsLater, NewRowIsRow

LEMMA WorkerTyped ==
    ASSUME TypeOK, NEW w \in Worker, WorkerStep(w)
    PROVE  TypeOK'
<1> USE EventRowsAssumption DEF TypeOK
<1>0. Visible(w) \in SUBSET Row
    BY DEF Visible
<1>1. CASE Dispatch(w)
    BY <1>1 DEF Dispatch, Undoing, Written
<1>2. CASE Emit(w)
  <2>1. PICK type \in {"EMITTED", "ROLLBACK_EMITTED"}, at \in Stamps(Visible(w)) :
            open' = [open EXCEPT ![w] = @ \cup {NewRow(type, ticks + 1, at)}]
    BY <1>2 DEF Emit
  <2>2. NewRow(type, ticks + 1, at) \in Row
    BY <1>0, NewRowIsRow, StampIsLater DEF TickTypes
  <2>3. open' \in [Worker -> SUBSET Row]
    BY <2>1, <2>2
  <2>4. \A v \in Worker : open'[v] # {} => holder = v
    BY <1>2, <2>1 DEF Emit
  <2> QED
    BY <1>2, <2>3, <2>4 DEF Emit
<1>3. CASE Suspend(w)
  <2>1. rows' \in SUBSET Row
    BY <1>0, <1>3, StampedRow DEF Suspend, TickTypes
  <2> QED
    BY <1>3, <2>1 DEF Suspend, Release
<1>4. CASE Finish(w)
  <2>1. rows' \in SUBSET Row
    <3>1. PICK at \in Stamps(Visible(w)) :
            rows' = rows \cup {NewRow(IF back[w] THEN "ROLLED_BACK" ELSE "COMMITTED", 0, at)}
      BY <1>4 DEF Finish
    <3>2. NewRow(IF back[w] THEN "ROLLED_BACK" ELSE "COMMITTED", 0, at) \in Row
      BY <1>0, NewRowIsRow, StampIsLater DEF RunTypes
    <3> QED
      BY <3>1, <3>2
  <2> QED
    BY <1>4, <2>1 DEF Finish, Release
<1>5. CASE Fail(w)
  <2>1. rows' \in SUBSET Row
    <3>1. CASE rows' = rows
      BY <3>1
    <3>2. CASE \E at \in Stamps(rows) : rows' = rows \cup
                {NewRow(IF back[w] THEN "ROLLBACK_FAILED" ELSE "ROLLING_BACK", 0, at)}
      BY <3>2, StampedRow DEF RunTypes
    <3> QED
      BY <1>5, <3>1, <3>2 DEF Fail
  <2> QED
    BY <1>5, <2>1 DEF Fail
<1>6. CASE Abort(w)
    BY <1>6 DEF Abort, Release
<1>7. CASE Crash(w)
  <2>1. NoSnapshot \in Snapshot
    BY DEF NoSnapshot, Snapshot
  <2> QED
    BY <1>7, <2>1 DEF Crash, Release
<1>8. CASE ReconcileBegin(w)
  <2>1. [undo |-> Due, heal |-> Stale, stamped |-> settled] \in Snapshot
    BY DEF Snapshot, Due, Stale, Undoing, Ended, Written
  <2>2. snap' \in [Worker -> Snapshot]
    BY <1>8, <2>1 DEF ReconcileBegin
  <2> QED
    BY <1>8, <2>2 DEF ReconcileBegin
<1>9. CASE ReconcileCommit(w)
  <2>1. rows' \in SUBSET Row
    <3>1. CASE rows' = rows
      BY <3>1
    <3>2. CASE \E clock \in Instant : rows' = rows \cup {NewRow("ROLLING_BACK", 0, clock)}
      BY <3>2, NewRowIsRow DEF RunTypes
    <3> QED
      BY <1>9, <3>1, <3>2 DEF ReconcileCommit
  <2>2. NoSnapshot \in Snapshot
    BY DEF NoSnapshot, Snapshot
  <2>3. settled' \in BOOLEAN
    BY <1>9 DEF ReconcileCommit
  <2> QED
    BY <1>9, <2>1, <2>2, <2>3 DEF ReconcileCommit, Release
<1> QED
    BY <1>1, <1>2, <1>3, <1>4, <1>5, <1>6, <1>7, <1>8, <1>9 DEF WorkerStep, Outcome

LEMMA ClientTyped ==
    ASSUME TypeOK, (\E by \in Requesters : RequestRollback(by)) \/ Cancel
    PROVE  TypeOK'
<1> USE DEF TypeOK
<1>1. ASSUME NEW type \in {"ROLLBACK_EMITTED", "CANCELLATION_REQUESTED"}, Request(type)
      PROVE  rows' \in SUBSET Row
    BY <1>1, StampedRow DEF Request, RunTypes
<1>2. CASE \E by \in Requesters : RequestRollback(by)
    BY <1>1, <1>2 DEF RequestRollback
<1>3. CASE Cancel
    BY <1>1, <1>3 DEF Cancel
<1> QED
    BY <1>2, <1>3

LEMMA RepairTyped ==
    ASSUME TypeOK,
           RepairBegin \/ RepairSettle \/ RepairCheck \/ RepairUnsettle \/ RepairEnd
    PROVE  TypeOK'
BY EventRowsAssumption
    DEF TypeOK, RepairBegin, RepairSettle, RepairCheck, RepairUnsettle, RepairEnd

LEMMA StepTyped == TypeOK /\ [Next]_vars => TypeOK'
<1>1. ASSUME TypeOK, UNCHANGED vars PROVE TypeOK'
    BY <1>1 DEF TypeOK, vars
<1> QED
    BY <1>1, WorkerTyped, ClientTyped, RepairTyped DEF Next

\* Every variable stays in its domain, and only the transaction that holds the
\* SEEN row has rows it did not commit.
THEOREM RowsTyped == Spec => []TypeOK
BY InitTyped, StepTyped, PTL DEF Spec

-----------------------------------------------------------------------------
\* The order of the rows.

LEMMA InitInOrder == Init => RowsInOrder
<1> SUFFICES ASSUME Init PROVE RowsInOrder
    OBVIOUS
<1>1. PICK t \in Instant : rows = {NewRow("SEEN", 0, t)}
    BY DEF Init
<1> QED
    BY <1>1 DEF Init, RowsInOrder, Ordered, Pending, NewRow, IsSuspension, IsEmission

\* Whoever inserts a row of no tick keeps the order, open rows included.
LEMMA PlainInsertInOrder ==
    ASSUME TypeOK, RowsInOrder, NEW type \in RunTypes, NEW at \in Nat,
           rows' = rows \cup {NewRow(type, 0, at)}, ticks' = ticks,
           \A w \in Worker : open'[w] \in {open[w], {}}
    PROVE  RowsInOrder'
<1> DEFINE x == NewRow(type, 0, at)
<1>1. x \in Row /\ x.tick = 0 /\ ~IsSuspension(x)
    BY DEF NewRow, Row, IsSuspension, RunTypes
<1>2. rows \in SUBSET Row /\ ticks \in Nat
    BY DEF TypeOK
<1>3. Ordered(rows', ticks')
    BY <1>1, <1>2, PlainRowKeepsOrder DEF RowsInOrder
<1>4. ASSUME NEW w \in Worker PROVE Pending(rows', open'[w], ticks')
  <2>1. Pending(rows', open[w], ticks')
    BY <1>1, <1>2, PlainRowKeepsPending DEF RowsInOrder
  <2> QED
    BY <2>1 DEF Pending
<1> QED
    BY <1>3, <1>4 DEF RowsInOrder

\* A step that commits no row keeps the order: it may only drop open rows.
LEMMA NoInsertInOrder ==
    ASSUME RowsInOrder, rows' = rows, ticks' = ticks,
           \A w \in Worker : open'[w] \in {open[w], {}}
    PROVE  RowsInOrder'
BY DEF RowsInOrder, Pending

LEMMA WorkerInOrder ==
    ASSUME TypeOK, RowsInOrder, NEW w \in Worker, WorkerStep(w)
    PROVE  RowsInOrder'
<1>0. /\ Visible(w) \in SUBSET Row /\ rows \in SUBSET Row /\ rows \subseteq Visible(w)
      /\ ticks \in Nat /\ open[w] \in SUBSET Row
    BY DEF TypeOK, Visible
<1>1. ASSUME Release(w) PROVE \A v \in Worker : open'[v] \in {open[v], {}}
    BY <1>1 DEF Release, TypeOK
<1>2. CASE Dispatch(w)
    BY <1>2, NoInsertInOrder DEF Dispatch
<1>3. CASE Emit(w)
  <2>1. PICK type \in {"EMITTED", "ROLLBACK_EMITTED"}, at \in Stamps(Visible(w)) :
            open' = [open EXCEPT ![w] = @ \cup {NewRow(type, ticks + 1, at)}]
    BY <1>3 DEF Emit
  <2> DEFINE x == NewRow(type, ticks + 1, at)
  <2>2. IsEmission(x) /\ x.tick = ticks + 1 /\ \A s \in rows : s.at < x.at
    BY <1>0, StampIsLater, NewRowIsRow DEF IsEmission, TickTypes
  <2>3. ASSUME NEW v \in Worker PROVE Pending(rows, open'[v], ticks)
    <3>1. open'[v] \subseteq open[v] \cup {x}
      BY <2>1 DEF TypeOK
    <3> QED
      BY <2>2, <3>1 DEF RowsInOrder, Pending
  <2> QED
    BY <1>3, <2>3 DEF Emit, RowsInOrder
<1>4. CASE Suspend(w)
  <2>1. PICK at \in Stamps(Visible(w)) :
            rows' = Visible(w) \cup {NewRow("SUSPENDED", ticks + 1, at)}
    BY <1>4 DEF Suspend
  <2> DEFINE x == NewRow("SUSPENDED", ticks + 1, at)
  <2>2. /\ x \in Row /\ IsSuspension(x) /\ x.tick = ticks + 1
        /\ \A v \in rows \cup open[w] : v.at < x.at
    BY <1>0, StampIsLater, NewRowIsRow DEF IsSuspension, TickTypes, Visible
  <2>3. Ordered(rows', ticks')
    BY <1>0, <1>4, <2>1, <2>2, SuspensionClosesTick DEF Suspend, RowsInOrder, Visible
  <2>4. ASSUME NEW v \in Worker PROVE open'[v] = {}
    BY <1>4 DEF Suspend, Release, TypeOK
  <2> QED
    BY <2>3, <2>4 DEF RowsInOrder, Pending
<1>5. CASE Finish(w)
  <2>1. PICK at \in Stamps(Visible(w)) :
            rows' = rows \cup {NewRow(IF back[w] THEN "ROLLED_BACK" ELSE "COMMITTED", 0, at)}
    BY <1>5 DEF Finish
  <2>2. (IF back[w] THEN "ROLLED_BACK" ELSE "COMMITTED") \in RunTypes /\ at \in Nat
    BY <1>0, StampIsLater DEF RunTypes
  <2> QED
    BY <1>1, <1>5, <2>1, <2>2, PlainInsertInOrder DEF Finish
<1>6. CASE Fail(w)
  <2>1. CASE rows' = rows
    BY <1>6, <2>1, NoInsertInOrder DEF Fail
  <2>2. CASE \E at \in Stamps(rows) : rows' = rows \cup
                {NewRow(IF back[w] THEN "ROLLBACK_FAILED" ELSE "ROLLING_BACK", 0, at)}
    <3>1. PICK at \in Stamps(rows) : rows' = rows \cup
                {NewRow(IF back[w] THEN "ROLLBACK_FAILED" ELSE "ROLLING_BACK", 0, at)}
      BY <2>2
    <3>2. (IF back[w] THEN "ROLLBACK_FAILED" ELSE "ROLLING_BACK") \in RunTypes /\ at \in Nat
      BY <1>0, StampIsLater DEF RunTypes
    <3> QED
      BY <1>6, <3>1, <3>2, PlainInsertInOrder DEF Fail
  <2> QED
    BY <1>6, <2>1, <2>2 DEF Fail
<1>7. CASE Abort(w)
    BY <1>1, <1>7, NoInsertInOrder DEF Abort
<1>8. CASE Crash(w)
    BY <1>1, <1>8, NoInsertInOrder DEF Crash
<1>9. CASE ReconcileBegin(w)
    BY <1>9, NoInsertInOrder DEF ReconcileBegin
<1>10. CASE ReconcileCommit(w)
  <2>1. CASE rows' = rows
    BY <1>1, <1>10, <2>1, NoInsertInOrder DEF ReconcileCommit
  <2>2. CASE \E clock \in Instant : rows' = rows \cup {NewRow("ROLLING_BACK", 0, clock)}
    <3>1. PICK clock \in Instant : rows' = rows \cup {NewRow("ROLLING_BACK", 0, clock)}
      BY <2>2
    <3>2. "ROLLING_BACK" \in RunTypes /\ clock \in Nat
      BY EventRowsAssumption DEF RunTypes
    <3> QED
      BY <1>1, <1>10, <3>1, <3>2, PlainInsertInOrder DEF ReconcileCommit
  <2> QED
    BY <1>10, <2>1, <2>2 DEF ReconcileCommit
<1> QED
    BY <1>2, <1>3, <1>4, <1>5, <1>6, <1>7, <1>8, <1>9, <1>10 DEF WorkerStep, Outcome

LEMMA ClientInOrder ==
    ASSUME TypeOK, RowsInOrder, (\E by \in Requesters : RequestRollback(by)) \/ Cancel
    PROVE  RowsInOrder'
<1>1. ASSUME NEW type \in {"ROLLBACK_EMITTED", "CANCELLATION_REQUESTED"}, Request(type),
             ticks' = ticks, open' = open
      PROVE  RowsInOrder'
  <2>1. PICK at \in Stamps(rows) : rows' = rows \cup {NewRow(type, 0, at)}
    BY <1>1 DEF Request
  <2>2. at \in Nat /\ type \in RunTypes
    BY <1>1, StampIsLater DEF RunTypes, TypeOK
  <2> QED
    BY <1>1, <2>1, <2>2, PlainInsertInOrder
<1>2. CASE \E by \in Requesters : RequestRollback(by)
    BY <1>1, <1>2, NoInsertInOrder DEF RequestRollback
<1>3. CASE Cancel
    BY <1>1, <1>3 DEF Cancel
<1> QED
    BY <1>2, <1>3

LEMMA StepInOrder == TypeOK /\ RowsInOrder /\ [Next]_vars => RowsInOrder'
<1>1. ASSUME RowsInOrder,
             RepairBegin \/ RepairSettle \/ RepairCheck \/ RepairUnsettle \/ RepairEnd
                \/ UNCHANGED vars
      PROVE  RowsInOrder'
    BY <1>1, NoInsertInOrder
        DEF RepairBegin, RepairSettle, RepairCheck, RepairUnsettle, RepairEnd, vars
<1> QED
    BY <1>1, WorkerInOrder, ClientInOrder DEF Next

\* The window that the readiness query and the rollback of a step put around a
\* SUSPENDED row holds what its tick emitted and nothing else, for any clock.
THEOREM WindowsAreTicks == Spec => []WindowIsTick
<1>1. TypeOK /\ RowsInOrder => WindowIsTick
    BY OrderMakesWindows DEF TypeOK, RowsInOrder
<1> QED
    BY <1>1, InitTyped, InitInOrder, StepTyped, StepInOrder, PTL DEF Spec

-----------------------------------------------------------------------------
\* The flag.

\* Rows are never deleted.
LEMMA RowsStay == Next => rows \subseteq rows'
<1>1. ASSUME NEW w \in Worker, WorkerStep(w) PROVE rows \subseteq rows'
    BY <1>1 DEF WorkerStep, Outcome, Dispatch, Emit, Suspend, Finish, Fail, Abort, Crash,
                ReconcileBegin, ReconcileCommit, Visible
<1>2. ASSUME (\E by \in Requesters : RequestRollback(by)) \/ Cancel PROVE rows \subseteq rows'
    BY <1>2 DEF RequestRollback, Cancel, Request
<1>3. ASSUME RepairBegin \/ RepairSettle \/ RepairCheck \/ RepairUnsettle \/ RepairEnd
      PROVE  rows \subseteq rows'
    BY <1>3 DEF RepairBegin, RepairSettle, RepairCheck, RepairUnsettle, RepairEnd
<1> QED
    BY <1>1, <1>2, <1>3 DEF Next

\* Who sets the flag: a tick that ends its run, and a repair that found it over.
LEMMA StepHidden == HiddenIsOver /\ [Next]_vars => HiddenIsOver'
<1> DEFINE Done == Written("COMMITTED") \/ Ended
<1> SUFFICES ASSUME HiddenIsOver, [Next]_vars PROVE HiddenIsOver'
    OBVIOUS
<1>1. CASE UNCHANGED vars
    BY <1>1 DEF HiddenIsOver, Written, Ended, vars
<1>2. CASE Next
  <2>1. Done => Done'
    BY <1>2, RowsStay DEF Written, Ended
  <2>2. ASSUME NEW w \in Worker, Finish(w) PROVE Done'
    <3>1. PICK at \in Stamps(Visible(w)) :
            rows' = rows \cup {NewRow(IF back[w] THEN "ROLLED_BACK" ELSE "COMMITTED", 0, at)}
      BY <2>2 DEF Finish
    <3>2. NewRow(IF back[w] THEN "ROLLED_BACK" ELSE "COMMITTED", 0, at) \in rows'
      BY <3>1
    <3>3. \E x \in rows' : x.type = "ROLLED_BACK" \/ x.type = "COMMITTED"
      BY <3>2 DEF NewRow
    <3> QED
      BY <3>3 DEF Written, Ended
  <2>3. RepairBegin => Done'
    BY <2>1 DEF RepairBegin, SettledTruth
  <2>4. RepairSettle => Done'
    BY <2>1 DEF RepairSettle, HiddenIsOver
  <2>5. ASSUME NEW w \in Worker, WorkerStep(w), ~Finish(w)
        PROVE  (settled' => settled) /\ repair' = repair
    <3>1. CASE ReconcileCommit(w)
      BY <3>1 DEF ReconcileCommit
    <3> QED
      BY <2>5, <3>1 DEF WorkerStep, Outcome, Dispatch, Emit, Suspend, Fail, Abort, Crash,
                        ReconcileBegin
  <2>6. ASSUME (\E by \in Requesters : RequestRollback(by)) \/ Cancel
        PROVE  (settled' => settled) /\ repair' = repair
    BY <2>6 DEF RequestRollback, Cancel
  <2>7. ASSUME RepairCheck \/ RepairUnsettle \/ RepairEnd
        PROVE  (settled' => settled) /\ repair' # "settling"
    BY <2>7 DEF RepairCheck, RepairUnsettle, RepairEnd
  <2> QED
    BY <1>2, <2>1, <2>2, <2>3, <2>4, <2>5, <2>6, <2>7 DEF Next, HiddenIsOver
<1> QED
    BY <1>1, <1>2

\* Whatever the loop, reconcile and the repair do on stale snapshots, a run that
\* is hidden from dispatch has committed or has ended its rollback.
THEOREM HiddenIsFinished == Spec => []OnlyFinishedIsHidden
<1>1. Init => HiddenIsOver
    BY DEF Init, HiddenIsOver
<1>2. HiddenIsOver => OnlyFinishedIsHidden
    BY DEF HiddenIsOver, OnlyFinishedIsHidden
<1> QED
    BY <1>1, <1>2, StepHidden, PTL DEF Spec
=============================================================================
