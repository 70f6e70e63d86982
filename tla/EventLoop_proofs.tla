--------------------------- MODULE EventLoop_proofs ---------------------------
(***************************************************************************)
(* What holds of the event loop for every hierarchy, every number of       *)
(* workers and every bound: types, one lock holder per run, the wait for   *)
(* children, the order of compensation.                                    *)
(***************************************************************************)
EXTENDS EventLoop, WellFoundedInduction, TLAPS

\* The newest of the ticks below i exists whenever there is one.
LEMMA NewestExists ==
    ASSUME NEW T \in SUBSET Nat, NEW i \in Nat, \E j \in T : j < i
    PROVE  \E j \in T : j < i /\ \A k \in T : k < i => k <= j
<1> DEFINE D == {i - j : j \in {k \in T : k < i}}
<1>1. D \subseteq Nat /\ D # {}
  OBVIOUS
<1>2. PICK d \in D : \A e \in D : ~(<<e, d>> \in OpToRel(<, Nat))
  BY <1>1, NatLessThanWellFounded, WFMin
<1>3. \A e \in D : ~(e < d)
  BY <1>1, <1>2 DEF OpToRel
<1>4. PICK j \in {k \in T : k < i} : d = i - j
  OBVIOUS
<1>5. ASSUME NEW k \in T, k < i
      PROVE  k <= j
  <2>1. ~(i - k < i - j)
    BY <1>3, <1>4, <1>5
  <2> QED
    BY <2>1, <1>4, <1>5
<1> QED
  BY <1>4, <1>5

-----------------------------------------------------------------------------
\* Types of the constants and of what is read from the log.

LEMMA TreeTypes ==
    /\ Outside \notin Run
    /\ \A r \in Run : r[1] \in Message /\ r[2] \in Coroutine
    /\ \A s \in Scope : s[1] \in Message
    /\ \A m \in Message : Emitter[m] \in Run \cup {Outside}
    /\ \A h : RunsOf(h) \subseteq Run
<1>1. \A r \in Run : r[1] \in Message /\ r[2] \in Coroutine
  BY TreeAssumption DEF Run
<1>2. \A s \in Scope : s[1] \in Message
  BY <1>1 DEF Scope, RootScope, RootMessage
<1> QED
  BY <1>1, <1>2, TreeAssumption DEF RunsOf, Scope

LEMMA TickTypes ==
    ASSUME TypeOK, NEW r \in Run
    PROVE  /\ ticks[r] \in Seq(Tick)
           /\ Len(ticks[r]) \in Nat
           /\ DOMAIN ticks[r] = 1 .. Len(ticks[r])
           /\ \A i \in DOMAIN ticks[r] :
                /\ ticks[r][i] \in Tick
                /\ ticks[r][i].step \in Step
                /\ ticks[r][i].step[1] \in StepKind
                /\ ticks[r][i].step[2] \in Nat
                /\ ticks[r][i].iter \in Nat
                /\ ticks[r][i].next \in 0 .. StepCount[r[2]]
                /\ ticks[r][i].emits \in SUBSET Message
                /\ ticks[r][i].undoes \in SUBSET Message
                /\ IsStepOf(r, ticks[r][i].step)
           /\ HasTicks(r) => Len(ticks[r]) \in DOMAIN ticks[r]
           /\ StepCount[r[2]] \in Nat \ {0}
<1>1. ticks[r] \in Seq(Tick)
  BY DEF TypeOK, LogTypeOK
<1>2. /\ Len(ticks[r]) \in Nat
      /\ DOMAIN ticks[r] = 1 .. Len(ticks[r])
      /\ \A i \in DOMAIN ticks[r] : ticks[r][i] \in Tick
      /\ HasTicks(r) => Len(ticks[r]) \in DOMAIN ticks[r]
  BY <1>1 DEF HasTicks
<1>3. \A t \in Tick : /\ t.step \in Step /\ t.step[1] \in StepKind /\ t.step[2] \in Nat
                      /\ t.iter \in Nat
                      /\ t.emits \in SUBSET Message /\ t.undoes \in SUBSET Message
  BY DEF Tick, Step
<1>4. StepCount[r[2]] \in Nat \ {0}
  BY TreeTypes, StepAssumption
<1>5. \A i \in DOMAIN ticks[r] :
        IsStepOf(r, ticks[r][i].step) /\ ticks[r][i].next \in 0 .. StepCount[r[2]]
  BY DEF TypeOK
<1> QED
  BY <1>1, <1>2, <1>3, <1>4, <1>5

\* A synthetic sub-step names the tick of a user step of its run, or is the sentinel.
InRange(r, s) == s[1] = "do" \/ s = Sentinel \/ s[2] \in Originals(r)

Ranged ==
    /\ \A w \in Worker : pc[w] = "running" => InRange(pick[w], plan[w].step)
    /\ \A r \in Run : \A i \in DOMAIN ticks[r] : InRange(r, ticks[r][i].step)

LEMMA NewestBelowIsTick ==
    ASSUME TypeOK, NEW r \in Run, NEW i \in Nat, HasOlder(r, i)
    PROVE  /\ NewestBelow(r, i) \in Originals(r)
           /\ NewestBelow(r, i) \in DOMAIN ticks[r]
           /\ NewestBelow(r, i) \in Nat
           /\ NewestBelow(r, i) < i
<1>1. Originals(r) \in SUBSET Nat /\ Originals(r) \subseteq DOMAIN ticks[r]
  BY TickTypes DEF Originals
<1>2. \E j \in Originals(r) : j < i /\ \A k \in Originals(r) : k < i => k <= j
  BY <1>1, NewestExists DEF HasOlder
<1> QED
  BY <1>1, <1>2 DEF NewestBelow

\* What is found under the name of a sub-step is one of the same step and iteration,
\* the sub-step itself where names are distinct.
LEMMA FoundIsTick ==
    ASSUME TypeOK, NEW r \in Run, NEW s \in Step, s[2] \in Originals(r)
    PROVE  \E j \in Namesakes(r, s[2]) :
             /\ Found(r, s) = <<s[1], j>>
             /\ j \in Originals(r) /\ j \in Nat /\ s[2] <= j
             /\ ticks[r][j].step = ticks[r][s[2]].step
             /\ ticks[r][j].iter = ticks[r][s[2]].iter
<1>1. PICK i, N : i = s[2] /\ N = Namesakes(r, i)
  OBVIOUS
<1>2. DOMAIN ticks[r] = 1 .. Len(ticks[r]) /\ Len(ticks[r]) \in Nat
  BY TickTypes
<1>3. i \in N /\ N \in SUBSET Nat /\ N \subseteq Originals(r)
  BY <1>1, <1>2 DEF Namesakes, Originals
<1>4. \A k \in N : k \in Nat /\ k < Len(ticks[r]) + 1
  BY <1>2, <1>3 DEF Originals
<1>5. \E j \in N : \A k \in N : k <= j
  <2>1. Len(ticks[r]) + 1 \in Nat /\ \E j \in N : j < Len(ticks[r]) + 1
    BY <1>2, <1>3, <1>4
  <2>2. \E j \in N : \A k \in N : k < Len(ticks[r]) + 1 => k <= j
    BY <1>3, <2>1, NewestExists
  <2> QED
    BY <1>4, <2>2
<1>6. PICK j \in N : j = (CHOOSE x \in N : \A k \in N : k <= x) /\ \A k \in N : k <= j
  BY <1>5
<1>7. Found(r, s) = <<s[1], j>>
  BY <1>1, <1>6 DEF Found
<1>8. ticks[r][j].step = ticks[r][i].step /\ ticks[r][j].iter = ticks[r][i].iter
  <2>1. j \in Namesakes(r, i)
    BY <1>1, <1>6
  <2> HIDE DEF Namesakes
  <2> QED
    BY <2>1 DEF Namesakes
<1> QED
  BY <1>1, <1>3, <1>6, <1>7, <1>8

LEMMA FoundItself ==
    ASSUME TypeOK, NEW r \in Run, DistinctNames(r), NEW s \in Step, s[2] \in Originals(r)
    PROVE  Found(r, s) = s
<1>1. s = <<s[1], s[2]>>
  BY DEF Step
<1>2. Namesakes(r, s[2]) = {s[2]}
  BY DEF DistinctNames
<1> QED
  BY <1>1, <1>2, FoundIsTick

-----------------------------------------------------------------------------
\* The continuation a worker builds from a well-typed log is well typed.

PlanOK(r, p) ==
    /\ p \in Plan
    /\ IsStepOf(r, p.step)
    /\ InRange(r, p.step)

\* A suspension point the plan can be built from.
PointOK(r, pt) ==
    /\ pt.next \in Step /\ pt.previous \in Step
    /\ pt.last \in BOOLEAN /\ pt.iter \in Nat
    /\ IsStepOf(r, pt.next) /\ IsStepOf(r, pt.previous)
    /\ InRange(r, pt.next) /\ InRange(r, pt.previous)

LEMMA HappyPointOK ==
    ASSUME TypeOK, Ranged, NEW r \in Run
    PROVE  PointOK(r, HappyPoint(r))
<1>1. StepCount[r[2]] \in Nat \ {0}
  BY TickTypes
<1>2. \A k \in Nat : <<"do", k>> \in Step /\ InRange(r, <<"do", k>>)
  BY DEF Step, StepKind, InRange
<1>3. \A k \in 1 .. StepCount[r[2]] : IsStepOf(r, <<"do", k>>)
  BY DEF IsStepOf
<1>4. CASE ~HasTicks(r)
  BY <1>1, <1>2, <1>3, <1>4 DEF HappyPoint, PointOK, Normal
<1>5. CASE HasTicks(r)
  <2>1. /\ Latest(r).step \in Step /\ IsStepOf(r, Latest(r).step)
        /\ InRange(r, Latest(r).step) /\ Latest(r).iter \in Nat
        /\ Latest(r).next \in 0 .. StepCount[r[2]]
    BY <1>5, TickTypes DEF Latest, Ranged
  <2> QED
    BY <1>1, <1>2, <1>3, <1>5, <2>1 DEF HappyPoint, PointOK
<1> QED
  BY <1>4, <1>5

LEMMA RollbackPointOK ==
    ASSUME TypeOK, Ranged, NEW r \in Run, RollingBack(r), ~NotFound(r)
    PROVE  /\ PointOK(r, RollbackPoint(r))
           /\ RollbackPoint(r).next[1] # "do"
           /\ RollbackPoint(r).previous[1] # "do"
<1>1. Sentinel \in Step /\ IsStepOf(r, Sentinel) /\ InRange(r, Sentinel) /\ Sentinel[1] # "do"
  BY DEF Sentinel, Step, StepKind, IsStepOf, InRange
<1>2. CASE ~HasTicks(r)
  BY <1>1, <1>2 DEF RollbackPoint, PointOK, Normal
<1>3. CASE HasTicks(r)
  <2> DEFINE l == Latest(r).step
             s == Found(r, l)
  <2>1. /\ l \in Step /\ l[1] \in StepKind /\ InRange(r, l) /\ Latest(r).iter \in Nat
        /\ Len(ticks[r]) \in DOMAIN ticks[r] /\ Len(ticks[r]) \in Nat
    BY <1>3, TickTypes DEF Latest, Ranged
  <2>2. l[1] # "do" => \E j \in Originals(r) : s = <<l[1], j>> /\ j \in Nat
    <3>1. l[1] # "do" => l[2] \in Originals(r)
      BY <1>3, <2>1 DEF NotFound, InRange
    <3> QED
      BY <2>1, <3>1, FoundIsTick
  <2>3. \A i \in Nat : i \in Originals(r) =>
          \A k \in {"undoChildren", "undoSelf"} :
            <<k, i>> \in Step /\ IsStepOf(r, <<k, i>>) /\ InRange(r, <<k, i>>)
    BY DEF Step, StepKind, IsStepOf, InRange
  <2>4. CASE l[1] = "do"
    <3>1. Len(ticks[r]) \in Originals(r)
      BY <2>1, <2>4 DEF Originals, Latest
    <3> QED
      BY <1>3, <2>1, <2>3, <2>4, <3>1 DEF RollbackPoint, PointOK, Normal
  <2>5. CASE l[1] # "do" /\ IsLastSubStep(r, s)
    <3>1. s \in Step /\ IsStepOf(r, s) /\ InRange(r, s) /\ s[1] # "do"
      <4>1. PICK j \in Originals(r) : s = <<l[1], j>> /\ j \in Nat
        BY <2>2, <2>5
      <4> HIDE DEF s, l
      <4>2. l[1] \in {"undoChildren", "undoSelf"}
        BY <2>1, <2>5 DEF StepKind
      <4> QED
        BY <2>3, <4>1, <4>2
    <3> HIDE DEF s
    <3> QED
      BY <1>3, <2>1, <2>5, <3>1 DEF RollbackPoint, PointOK, s
  <2>6. CASE l[1] # "do" /\ ~IsLastSubStep(r, s)
    <3>1. /\ s[2] \in Originals(r) /\ s[2] \in Nat /\ s \in Step
          /\ IsStepOf(r, s) /\ InRange(r, s) /\ s[1] # "do"
      <4>1. PICK j \in Originals(r) : s = <<l[1], j>> /\ j \in Nat
        BY <2>2, <2>6
      <4> HIDE DEF s, l
      <4>2. l[1] \in {"undoChildren", "undoSelf"}
        BY <2>1, <2>6 DEF StepKind
      <4> QED
        BY <2>3, <4>1, <4>2
    <3> HIDE DEF s
    <3>2. /\ SubStepAfter(r, s) \in Step /\ IsStepOf(r, SubStepAfter(r, s))
          /\ InRange(r, SubStepAfter(r, s)) /\ SubStepAfter(r, s)[1] # "do"
      <4>1. CASE s[1] = "undoChildren" /\ ticks[r][s[2]].iter = Normal
        BY <2>3, <3>1, <4>1 DEF SubStepAfter
      <4>2. CASE ~(s[1] = "undoChildren" /\ ticks[r][s[2]].iter = Normal)
        <5>1. HasOlder(r, s[2])
          BY <2>6, <4>2 DEF IsLastSubStep
        <5>2. NewestBelow(r, s[2]) \in Originals(r) /\ NewestBelow(r, s[2]) \in Nat
          BY <3>1, <5>1, NewestBelowIsTick
        <5> QED
          BY <2>3, <4>2, <5>2 DEF SubStepAfter
      <4> QED
        BY <4>1, <4>2
    <3> QED
      BY <1>3, <2>1, <2>6, <3>1, <3>2 DEF RollbackPoint, PointOK, s
  <2> QED
    BY <2>4, <2>5, <2>6
<1> QED
  BY <1>2, <1>3

LEMMA PlanForOK ==
    ASSUME TypeOK, Ranged, NEW r \in Run, ~NotFound(r)
    PROVE  PlanOK(r, PlanFor(r))
<1>1. \A pt : PointOK(r, pt) =>
        /\ pt.iter \in Nat /\ pt.iter + 1 \in Nat /\ pt.last \in BOOLEAN
        /\ pt.next \in Step /\ IsStepOf(r, pt.next) /\ InRange(r, pt.next)
        /\ pt.previous \in Step /\ IsStepOf(r, pt.previous) /\ InRange(r, pt.previous)
  BY DEF PointOK
<1>2. RollingBack(r) \in BOOLEAN /\ GiveUpOnRollbackPath(r) \in BOOLEAN
      /\ GiveUpOnHappyPath(r) \in BOOLEAN
  BY DEF RollingBack, GiveUpOnRollbackPath, GiveUpOnHappyPath
<1>3. CASE RollingBack(r)
  BY <1>1, <1>2, <1>3, RollbackPointOK DEF PlanFor, PlanOK, Plan, Mode
<1>4. CASE ~RollingBack(r)
  BY <1>1, <1>2, <1>4, HappyPointOK DEF PlanFor, PlanOK, Plan, Mode
<1> QED
  BY <1>3, <1>4

-----------------------------------------------------------------------------
\* TypeOK /\ Ranged, as the part about the log, the one about transactions and the one
\* about the rows clients have not committed yet.

LogOK ==
    /\ LogTypeOK
    /\ \A r \in Run : \A i \in DOMAIN ticks[r] :
        /\ IsStepOf(r, ticks[r][i].step)
        /\ InRange(r, ticks[r][i].step)
        /\ ticks[r][i].next \in 0 .. StepCount[r[2]]

WorkerOK(w) ==
    /\ pc[w] \in {"selected", "running", "aborting"} => pick[w] \in Run
    /\ pc[w] = "running" =>
        IsStepOf(pick[w], plan[w].step) /\ InRange(pick[w], plan[w].step)

TxOK ==
    /\ pc \in [Worker -> PC]
    /\ pick \in [Worker -> Run \cup {Outside}]
    /\ plan \in [Worker -> Plan]
    /\ snapshot \in [Worker -> Snapshot]
    /\ aborts \in Nat
    /\ \A w \in Worker : WorkerOK(w)

AskingOK ==
    \A q \in asking :
        /\ q.scope \in RollbackScopes /\ Exists(q.scope)
        /\ q.message \in MessagesIn(q.scope) /\ requested[q.message] = Outside
        /\ \A p \in asking : p.message = q.message => p = q

LEMMA TypesSplit ==
    /\ TypeOK /\ Ranged <=> LogOK /\ TxOK /\ AskingOK
    /\ TypeOK' /\ Ranged' <=> LogOK' /\ TxOK' /\ AskingOK'
<1>1. TypeOK /\ Ranged <=> LogOK /\ TxOK /\ AskingOK
  BY DEF TypeOK, Ranged, LogOK, TxOK, WorkerOK, AskingOK
<1>2. TypeOK' /\ Ranged' <=> LogOK' /\ TxOK' /\ AskingOK'
  BY DEF TypeOK, Ranged, LogOK, TxOK, WorkerOK, AskingOK
<1> QED
  BY <1>1, <1>2

\* A step that leaves the ticks it finds keeps what is in range in range.
LEMMA InRangeKept ==
    ASSUME NEW r, NEW s, InRange(r, s), Originals(r) \subseteq Originals(r)'
    PROVE  InRange(r, s)'
  BY DEF InRange, Sentinel

LEMMA ToIdleTypes ==
    ASSUME TxOK, NEW w \in Worker, ToIdle(w), aborts' \in Nat,
           \A r \in Run : Originals(r) \subseteq Originals(r)'
    PROVE  TxOK'
<1>1. /\ NoPlan \in Plan /\ NoSnapshot \in Snapshot
      /\ "idle" \in PC /\ Outside \in Run \cup {Outside}
  BY DEF NoPlan, Plan, Mode, Step, StepKind, Normal, NoSnapshot, Snapshot, PC
<1>2. /\ pc' \in [Worker -> PC] /\ pick' \in [Worker -> Run \cup {Outside}]
      /\ plan' \in [Worker -> Plan] /\ snapshot' \in [Worker -> Snapshot]
  BY <1>1 DEF TxOK, ToIdle
<1>3. ASSUME NEW v \in Worker
      PROVE  WorkerOK(v)'
  <2>1. CASE v = w
    BY <2>1 DEF ToIdle, WorkerOK, TxOK
  <2>2. CASE v # w
    <3>1. pc'[v] = pc[v] /\ pick'[v] = pick[v] /\ plan'[v] = plan[v]
      BY <2>2 DEF ToIdle, TxOK
    <3>2. WorkerOK(v)
      BY DEF TxOK
    <3> QED
      BY <3>1, <3>2, InRangeKept DEF WorkerOK, IsStepOf
  <2> QED
    BY <2>1, <2>2
<1> QED
  BY <1>2, <1>3 DEF TxOK

LEMMA AppendTypes ==
    ASSUME LogOK, NEW r \in Run, NEW t \in Tick,
           IsStepOf(r, t.step), InRange(r, t.step), t.next \in 0 .. StepCount[r[2]],
           AppendTick(r, t)
    PROVE  /\ ticks' \in [Run -> Seq(Tick)]
           /\ \A q \in Run : Originals(q) \subseteq Originals(q)'
           /\ \A q \in Run : \A i \in DOMAIN ticks'[q] :
                /\ IsStepOf(q, ticks'[q][i].step)
                /\ InRange(q, ticks[q][i].step)'
                /\ ticks'[q][i].next \in 0 .. StepCount[q[2]]
<1>1. ticks \in [Run -> Seq(Tick)]
  BY DEF LogOK, LogTypeOK
<1>2. /\ ticks'[r] = Append(ticks[r], t)
      /\ \A q \in Run : q # r => ticks'[q] = ticks[q]
      /\ ticks' \in [Run -> Seq(Tick)]
  BY <1>1 DEF AppendTick
<1>3. /\ DOMAIN ticks[r] = 1 .. Len(ticks[r]) /\ Len(ticks[r]) \in Nat
      /\ DOMAIN ticks'[r] = DOMAIN ticks[r] \cup {Len(ticks[r]) + 1}
      /\ ticks'[r][Len(ticks[r]) + 1] = t
      /\ \A i \in DOMAIN ticks[r] : ticks'[r][i] = ticks[r][i]
  BY <1>1, <1>2
<1>4. \A q \in Run : Originals(q) \subseteq Originals(q)'
  BY <1>2, <1>3 DEF Originals
<1>5. ASSUME NEW q \in Run, NEW i \in DOMAIN ticks'[q]
      PROVE  /\ IsStepOf(q, ticks'[q][i].step)
             /\ InRange(q, ticks[q][i].step)'
             /\ ticks'[q][i].next \in 0 .. StepCount[q[2]]
  <2>1. CASE i \in DOMAIN ticks[q]
    <3>1. ticks'[q][i] = ticks[q][i]
      BY <1>2, <1>3, <2>1
    <3> QED
      BY <2>1, <3>1, <1>4, InRangeKept DEF LogOK
  <2>2. CASE i \notin DOMAIN ticks[q]
    <3>1. q = r /\ ticks'[q][i] = t
      BY <1>2, <1>3, <2>2
    <3> QED
      BY <3>1, <1>4, InRangeKept
  <2> QED
    BY <2>1, <2>2
<1> QED
  BY <1>2, <1>4, <1>5

LEMMA TicksUnchanged ==
    ASSUME LogOK, UNCHANGED ticks, LogTypeOK'
    PROVE  LogOK' /\ \A r \in Run : Originals(r) \subseteq Originals(r)'
BY DEF LogOK, InRange, Originals

LEMMA LogUnchanged ==
    ASSUME LogOK, UNCHANGED log
    PROVE  LogOK' /\ \A r \in Run : Originals(r) \subseteq Originals(r)'
BY TicksUnchanged DEF LogOK, LogTypeOK, log

LEMMA TxUnchanged ==
    ASSUME TxOK, UNCHANGED <<tx, ticks>>
    PROVE  TxOK'
BY DEF TxOK, tx, WorkerOK, InRange, Originals

LEMMA WorkerUnchanged ==
    ASSUME TxOK, NEW v \in Worker, ticks' = ticks,
           pc'[v] = pc[v], pick'[v] = pick[v], plan'[v] = plan[v]
    PROVE  WorkerOK(v)'
BY DEF TxOK, WorkerOK, InRange, Originals

LEMMA DueTypes == ASSUME NEW h PROVE Due(h) \in Snapshot
BY TreeTypes DEF Due, Snapshot

LEMMA UnlockedTypes == ASSUME NEW sn \in Snapshot PROVE Unlocked(sn) \in Snapshot
BY DEF Unlocked, Snapshot

LEMMA NextChoicesTypes ==
    ASSUME NEW r \in Run, NEW s, IsStepOf(r, s)
    PROVE  NextChoices(r, s) \subseteq 0 .. StepCount[r[2]]
<1>1. StepCount[r[2]] \in Nat \ {0}
  BY TreeTypes, StepAssumption
<1> QED
  BY <1>1 DEF NextChoices, IsStepOf

-----------------------------------------------------------------------------
\* One lemma for each kind of step.

LEMMA ReconcileTypes ==
    ASSUME LogOK, TxOK, NEW w \in Worker,
           ReconcileBegin(w) \/ ReconcileLock(w) \/ ReconcileCommit(w)
    PROVE  LogOK' /\ TxOK'
<1>1. ASSUME NEW sn \in Snapshot, NEW to \in PC, to \notin {"selected", "running", "aborting"},
             snapshot' = [snapshot EXCEPT ![w] = sn], pc' = [pc EXCEPT ![w] = to],
             UNCHANGED <<log, pick, plan, aborts>>
      PROVE  LogOK' /\ TxOK'
  <2>1. LogOK' /\ ticks' = ticks
    BY <1>1, LogUnchanged DEF log
  <2>2. \A v \in Worker : WorkerOK(v)'
    <3> TAKE v \in Worker
    <3>1. CASE v = w
      BY <1>1, <3>1 DEF TxOK, WorkerOK
    <3>2. CASE v # w
      BY <1>1, <2>1, <3>2, WorkerUnchanged DEF TxOK
    <3> QED
      BY <3>1, <3>2
  <2> QED
    BY <1>1, <2>1, <2>2 DEF TxOK
<1>2. CASE ReconcileBegin(w)
  BY <1>1, <1>2, DueTypes DEF ReconcileBegin, PC
<1>3. CASE ReconcileLock(w)
  <2>1. Unlocked(snapshot[w]) \in Snapshot
    BY UnlockedTypes DEF TxOK
  <2> QED
    BY <1>1, <1>3, <2>1 DEF ReconcileLock, PC
<1>4. CASE ReconcileCommit(w)
  <2>1. snapshot[w] \in Snapshot
    BY DEF TxOK
  <2>2. LogTypeOK'
    <3>1. snapshot[w].starts \in SUBSET Run
      BY <2>1 DEF Snapshot
    <3>2. seen' \in SUBSET Run /\ settled' \in SUBSET Run
      BY <1>4, <3>1 DEF ReconcileCommit, LogOK, LogTypeOK
    <3>3. marks' \in [Run -> SUBSET MarkType]
      BY <1>4 DEF ReconcileCommit, LogOK, LogTypeOK, MarkType
    <3>4. lastEvent' \in [Run -> EventType]
      BY <1>4 DEF ReconcileCommit, LogOK, LogTypeOK, EventType, MarkType
    <3> QED
      BY <1>4, <3>2, <3>3, <3>4 DEF ReconcileCommit, LogOK, LogTypeOK
  <2>3. UNCHANGED ticks /\ aborts' \in Nat /\ ToIdle(w)
    BY <1>4 DEF ReconcileCommit, TxOK
  <2> QED
    BY <2>2, <2>3, TicksUnchanged, ToIdleTypes
<1> QED
  BY <1>2, <1>3, <1>4

LEMMA PickTypes ==
    ASSUME LogOK, TxOK, AskingOK, NEW w \in Worker, Select(w) \/ Claim(w) \/ LosePick(w)
    PROVE  LogOK' /\ TxOK'
<1>1. LogOK' /\ ticks' = ticks /\ \A r \in Run : Originals(r) \subseteq Originals(r)'
  BY LogUnchanged DEF Select, Claim, LosePick, log
<1>2. CASE Select(w)
  <2>1. PICK r \in RunsOf(Serves[w]) :
          pc' = [pc EXCEPT ![w] = "selected"] /\ pick' = [pick EXCEPT ![w] = r]
    BY <1>2 DEF Select
  <2>2. r \in Run
    BY TreeTypes
  <2>3. pick' \in [Worker -> Run \cup {Outside}] /\ pc' \in [Worker -> PC]
    BY <2>1, <2>2 DEF TxOK, PC
  <2>4. \A v \in Worker : WorkerOK(v)'
    <3> TAKE v \in Worker
    <3>1. CASE v = w
      BY <2>1, <2>2, <3>1 DEF TxOK, WorkerOK
    <3>2. CASE v # w
      BY <1>1, <1>2, <2>1, <3>2, WorkerUnchanged DEF TxOK, Select
    <3> QED
      BY <3>1, <3>2
  <2> QED
    BY <1>1, <1>2, <2>3, <2>4 DEF TxOK, Select
<1>3. CASE Claim(w)
  <2>1. pick[w] \in Run /\ pick' = pick /\ snapshot' = snapshot /\ aborts' = aborts
    BY <1>3 DEF Claim, TxOK, WorkerOK
  <2>2. CASE NotFound(pick[w])
    <3>1. pc' = [pc EXCEPT ![w] = "aborting"] /\ plan' = plan
      BY <1>3, <2>2 DEF Claim
    <3>2. \A v \in Worker : WorkerOK(v)'
      <4> TAKE v \in Worker
      <4>1. CASE v = w
        BY <2>1, <3>1, <4>1 DEF TxOK, WorkerOK
      <4>2. CASE v # w
        BY <1>1, <2>1, <3>1, <4>2, WorkerUnchanged DEF TxOK
      <4> QED
        BY <4>1, <4>2
    <3> QED
      BY <1>1, <2>1, <3>1, <3>2 DEF TxOK, PC
  <2>3. CASE ~NotFound(pick[w])
    <3>1. /\ pc' = [pc EXCEPT ![w] = "running"]
          /\ plan' = [plan EXCEPT ![w] = PlanFor(pick[w])]
      BY <1>3, <2>3 DEF Claim
    <3>2. PlanOK(pick[w], PlanFor(pick[w]))
      BY <2>1, <2>3, TypesSplit, PlanForOK
    <3>3. \A v \in Worker : WorkerOK(v)'
      <4> TAKE v \in Worker
      <4>1. CASE v = w
        <5>1. pc'[v] = "running" /\ pick'[v] \in Run /\ plan'[v] = PlanFor(pick[w])
          BY <2>1, <3>1, <4>1 DEF TxOK
        <5> QED
          BY <1>1, <2>1, <3>2, <4>1, <5>1 DEF WorkerOK, PlanOK, InRange, IsStepOf, Originals
      <4>2. CASE v # w
        BY <1>1, <2>1, <3>1, <4>2, WorkerUnchanged DEF TxOK
      <4> QED
        BY <4>1, <4>2
    <3> QED
      BY <1>1, <2>1, <3>1, <3>2, <3>3 DEF TxOK, PC, PlanOK
  <2> QED
    BY <2>2, <2>3
<1>4. CASE LosePick(w)
  <2>1. aborts' \in Nat /\ ToIdle(w)
    BY <1>4 DEF LosePick, TxOK
  <2> QED
    BY <1>1, <2>1, ToIdleTypes
<1> QED
  BY <1>2, <1>3, <1>4

LEMMA SuspendTypes ==
    ASSUME LogOK, TxOK, NEW w \in Worker, Suspend(w)
    PROVE  LogOK' /\ TxOK'
<1> DEFINE r == pick[w]
           p == plan[w]
<1>1. /\ r \in Run /\ p \in Plan /\ IsStepOf(r, p.step) /\ InRange(r, p.step)
      /\ aborts' \in Nat /\ ToIdle(w)
  BY DEF Suspend, TxOK, WorkerOK
<1>2. PICK launched \in SUBSET {m \in EmittedBy(r) \ emitted : p.mode \in EmittedIn[m]} :
      \E next \in NextChoices(r, p.step) :
        /\ emitted' = emitted \cup launched
        /\ AppendTick(r, [step |-> p.step, next |-> next, iter |-> p.iter,
                          emits |-> launched, undoes |-> {}])
  BY DEF Suspend
<1>3. PICK next \in NextChoices(r, p.step) :
        AppendTick(r, [step |-> p.step, next |-> next, iter |-> p.iter,
                       emits |-> launched, undoes |-> {}])
  BY <1>2
<1> DEFINE t == [step |-> p.step, next |-> next, iter |-> p.iter,
                 emits |-> launched, undoes |-> {}]
<1>4. launched \in SUBSET Message
  BY <1>2 DEF EmittedBy
<1>5. next \in 0 .. StepCount[r[2]] /\ next \in Nat
  BY <1>1, <1>3, NextChoicesTypes, TreeTypes, StepAssumption
<1>6. t \in Tick /\ t.step = p.step /\ t.next = next
  BY <1>1, <1>4, <1>5 DEF Tick, Plan
<1>7. /\ ticks' \in [Run -> Seq(Tick)]
      /\ \A q \in Run : Originals(q) \subseteq Originals(q)'
      /\ \A q \in Run : \A i \in DOMAIN ticks'[q] :
            /\ IsStepOf(q, ticks'[q][i].step)
            /\ InRange(q, ticks[q][i].step)'
            /\ ticks'[q][i].next \in 0 .. StepCount[q[2]]
  <2> HIDE DEF t, r, p
  <2> QED
    BY <1>1, <1>3, <1>5, <1>6, AppendTypes DEF t
<1>8. LogTypeOK'
  BY <1>2, <1>4, <1>7 DEF Suspend, LogOK, LogTypeOK, EventType
<1>9. LogOK'
  BY <1>7, <1>8 DEF LogOK, IsStepOf
<1> QED
  BY <1>1, <1>7, <1>9, ToIdleTypes

LEMMA UndoChildrenTypes ==
    ASSUME LogOK, TxOK, AskingOK, NEW w \in Worker, UndoChildren(w)
    PROVE  LogOK' /\ TxOK'
<1> DEFINE r == pick[w]
           p == plan[w]
           undoes == ticks[r][p.step[2]].emits
<1>1. /\ r \in Run /\ p \in Plan /\ IsStepOf(r, p.step) /\ InRange(r, p.step)
      /\ aborts' \in Nat
  BY DEF UndoChildren, TxOK, WorkerOK
<1>2. undoes \in SUBSET Message
  <2>1. p.step[2] \in DOMAIN ticks[r]
    <3>1. p.step[1] = "undoChildren" /\ "undoChildren" # "do" /\ "undoChildren" # "undoSelf"
      BY DEF UndoChildren
    <3>2. Sentinel[1] = "undoSelf"
      BY DEF Sentinel
    <3> HIDE DEF p
    <3> QED
      BY <1>1, <3>1, <3>2 DEF InRange, Originals
  <2> QED
    BY <1>1, <2>1, TickTypes, TypesSplit DEF LogOK, TypeOK
<1>3. CASE /\ \A m \in undoes : requested[m] = Outside /\ m \notin Asked
           /\ requested' = [m \in Message |-> IF m \in undoes THEN r ELSE requested[m]]
           /\ AppendTick(r, [step |-> p.step, next |-> 0, iter |-> p.iter,
                             emits |-> {}, undoes |-> undoes])
           /\ lastEvent' = [lastEvent EXCEPT ![r] = "SUSPENDED"]
           /\ ToIdle(w)
  <2> DEFINE t == [step |-> p.step, next |-> 0, iter |-> p.iter,
                   emits |-> {}, undoes |-> undoes]
  <2>1. t \in Tick /\ t.step = p.step /\ t.next \in 0 .. StepCount[r[2]]
    BY <1>1, <1>2, TreeTypes, StepAssumption DEF Tick, Plan
  <2>2. /\ ticks' \in [Run -> Seq(Tick)]
        /\ \A q \in Run : Originals(q) \subseteq Originals(q)'
        /\ \A q \in Run : \A i \in DOMAIN ticks'[q] :
              /\ IsStepOf(q, ticks'[q][i].step)
              /\ InRange(q, ticks[q][i].step)'
              /\ ticks'[q][i].next \in 0 .. StepCount[q[2]]
    <3>1. AppendTick(r, t)
      BY <1>3
    <3> HIDE DEF t, r, p
    <3> QED
      BY <1>1, <2>1, <3>1, AppendTypes
  <2>3. requested' \in [Message -> Scope \cup {Outside}]
    BY <1>1, <1>3 DEF LogOK, LogTypeOK, Scope
  <2>4. LogTypeOK'
    BY <1>3, <2>2, <2>3 DEF UndoChildren, LogOK, LogTypeOK, EventType
  <2>5. LogOK'
    BY <2>2, <2>4 DEF LogOK, IsStepOf
  <2> QED
    BY <1>1, <1>3, <2>2, <2>5, ToIdleTypes
<1>4. CASE /\ pc' = [pc EXCEPT ![w] = "aborting"]
           /\ UNCHANGED <<requested, ticks, lastEvent, pick, plan, snapshot>>
  <2>1. LogOK'
    BY <1>4, LogUnchanged DEF UndoChildren, log
  <2>2. \A v \in Worker : WorkerOK(v)'
    <3> TAKE v \in Worker
    <3>1. CASE v = w
      BY <1>1, <1>4, <3>1 DEF TxOK, WorkerOK
    <3>2. CASE v # w
      BY <1>4, <3>2, WorkerUnchanged DEF TxOK
    <3> QED
      BY <3>1, <3>2
  <2> QED
    BY <1>1, <1>4, <2>1, <2>2 DEF TxOK, PC
<1> QED
  BY <1>3, <1>4 DEF UndoChildren

LEMMA OutcomeTypes ==
    ASSUME LogOK, TxOK, NEW w \in Worker,
           Finish(w) \/ Fail(w) \/ Abort(w) \/ Crash(w)
    PROVE  LogOK' /\ TxOK'
<1>1. UNCHANGED ticks /\ aborts' \in Nat
  BY DEF Finish, Fail, Abort, Crash, log, TxOK
<1>2. CASE Finish(w)
  <2>1. LogTypeOK'
    BY <1>2 DEF Finish, LogOK, LogTypeOK, EventType, MarkType, TxOK, WorkerOK
  <2> QED
    BY <1>1, <1>2, <2>1, TicksUnchanged, ToIdleTypes DEF Finish
<1>3. CASE Fail(w)
  <2>1. LogTypeOK'
    <3> DEFINE mark == IF plan[w].back THEN "ROLLBACK_FAILED" ELSE "ROLLING_BACK"
    <3>1. mark \in MarkType /\ mark \in EventType
      BY DEF MarkType, EventType
    <3>2. \/ UNCHANGED <<marks, lastEvent>>
          \/ /\ marks' = [marks EXCEPT ![pick[w]] = @ \cup {mark}]
             /\ lastEvent' = [lastEvent EXCEPT ![pick[w]] = mark]
      BY <1>3 DEF Fail
    <3>3. marks' \in [Run -> SUBSET MarkType] /\ lastEvent' \in [Run -> EventType]
      <4> HIDE DEF mark
      <4>1. marks \in [Run -> SUBSET MarkType] /\ lastEvent \in [Run -> EventType]
        BY DEF LogOK, LogTypeOK
      <4>2. CASE UNCHANGED <<marks, lastEvent>>
        BY <4>1, <4>2
      <4>3. CASE /\ marks' = [marks EXCEPT ![pick[w]] = @ \cup {mark}]
                 /\ lastEvent' = [lastEvent EXCEPT ![pick[w]] = mark]
        <5>1. pick[w] \in Run /\ marks[pick[w]] \cup {mark} \in SUBSET MarkType
          BY <1>3, <3>1, <4>1 DEF Fail, TxOK, WorkerOK
        <5> QED
          BY <3>1, <4>1, <4>3, <5>1
      <4> QED
        BY <3>2, <4>2, <4>3
    <3> QED
      BY <1>3, <3>3 DEF Fail, LogOK, LogTypeOK
  <2>2. \A v \in Worker : WorkerOK(v)'
    <3> TAKE v \in Worker
    <3>1. CASE v = w
      BY <1>3, <3>1 DEF Fail, TxOK, WorkerOK
    <3>2. CASE v # w
      BY <1>1, <1>3, <3>2, WorkerUnchanged DEF Fail, TxOK
    <3> QED
      BY <3>1, <3>2
  <2>3. LogOK'
    BY <1>1, <2>1, TicksUnchanged
  <2> QED
    BY <1>3, <2>2, <2>3 DEF Fail, TxOK, PC
<1>4. CASE Abort(w) \/ Crash(w)
  BY <1>1, <1>4, LogUnchanged, ToIdleTypes DEF Abort, Crash, log
<1> QED
  BY <1>2, <1>3, <1>4

LEMMA EnvironmentTypes ==
    ASSUME LogOK, TxOK, Environment
    PROVE  LogOK' /\ TxOK'
<1>1. UNCHANGED <<tx, ticks>>
  BY DEF Environment, Launch, Cancel, AskRollback, RequestRollback, WithdrawRollback, Expire
<1>2. LogTypeOK'
  <2>1. CASE \E m \in Message : Launch(m)
    BY <2>1 DEF Launch, LogOK, LogTypeOK
  <2>2. CASE \E s \in Scope : Cancel(s)
    BY <2>2 DEF Cancel, NoteInLineage, LogOK, LogTypeOK, EventType
  <2>3. CASE \E s \in Scope : RequestRollback(s)
    <3>1. PICK s \in Scope : RequestRollback(s)
      BY <2>3
    <3>2. PICK q \in asking : /\ asking' = asking \ {q}
                              /\ requested' = [requested EXCEPT ![q.message] = s]
      BY <3>1 DEF RequestRollback
    <3>3. lastEvent' \in [Run -> EventType]
      BY <3>1 DEF RequestRollback, NoteInLineage, LogOK, LogTypeOK, EventType
    <3>4. requested' \in [Message -> Scope \cup {Outside}] /\ asking' \in SUBSET Request
      BY <3>2 DEF LogOK, LogTypeOK
    <3> QED
      BY <3>1, <3>3, <3>4 DEF RequestRollback, LogOK, LogTypeOK
  <2>4. CASE \E r \in Run, path \in Path : Expire(r, path)
    BY <2>4 DEF Expire, LogOK, LogTypeOK
  <2>5. CASE \E s \in Scope : AskRollback(s)
    <3>1. PICK s \in Scope : AskRollback(s)
      BY <2>5
    <3>2. TicksOf(s) \in Nat
      BY DEF TicksOf, LogOK, LogTypeOK
    <3>3. MessagesIn(s) \subseteq Message
      BY TreeTypes DEF MessagesIn, EmittedBy, LogOK, LogTypeOK
    <3>4. asking' \in SUBSET Request
      BY <3>1, <3>2, <3>3 DEF AskRollback, Request, LogOK, LogTypeOK
    <3> QED
      BY <3>1, <3>4 DEF AskRollback, LogOK, LogTypeOK
  <2>6. CASE \E s \in Scope : WithdrawRollback(s)
    BY <2>6 DEF WithdrawRollback, LogOK, LogTypeOK
  <2> QED
    BY <2>1, <2>2, <2>3, <2>4, <2>5, <2>6 DEF Environment
<1> QED
  BY <1>1, <1>2, TicksUnchanged, TxUnchanged

\* A row that is not committed yet stays the only one of its message: what a step
\* requests meanwhile is none of the messages asked for.
LEMMA AskingTypes ==
    ASSUME TypeOK, [Next]_vars
    PROVE  AskingOK'
<1>1. AskingOK
  BY DEF TypeOK, AskingOK
<1>2. emitted \subseteq emitted' /\ seen \subseteq seen'
  BY DEF Next, WorkerStep, Conclude, Resume, Environment, vars, log, tx, ReconcileBegin,
         ReconcileLock, ReconcileCommit, Select, Claim, LosePick, Suspend, UndoChildren,
         Finish, Fail, Abort, Crash, Launch, Cancel, AskRollback, RequestRollback,
         WithdrawRollback, Expire
<1>3. \A s : MessagesIn(s) \subseteq MessagesIn(s)' /\ (Exists(s) => Exists(s)')
  BY <1>2 DEF MessagesIn, Exists
<1>4. asking \in SUBSET Request /\ requested \in [Message -> Scope \cup {Outside}]
  BY DEF TypeOK, LogTypeOK
<1>5. ASSUME asking' \subseteq asking,
             \A q \in asking' : requested'[q.message] = requested[q.message]
      PROVE  AskingOK'
  BY <1>1, <1>3, <1>5 DEF AskingOK
<1>6. ASSUME NEW w \in Worker, UndoChildren(w)
      PROVE  AskingOK'
  <2>1. \A q \in asking : q.message \in Message /\ q.message \in Asked
    BY <1>4 DEF Request, Asked
  <2> QED
    BY <1>5, <1>6, <2>1 DEF UndoChildren
<1>7. ASSUME NEW s \in Scope, AskRollback(s)
      PROVE  AskingOK'
  <2>1. PICK m \in MessagesIn(s) :
          /\ requested[m] = Outside /\ m \notin Asked
          /\ asking' = asking \cup {[message |-> m, scope |-> s, ticks |-> TicksOf(s)]}
    BY <1>7 DEF AskRollback
  <2>2. requested' = requested /\ s \in RollbackScopes /\ Exists(s)
    BY <1>7 DEF AskRollback
  <2> QED
    BY <1>1, <1>3, <2>1, <2>2 DEF AskingOK, Asked
<1>8. ASSUME NEW s \in Scope, RequestRollback(s)
      PROVE  AskingOK'
  <2>1. PICK q \in asking :
          asking' = asking \ {q} /\ requested' = [requested EXCEPT ![q.message] = s]
    BY <1>8 DEF RequestRollback
  <2>2. \A p \in asking' : p.message # q.message /\ p \in asking
    BY <1>1, <2>1 DEF AskingOK
  <2> QED
    BY <1>4, <1>5, <2>1, <2>2 DEF Request
<1>9. ASSUME NEW s \in Scope, WithdrawRollback(s)
      PROVE  AskingOK'
  BY <1>5, <1>9 DEF WithdrawRollback
<1>10. CASE UNCHANGED <<requested, asking>>
  BY <1>5, <1>10
<1> QED
  BY <1>6, <1>7, <1>8, <1>9, <1>10
     DEF Next, WorkerStep, Conclude, Resume, Environment, vars, log, tx, ReconcileBegin,
         ReconcileLock, ReconcileCommit, Select, Claim, LosePick, Suspend, Finish, Fail,
         Abort, Crash, Launch, Cancel, Expire

LEMMA TypesInductive == TypeOK /\ Ranged /\ [Next]_vars => TypeOK' /\ Ranged'
<1> SUFFICES ASSUME LogOK, TxOK, AskingOK, [Next]_vars
             PROVE  LogOK' /\ TxOK'
  BY TypesSplit, AskingTypes
<1>1. ASSUME NEW w \in Worker, WorkerStep(w)
      PROVE  LogOK' /\ TxOK'
  <2>1. CASE ReconcileBegin(w) \/ ReconcileLock(w) \/ ReconcileCommit(w)
    BY <2>1, ReconcileTypes
  <2>2. CASE Select(w) \/ Claim(w) \/ LosePick(w)
    BY <2>2, PickTypes
  <2>3. CASE Suspend(w)
    BY <2>3, SuspendTypes
  <2>4. CASE UndoChildren(w)
    BY <2>4, UndoChildrenTypes
  <2>5. CASE Finish(w) \/ Fail(w) \/ Abort(w) \/ Crash(w)
    BY <2>5, OutcomeTypes
  <2> QED
    BY <1>1, <2>1, <2>2, <2>3, <2>4, <2>5 DEF WorkerStep, Conclude, Resume
<1>2. CASE Environment
  BY <1>2, EnvironmentTypes
<1>3. CASE UNCHANGED vars
  <2>1. UNCHANGED log /\ UNCHANGED <<tx, ticks>>
    BY <1>3 DEF vars, log, tx
  <2> QED
    BY <2>1, LogUnchanged, TxUnchanged
<1> QED
  BY <1>1, <1>2, <1>3 DEF Next

LEMMA TypesInitially == Init => TypeOK /\ Ranged
<1> SUFFICES ASSUME Init
             PROVE  TypeOK /\ Ranged
  OBVIOUS
<1>1. LogTypeOK /\ \A r \in Run : DOMAIN ticks[r] = {}
  BY DEF Init, LogInit, LogTypeOK, EventType
<1>2. NoPlan \in Plan /\ NoSnapshot \in Snapshot
  BY DEF NoPlan, Plan, Mode, Step, StepKind, Normal, NoSnapshot, Snapshot
<1> QED
  BY <1>1, <1>2 DEF Init, LogInit, TypeOK, Ranged, PC

\* The log and the workers' states have the shape the code gives them: in
\* particular next_step is never out of a saga's bounds, whatever steps return,
\* crash or are rolled back (EventLoop.ts, fetchSomePendingCoroutineState).
THEOREM TypeCorrect == Spec => []TypeOK
<1>1. Init => TypeOK /\ Ranged
  BY TypesInitially
<1>2. (TypeOK /\ Ranged) /\ [Next]_vars => (TypeOK /\ Ranged)'
  BY TypesInductive
<1> QED
  BY <1>1, <1>2, PTL DEF Spec

-----------------------------------------------------------------------------
\* A row lock has one holder, and keeps it until its transaction ends.

\* What a reconcile pass is about to roll back was requested.
UndosRequested ==
    \A w \in Worker : \A c \in snapshot[w].undos : requested[c[1]] # Outside

OneHolder ==
    \A v, w \in Worker : \A r \in Run : Holds(v, r) /\ Holds(w, r) => v = w

Locking == UndosRequested /\ OneHolder

Stays(v) ==
    pc'[v] = pc[v] /\ pick'[v] = pick[v] /\ plan'[v] = plan[v] /\ snapshot'[v] = snapshot[v]

\* Every step is one worker's, or nobody's.
LEMMA OthersStay ==
    ASSUME TypeOK, NEW u \in Worker, WorkerStep(u), NEW v \in Worker, v # u
    PROVE  Stays(v)
<1>1. CASE ToIdle(u)
  BY <1>1 DEF ToIdle, TypeOK, Stays
<1>2. CASE ReconcileBegin(u) \/ ReconcileLock(u)
  BY <1>2 DEF ReconcileBegin, ReconcileLock, TypeOK, Stays
<1>3. CASE Select(u)
  BY <1>3 DEF Select, TypeOK, Stays
<1>4. CASE Claim(u)
  BY <1>4 DEF Claim, TypeOK, Stays
<1>5. CASE UndoChildren(u)
  BY <1>1, <1>5 DEF UndoChildren, TypeOK, Stays
<1>6. CASE Fail(u)
  BY <1>6 DEF Fail, TypeOK, Stays
<1> QED
  BY <1>1, <1>2, <1>3, <1>4, <1>5, <1>6
     DEF WorkerStep, Conclude, Resume, ReconcileCommit, LosePick, Suspend, Finish, Abort, Crash

LEMMA NobodyMoves ==
    ASSUME Environment \/ UNCHANGED vars, NEW v \in Worker
    PROVE  Stays(v)
BY DEF Environment, Launch, Cancel, AskRollback, RequestRollback, WithdrawRollback, Expire,
       vars, tx, Stays

\* Which scope asked for a rollback is never overwritten.
LEMMA RequestsKept ==
    ASSUME TypeOK, [Next]_vars, NEW m \in Message, requested[m] # Outside
    PROVE  requested'[m] = requested[m]
<1>1. CASE UNCHANGED requested
  BY <1>1
<1>2. ASSUME NEW w \in Worker, UndoChildren(w)
      PROVE  requested'[m] = requested[m]
  BY <1>2 DEF UndoChildren
<1>3. ASSUME NEW s \in Scope, RequestRollback(s)
      PROVE  requested'[m] = requested[m]
  BY <1>3 DEF RequestRollback, TypeOK, LogTypeOK
<1> QED
  BY <1>1, <1>2, <1>3
     DEF Next, WorkerStep, Conclude, Resume, Environment, vars, log, tx, ReconcileBegin,
         ReconcileLock, ReconcileCommit, Select, Claim, LosePick, Suspend, Finish, Fail,
         Abort, Crash, Launch, Cancel, AskRollback, WithdrawRollback, Expire

LEMMA UndosAreRuns ==
    ASSUME TypeOK, NEW w \in Worker, NEW c \in snapshot[w].undos
    PROVE  c \in Run /\ c[1] \in Message
<1>1. snapshot[w] \in Snapshot
  BY DEF TypeOK
<1> QED
  BY <1>1, TreeTypes DEF Snapshot

LEMMA UndosRequestedKept ==
    ASSUME TypeOK, UndosRequested, [Next]_vars
    PROVE  UndosRequested'
<1> SUFFICES ASSUME NEW w \in Worker, NEW c \in snapshot'[w].undos
             PROVE  requested'[c[1]] # Outside
  BY DEF UndosRequested
<1>1. CASE Stays(w)
  BY <1>1, UndosAreRuns, RequestsKept DEF Stays, UndosRequested
<1>2. CASE WorkerStep(w)
  <2>1. CASE snapshot'[w] = NoSnapshot
    BY <2>1 DEF NoSnapshot
  <2>2. CASE snapshot'[w] = snapshot[w]
    BY <2>2, UndosAreRuns, RequestsKept DEF UndosRequested
  <2>3. CASE ReconcileBegin(w)
    <3>1. snapshot'[w] = Due(Serves[w]) /\ requested' = requested
      BY <2>3 DEF ReconcileBegin, TypeOK, log
    <3> QED
      BY <3>1 DEF Due, RollbackEligible
  <2>4. CASE ReconcileLock(w)
    <3>1. snapshot'[w] = Unlocked(snapshot[w]) /\ requested' = requested
      BY <2>4 DEF ReconcileLock, TypeOK, log
    <3>2. c \in snapshot[w].undos
      BY <3>1 DEF Unlocked
    <3> QED
      BY <3>1, <3>2 DEF UndosRequested
  <2> QED
    BY <1>2, <2>1, <2>2, <2>3, <2>4
       DEF WorkerStep, Conclude, Resume, ReconcileCommit, Select, Claim, LosePick, Suspend,
           UndoChildren, Finish, Fail, Abort, Crash, ToIdle, TypeOK
<1> QED
  BY <1>1, <1>2, OthersStay, NobodyMoves DEF Next

LEMMA StaysHolding ==
    ASSUME TypeOK, UndosRequested, [Next]_vars, NEW v \in Worker, Stays(v), NEW r \in Run
    PROVE  Holds(v, r)' <=> Holds(v, r)
<1>1. \A c \in snapshot[v].undos : requested'[c[1]] = requested[c[1]]
  BY UndosAreRuns, RequestsKept DEF UndosRequested
<1>2. RowsLocked(snapshot[v])' = RowsLocked(snapshot[v])
  BY <1>1 DEF Stays, RowsLocked
<1> QED
  BY <1>2 DEF Holds, Stays

LEMMA LocksOnlyTheUnlocked ==
    ASSUME TypeOK, NEW u \in Worker, WorkerStep(u), NEW r \in Run, Holds(u, r)'
    PROVE  Holds(u, r) \/ ~Locked(r)
<1>1. CASE ToIdle(u) \/ ReconcileBegin(u) \/ Select(u)
  <2>1. pc'[u] \in {"idle", "reconciling", "selected"}
    BY <1>1 DEF ToIdle, ReconcileBegin, Select, TypeOK
  <2> QED
    BY <2>1 DEF Holds
<1>2. CASE ReconcileLock(u)
  <2>1. /\ pc'[u] = "inserting" /\ snapshot'[u] = Unlocked(snapshot[u])
        /\ requested' = requested
    BY <1>2 DEF ReconcileLock, TypeOK, log
  <2>2. r \in RowsLocked(Unlocked(snapshot[u]))
    BY <2>1 DEF Holds, RowsLocked
  <2> QED
    BY <2>2 DEF RowsLocked, Unlocked
<1>3. CASE Claim(u)
  BY <1>3 DEF Claim, Holds, TypeOK
<1>4. CASE UndoChildren(u) \/ Fail(u)
  BY <1>1, <1>4 DEF UndoChildren, Fail, Holds, TypeOK
<1> QED
  BY <1>1, <1>2, <1>3, <1>4
     DEF WorkerStep, Conclude, Resume, ReconcileCommit, LosePick, Suspend, Finish, Abort, Crash

LEMMA LockingInductive ==
    ASSUME TypeOK, Locking, [Next]_vars
    PROVE  Locking'
<1>1. UndosRequested'
  BY UndosRequestedKept DEF Locking
<1>2. ASSUME NEW v \in Worker, NEW w \in Worker, NEW r \in Run, Holds(v, r)', Holds(w, r)'
      PROVE  v = w
  <2>1. CASE Stays(v) /\ Stays(w)
    BY <1>2, <2>1, StaysHolding DEF Locking, OneHolder
  <2>2. ASSUME NEW u \in Worker, WorkerStep(u)
        PROVE  v = w
    <3>1. Holds(u, r)' => Holds(u, r) \/ ~Locked(r)
      BY <2>2, LocksOnlyTheUnlocked
    <3>2. \A x \in Worker : x # u /\ Holds(x, r)' => Holds(x, r)
      BY <2>2, OthersStay, StaysHolding DEF Locking
    <3> QED
      BY <1>2, <3>1, <3>2 DEF Locked, Locking, OneHolder
  <2> QED
    BY <2>1, <2>2, NobodyMoves DEF Next
<1> QED
  BY <1>1, <1>2 DEF Locking, OneHolder

LEMMA LockingInitially == Init => Locking
BY DEF Init, Locking, UndosRequested, OneHolder, Holds, NoSnapshot

-----------------------------------------------------------------------------
\* What a step can do to the log.

\* w commits the tick it was executing.
Closes(w, t) ==
    /\ pc[w] = "running" /\ pc'[w] = "idle"
    /\ AppendTick(pick[w], t)
    /\ t.step = plan[w].step /\ t.iter = plan[w].iter
    /\ t.emits = {} \/ t.undoes = {}
    /\ plan[w].last => plan[w].mode = "handle"

LEMMA TicksStep ==
    ASSUME TypeOK, [Next]_vars
    PROVE  UNCHANGED ticks \/ \E w \in Worker : \E t : Closes(w, t)
<1>1. ASSUME NEW w \in Worker, Suspend(w)
      PROVE  \E t : Closes(w, t)
  <2>1. PICK launched, next :
          AppendTick(pick[w], [step |-> plan[w].step, next |-> next, iter |-> plan[w].iter,
                               emits |-> launched, undoes |-> {}])
    BY <1>1 DEF Suspend
  <2>2. pc[w] = "running" /\ pc'[w] = "idle" /\ (plan[w].last => plan[w].mode = "handle")
    BY <1>1 DEF Suspend, ToIdle, RunsUserCode, TypeOK
  <2> QED
    BY <2>1, <2>2 DEF Closes
<1>2. ASSUME NEW w \in Worker, UndoChildren(w)
      PROVE  UNCHANGED ticks \/ \E t : Closes(w, t)
  <2> SUFFICES ASSUME ~UNCHANGED ticks
               PROVE  \E t : Closes(w, t)
    OBVIOUS
  <2> DEFINE undoes == ticks[pick[w]][plan[w].step[2]].emits
  <2>1. /\ AppendTick(pick[w], [step |-> plan[w].step, next |-> 0, iter |-> plan[w].iter,
                                emits |-> {}, undoes |-> undoes])
        /\ ToIdle(w)
    BY <1>2 DEF UndoChildren
  <2>2. pc[w] = "running" /\ pc'[w] = "idle" /\ ~plan[w].last
    BY <1>2, <2>1 DEF UndoChildren, ToIdle, TypeOK
  <2> QED
    BY <2>1, <2>2 DEF Closes
<1>3. CASE UNCHANGED ticks
  BY <1>3
<1> QED
  BY <1>1, <1>2, <1>3
     DEF Next, WorkerStep, Conclude, Resume, Environment, vars, log, ReconcileBegin,
         ReconcileLock, ReconcileCommit, Select, Claim, LosePick, Finish, Fail,
         Abort, Crash, Launch, Cancel, AskRollback, RequestRollback, WithdrawRollback, Expire

\* No row of the log is taken back.
LEMMA MarksKept ==
    ASSUME TypeOK, [Next]_vars, NEW r \in Run
    PROVE  marks[r] \subseteq marks'[r]
<1>1. CASE UNCHANGED marks
  BY <1>1
<1>2. ASSUME NEW w \in Worker, ReconcileCommit(w)
      PROVE  marks[r] \subseteq marks'[r]
  BY <1>2 DEF ReconcileCommit
<1>3. ASSUME NEW w \in Worker, Finish(w) \/ Fail(w)
      PROVE  marks[r] \subseteq marks'[r]
  <2>1. \/ UNCHANGED marks
        \/ \E mark : marks' = [marks EXCEPT ![pick[w]] = @ \cup {mark}]
    BY <1>3 DEF Finish, Fail
  <2>2. ASSUME NEW mark, marks' = [marks EXCEPT ![pick[w]] = @ \cup {mark}]
        PROVE  marks[r] \subseteq marks'[r]
    BY <2>2 DEF TypeOK, LogTypeOK
  <2> QED
    BY <2>1, <2>2
<1> QED
  BY <1>1, <1>2, <1>3
     DEF Next, WorkerStep, Conclude, Resume, Environment, vars, log, ReconcileBegin,
         ReconcileLock, Select, Claim, LosePick, Suspend, UndoChildren,
         Abort, Crash, Launch, Cancel, AskRollback, RequestRollback, WithdrawRollback, Expire

\* A handler starts when a reconcile pass that locked its emitter commits.
LEMMA StartedUnderLock ==
    ASSUME TypeOK, [Next]_vars, NEW c \in Run, c \in seen', c \notin seen,
           Emitter[c[1]] \in Run
    PROVE  \E v \in Worker : pc[v] = "inserting" /\ Holds(v, Emitter[c[1]])
<1>1. PICK v \in Worker : ReconcileCommit(v)
  BY DEF Next, WorkerStep, Conclude, Resume, Environment, vars, log, ReconcileBegin,
         ReconcileLock, Select, Claim, LosePick, Suspend, UndoChildren, Finish, Fail,
         Abort, Crash, Launch, Cancel, AskRollback, RequestRollback, WithdrawRollback, Expire
<1>2. pc[v] = "inserting" /\ c \in snapshot[v].starts
  BY <1>1 DEF ReconcileCommit
<1> QED
  BY <1>2 DEF Holds, RowsLocked

\* While a worker executes a step of a run, nobody else writes that run's ticks.
LEMMA StillRunning ==
    ASSUME TypeOK, Locking, [Next]_vars, NEW w \in Worker, pc'[w] = "running"
    PROVE  \/ Claim(w) /\ pc[w] = "selected"
           \/ /\ pc[w] = "running" /\ Stays(w)
              /\ ticks'[pick[w]] = ticks[pick[w]]
<1>1. CASE WorkerStep(w)
  BY <1>1 DEF WorkerStep, Conclude, Resume, ReconcileBegin, ReconcileLock, ReconcileCommit,
              Select, Claim, LosePick, Suspend, UndoChildren, Finish, Fail, Abort, Crash,
              ToIdle, TypeOK
<1>2. CASE Stays(w)
  <2>1. pc[w] = "running" /\ pick[w] \in Run /\ Holds(w, pick[w])
    BY <1>2 DEF Stays, TypeOK, Holds
  <2>2. ASSUME NEW v \in Worker, NEW t, Closes(v, t)
        PROVE  ticks'[pick[w]] = ticks[pick[w]]
    <3>1. v # w
      BY <1>2, <2>2 DEF Closes, Stays
    <3>2. pick[v] \in Run /\ Holds(v, pick[v])
      BY <2>2 DEF Closes, TypeOK, Holds
    <3>3. pick[v] # pick[w]
      BY <2>1, <3>1, <3>2 DEF Locking, OneHolder
    <3> QED
      BY <2>2, <3>3 DEF Closes, AppendTick, TypeOK, LogTypeOK
  <2> QED
    BY <1>2, <2>1, <2>2, TicksStep
<1> QED
  BY <1>1, <1>2, OthersStay, NobodyMoves DEF Next

-----------------------------------------------------------------------------
\* Children finish before their parent moves.

\* A tick launches messages or requests rollbacks, never both.
Windows ==
    \A r \in Run : \A i \in DOMAIN ticks[r] :
        ticks[r][i].emits = {} \/ ticks[r][i].undoes = {}

\* The inductive invariant: without one holder per run a second worker could
\* write the run's ticks, or start a child, while the first executes a step.
WaitingInv ==
    /\ TypeOK /\ Ranged
    /\ Locking
    /\ Windows
    /\ ChildrenFinishedBeforeParentMoves

LEMMA AppendedTick ==
    ASSUME TypeOK, NEW r \in Run, NEW t, AppendTick(r, t)
    PROVE  /\ DOMAIN ticks'[r] = DOMAIN ticks[r] \cup {Len(ticks[r]) + 1}
           /\ ticks'[r][Len(ticks[r]) + 1] = t
           /\ \A i \in DOMAIN ticks[r] : ticks'[r][i] = ticks[r][i]
           /\ \A q \in Run : q # r => ticks'[q] = ticks[q]
<1>1. ticks \in [Run -> Seq(Tick)]
  BY DEF TypeOK, LogTypeOK
<1>2. ticks'[r] = Append(ticks[r], t) /\ \A q \in Run : q # r => ticks'[q] = ticks[q]
  BY <1>1 DEF AppendTick
<1> QED
  BY <1>1, <1>2

LEMMA WindowsKept ==
    ASSUME TypeOK, Windows, [Next]_vars
    PROVE  Windows'
<1>1. CASE UNCHANGED ticks
  BY <1>1 DEF Windows
<1>2. ASSUME NEW w \in Worker, NEW t, Closes(w, t)
      PROVE  Windows'
  <2>1. pick[w] \in Run
    BY <1>2 DEF Closes, TypeOK
  <2> QED
    BY <1>2, <2>1, AppendedTick DEF Windows, Closes
<1> QED
  BY <1>1, <1>2, TicksStep

\* The second query, under the lock, lets through no run that still waits.
LEMMA ReadyHasNoChildren ==
    ASSUME TypeOK, Windows, NEW r \in Run, Ready(r), NEW c \in ChildSeens(r)
    PROVE  Terminated(c)
<1>1. c[1] \in Latest(r).emits /\ HasTicks(r)
  BY DEF ChildSeens, LatestEmits
<1>2. LatestUndoes(r) = {}
  <2>1. Len(ticks[r]) \in DOMAIN ticks[r]
    BY <1>1, TickTypes
  <2> QED
    BY <1>1, <2>1 DEF Windows, Latest, LatestUndoes
<1> QED
  BY <1>2 DEF Ready

LEMMA WaitingStep ==
    ASSUME WaitingInv, [Next]_vars
    PROVE  ChildrenFinishedBeforeParentMoves'
<1> SUFFICES ASSUME NEW w \in Worker, pc'[w] = "running",
                    NEW c \in ChildSeens(pick[w])'
             PROVE  Terminated(c)'
  BY DEF ChildrenFinishedBeforeParentMoves
<1> USE DEF WaitingInv
<1>1. CASE Claim(w) /\ pc[w] = "selected"
  <2>1. pick'[w] = pick[w] /\ UNCHANGED <<seen, ticks, marks>> /\ pick[w] \in Run
    BY <1>1 DEF Claim, TypeOK, log
  <2>2. c \in ChildSeens(pick[w])
    BY <2>1 DEF ChildSeens, LatestEmits, HasTicks, Latest
  <2>3. Terminated(c)
    BY <1>1, <2>1, <2>2, ReadyHasNoChildren DEF Claim
  <2> QED
    BY <2>1, <2>3 DEF Terminated
<1>2. CASE pc[w] = "running" /\ Stays(w) /\ ticks'[pick[w]] = ticks[pick[w]]
  <2>1. pick'[w] = pick[w] /\ pick[w] \in Run
    BY <1>2 DEF Stays, TypeOK
  <2>2. /\ c \in seen' /\ Emitter[c[1]] = pick[w] /\ c[1] \in LatestEmits(pick[w])
    BY <1>2, <2>1 DEF ChildSeens, LatestEmits, HasTicks, Latest
  <2>3. c \in Run
    BY <2>2, TypesInductive DEF TypeOK, LogTypeOK
  <2>4. CASE c \in seen
    <3>1. Terminated(c)
      BY <1>2, <2>2, <2>4 DEF ChildrenFinishedBeforeParentMoves, ChildSeens
    <3> QED
      BY <2>3, <3>1, MarksKept DEF Terminated
  <2>5. CASE c \notin seen
    <3>1. PICK v \in Worker : pc[v] = "inserting" /\ Holds(v, pick[w])
      BY <2>1, <2>2, <2>3, <2>5, StartedUnderLock
    <3>2. Holds(w, pick[w])
      BY <1>2, <2>1 DEF Holds
    <3>3. v = w
      BY <2>1, <3>1, <3>2 DEF Locking, OneHolder
    <3> QED
      BY <1>2, <3>1, <3>3
  <2> QED
    BY <2>4, <2>5
<1> QED
  BY <1>1, <1>2, StillRunning

LEMMA WaitingInductive == WaitingInv /\ [Next]_vars => WaitingInv'
BY TypesInductive, LockingInductive, WindowsKept, WaitingStep DEF WaitingInv

LEMMA WaitingInitially == Init => WaitingInv
<1> SUFFICES ASSUME Init
             PROVE  WaitingInv
  OBVIOUS
<1>1. Windows /\ ChildrenFinishedBeforeParentMoves
  BY DEF Init, LogInit, Windows, ChildrenFinishedBeforeParentMoves
<1> QED
  BY <1>1, TypesInitially, LockingInitially DEF WaitingInv

\* While a worker executes a step of a run, every handler started by what the
\* run's latest step launched has terminated: for every hierarchy, any number of
\* workers, and whatever crashes, gives up, is cancelled or rolled back
\* (PendingCoroutineRunSql.ts, candidateSeensWaitingToBeProcessed).
THEOREM ParentWaits == Spec => []ChildrenFinishedBeforeParentMoves
<1>1. WaitingInv => ChildrenFinishedBeforeParentMoves
  BY DEF WaitingInv
<1> QED
  BY <1>1, WaitingInitially, WaitingInductive, PTL DEF Spec

-----------------------------------------------------------------------------
\* Compensation runs newest step first, and each sub-step once.

SubStep == {"undoChildren", "undoSelf"} \X Nat

\* The list of buildRollbackSteps is a linear order.
LEMMA NotAfterOrder ==
    ASSUME NEW s \in SubStep, NEW t \in SubStep, NEW u \in SubStep
    PROVE  /\ NotAfter(s, s)
           /\ NotAfter(s, t) /\ NotAfter(t, u) => NotAfter(s, u)
           /\ NotAfter(s, t) /\ NotAfter(t, s) => s = t
BY DEF NotAfter, SubStep

LEMMA SubSteps == ASSUME NEW s \in Step, s[1] # "do" PROVE s \in SubStep
BY DEF Step, StepKind, SubStep

UndosMeanRollingBack ==
    \A r \in Run : \A i \in DOMAIN ticks[r] : ticks[r][i].step[1] # "do" => RollingBack(r)

\* What may come after the ticks of r: a user step after user steps only, a
\* sub-step that is further down the list than the latest one.
Follows(r, p) ==
    /\ p.mode = "handle" => p.iter # Normal
    /\ p.step[1] = "do" => \A i \in DOMAIN ticks[r] : ticks[r][i].step[1] = "do"
    /\ p.step[1] # "do" =>
        /\ RollingBack(r)
        /\ HasTicks(r) /\ Latest(r).step[1] # "do" /\ DistinctNames(r) =>
            /\ NotAfter(Latest(r).step, p.step)
            /\ p.step = Latest(r).step => p.iter # Normal \/ p.last

PlansFollow == \A w \in Worker : pc[w] = "running" => Follows(pick[w], plan[w])

\* The inductive invariant: the order of the rows is kept because the plan of a
\* running step was made from the rows it will be appended to.
CompensationInv ==
    /\ TypeOK /\ Ranged
    /\ Locking
    /\ UndosMeanRollingBack
    /\ PlansFollow
    /\ CompensatedOnceInReverse

LEMMA SubStepAfterFollows ==
    ASSUME TypeOK, NEW r \in Run, NEW s \in SubStep, ~IsLastSubStep(r, s)
    PROVE  NotAfter(s, SubStepAfter(r, s)) /\ SubStepAfter(r, s) # s
<1>1. s[1] \in {"undoChildren", "undoSelf"} /\ s[2] \in Nat
  BY DEF SubStep
<1>2. CASE s[1] = "undoChildren" /\ ticks[r][s[2]].iter = Normal
  BY <1>1, <1>2 DEF SubStepAfter, NotAfter
<1>3. CASE ~(s[1] = "undoChildren" /\ ticks[r][s[2]].iter = Normal)
  <2>1. HasOlder(r, s[2])
    BY <1>3 DEF IsLastSubStep
  <2>2. NewestBelow(r, s[2]) \in Nat /\ NewestBelow(r, s[2]) < s[2]
    BY <1>1, <2>1, NewestBelowIsTick
  <2> QED
    BY <1>1, <1>3, <2>2 DEF SubStepAfter, NotAfter
<1> QED
  BY <1>2, <1>3

LEMMA PlanForFollows ==
    ASSUME TypeOK, Ranged, UndosMeanRollingBack, NEW r \in Run, ~NotFound(r)
    PROVE  Follows(r, PlanFor(r))
<1> DEFINE p == PlanFor(r)
<1>1. CASE RollingBack(r)
  <2> DEFINE pt == RollbackPoint(r)
  <2>1. /\ pt.next[1] # "do" /\ pt.previous[1] # "do" /\ pt.iter \in Nat
        /\ p.step \in {pt.next, pt.previous} /\ p.last = pt.last
        /\ p.mode = "handle" => p.step = pt.previous /\ p.iter = pt.iter + 1
        /\ p.mode # "handle" => p.step = pt.next
    BY <1>1, RollbackPointOK DEF PlanFor, PointOK
  <2>2. p.step[1] # "do" /\ (p.mode = "handle" => p.iter # Normal)
    BY <2>1 DEF Normal
  <2>3. ASSUME HasTicks(r), Latest(r).step[1] # "do", DistinctNames(r)
        PROVE  /\ NotAfter(Latest(r).step, p.step)
               /\ p.step = Latest(r).step => p.iter # Normal \/ p.last
    <3> DEFINE s == Latest(r).step
    <3>1. s \in Step /\ s \in SubStep /\ s[2] \in Originals(r)
      BY <1>1, <2>3, TickTypes, SubSteps DEF Latest, Ranged, InRange, NotFound
    <3>4. Found(r, s) = s
      BY <2>3, <3>1, FoundItself
    <3>2. CASE IsLastSubStep(r, s)
      <4>1. pt.next = s /\ pt.previous = s /\ pt.last
        BY <2>3, <3>2, <3>4 DEF RollbackPoint
      <4> QED
        BY <2>1, <3>1, <4>1, NotAfterOrder
    <3>3. CASE ~IsLastSubStep(r, s)
      <4>1. pt.next = SubStepAfter(r, s) /\ pt.previous = s
        BY <2>3, <3>3, <3>4 DEF RollbackPoint
      <4> QED
        BY <2>1, <2>2, <3>1, <3>3, <4>1, NotAfterOrder, SubStepAfterFollows
    <3> QED
      BY <3>2, <3>3
  <2> QED
    BY <1>1, <2>2, <2>3 DEF Follows
<1>2. CASE ~RollingBack(r)
  <2>1. \A i \in DOMAIN ticks[r] : ticks[r][i].step[1] = "do"
    BY <1>2 DEF UndosMeanRollingBack
  <2>2. HappyPoint(r).next[1] = "do" /\ HappyPoint(r).previous[1] = "do"
        /\ HappyPoint(r).iter \in Nat
    <3>1. HasTicks(r) => Latest(r).step[1] = "do"
      BY <2>1, TickTypes DEF Latest
    <3> QED
      BY <3>1, HappyPointOK DEF HappyPoint, PointOK
  <2>3. p.step[1] = "do" /\ (p.mode = "handle" => p.iter # Normal)
    BY <1>2, <2>2 DEF PlanFor, Normal
  <2> QED
    BY <2>1, <2>3 DEF Follows
<1> QED
  BY <1>1, <1>2

LEMMA PlansFollowKept ==
    ASSUME CompensationInv, [Next]_vars
    PROVE  PlansFollow'
<1> USE DEF CompensationInv
<1> SUFFICES ASSUME NEW w \in Worker, pc'[w] = "running"
             PROVE  Follows(pick[w], plan[w])'
  BY DEF PlansFollow
<1>1. CASE Claim(w) /\ pc[w] = "selected"
  <2>1. /\ pick'[w] = pick[w] /\ UNCHANGED <<ticks, marks>> /\ pick[w] \in Run
        /\ ~NotFound(pick[w]) /\ plan'[w] = PlanFor(pick[w])
    BY <1>1 DEF Claim, TypeOK, log
  <2>2. Follows(pick[w], PlanFor(pick[w]))
    BY <2>1, PlanForFollows
  <2> HIDE DEF CompensationInv
  <2> QED
    BY <2>1, <2>2 DEF Follows, HasTicks, Latest, RollingBack, DistinctNames, Namesakes, Originals
<1>2. CASE pc[w] = "running" /\ Stays(w) /\ ticks'[pick[w]] = ticks[pick[w]]
  <2>1. /\ pick'[w] = pick[w] /\ plan'[w] = plan[w] /\ pick[w] \in Run
        /\ Follows(pick[w], plan[w])
    BY <1>2 DEF Stays, TypeOK, PlansFollow
  <2>2. RollingBack(pick[w]) => RollingBack(pick[w])'
    BY <2>1, MarksKept DEF RollingBack
  <2> HIDE DEF CompensationInv
  <2> QED
    BY <1>2, <2>1, <2>2 DEF Follows, HasTicks, Latest, DistinctNames, Namesakes, Originals
<1> QED
  BY <1>1, <1>2, StillRunning

\* Names that are distinct were distinct before.
LEMMA NamesKept ==
    ASSUME NEW r, \A i \in DOMAIN ticks[r] : i \in DOMAIN ticks'[r] /\ ticks'[r][i] = ticks[r][i],
           DistinctNames(r)'
    PROVE  DistinctNames(r)
<1> SUFFICES ASSUME NEW i \in Originals(r), NEW j \in Namesakes(r, i)
             PROVE  j = i
  BY DEF DistinctNames, Namesakes, Originals
<1>1. i \in Originals(r)' /\ j \in Namesakes(r, i)'
  BY DEF Namesakes, Originals
<1> QED
  BY <1>1 DEF DistinctNames

LEMMA CompensationStep ==
    ASSUME CompensationInv, [Next]_vars
    PROVE  UndosMeanRollingBack' /\ CompensatedOnceInReverse'
<1> USE DEF CompensationInv
<1>1. \A r \in Run : RollingBack(r) => RollingBack(r)'
  BY MarksKept DEF RollingBack
<1>2. CASE UNCHANGED ticks
  BY <1>1, <1>2 DEF UndosMeanRollingBack, CompensatedOnceInReverse, DistinctNames, Namesakes,
     Originals
<1>3. ASSUME NEW w \in Worker, NEW t, Closes(w, t)
      PROVE  UndosMeanRollingBack' /\ CompensatedOnceInReverse'
  <2> DEFINE r == pick[w]
             n == Len(ticks[r]) + 1
  <2>1. /\ r \in Run /\ Follows(r, plan[w]) /\ plan[w].step \in Step
        /\ t.step = plan[w].step /\ t.iter = plan[w].iter
    BY <1>3 DEF Closes, TypeOK, PlansFollow, Plan
  <2>2. /\ DOMAIN ticks'[r] = DOMAIN ticks[r] \cup {n}
        /\ ticks'[r][n] = t
        /\ \A i \in DOMAIN ticks[r] : ticks'[r][i] = ticks[r][i]
        /\ \A q \in Run : q # r => ticks'[q] = ticks[q]
    BY <1>3, <2>1, AppendedTick DEF Closes
  <2>3. Len(ticks[r]) \in Nat /\ DOMAIN ticks[r] = 1 .. Len(ticks[r])
    BY <2>1, TickTypes
  <2>4. ASSUME NEW i \in DOMAIN ticks[r], ticks[r][i].step[1] # "do"
        PROVE  /\ t.step[1] # "do"
               /\ DistinctNames(r) =>
                    /\ NotAfter(ticks[r][i].step, t.step)
                    /\ t.step = ticks[r][i].step => t.iter # Normal
    <3> DEFINE s == ticks[r][i].step
               m == Latest(r).step
    <3>1. HasTicks(r) /\ Len(ticks[r]) \in DOMAIN ticks[r]
      BY <2>3 DEF HasTicks
    <3>2. t.step[1] # "do"
      BY <2>1, <2>4 DEF Follows
    <3> SUFFICES ASSUME DistinctNames(r)
                 PROVE  /\ NotAfter(ticks[r][i].step, t.step)
                        /\ t.step = ticks[r][i].step => t.iter # Normal
      BY <3>2
    <3>3. m[1] # "do" /\ (i = Len(ticks[r]) \/ NotAfter(s, m))
      BY <2>1, <2>3, <2>4, <3>1 DEF CompensatedOnceInReverse, Latest
    <3>4. s \in SubStep /\ m \in SubStep /\ t.step \in SubStep
      BY <2>1, <2>4, <3>1, <3>2, <3>3, TickTypes, SubSteps DEF Latest
    <3>5. NotAfter(s, m)
      BY <3>3, <3>4, NotAfterOrder DEF Latest
    <3>6. NotAfter(m, t.step) /\ (t.step = m => t.iter # Normal \/ plan[w].last)
      BY <2>1, <2>4, <3>1, <3>2, <3>3 DEF Follows
    <3>7. t.step = m => t.iter # Normal
      BY <1>3, <2>1, <3>6 DEF Closes, Follows
    <3> QED
      BY <3>4, <3>5, <3>6, <3>7, NotAfterOrder
  <2>5. UndosMeanRollingBack'
    <3>1. t.step[1] # "do" => RollingBack(r)
      BY <2>1 DEF Follows
    <3> QED
      BY <1>1, <2>1, <2>2, <3>1 DEF UndosMeanRollingBack
  <2>6. CompensatedOnceInReverse'
    <3> SUFFICES ASSUME NEW q \in Run, NEW i \in DOMAIN ticks'[q], NEW j \in DOMAIN ticks'[q],
                        i < j, ticks'[q][i].step[1] # "do"
                 PROVE  /\ ticks'[q][j].step[1] # "do"
                        /\ DistinctNames(q)' =>
                            /\ NotAfter(ticks'[q][i].step, ticks'[q][j].step)
                            /\ ticks'[q][j].step = ticks'[q][i].step => ticks'[q][j].iter # Normal
      BY DEF CompensatedOnceInReverse, NotAfter
    <3>3. DistinctNames(q)' => DistinctNames(q)
      BY <2>2, NamesKept
    <3>1. CASE q # r \/ j \in DOMAIN ticks[r]
      <4>1. /\ i \in DOMAIN ticks[q] /\ j \in DOMAIN ticks[q]
            /\ ticks'[q][i] = ticks[q][i] /\ ticks'[q][j] = ticks[q][j]
        BY <2>2, <2>3, <3>1
      <4> QED
        BY <3>3, <4>1 DEF CompensatedOnceInReverse
    <3>2. CASE q = r /\ j \notin DOMAIN ticks[r]
      <4>1. j = n /\ i \in DOMAIN ticks[r] /\ ticks'[q][i] = ticks[r][i] /\ ticks'[q][j] = t
        BY <2>2, <2>3, <3>2
      <4> QED
        BY <2>4, <3>2, <3>3, <4>1
    <3> QED
      BY <3>1, <3>2
  <2> QED
    BY <2>5, <2>6
<1> QED
  BY <1>2, <1>3, TicksStep

LEMMA CompensationInductive == CompensationInv /\ [Next]_vars => CompensationInv'
BY TypesInductive, LockingInductive, PlansFollowKept, CompensationStep DEF CompensationInv

LEMMA CompensationInitially == Init => CompensationInv
<1> SUFFICES ASSUME Init
             PROVE  CompensationInv
  OBVIOUS
<1>1. UndosMeanRollingBack /\ PlansFollow /\ CompensatedOnceInReverse
  BY DEF Init, LogInit, UndosMeanRollingBack, PlansFollow, CompensatedOnceInReverse
<1> QED
  BY <1>1, TypesInitially, LockingInitially DEF CompensationInv

\* A step is compensated at most once, children first, newest step first,
\* whatever is interleaved, retried, crashed or handled in between
\* (RollbackPathContinuation.ts, buildRollbackSteps and the suspension point).
THEOREM ReverseOrder == Spec => []CompensatedOnceInReverse
<1>1. CompensationInv => CompensatedOnceInReverse
  BY DEF CompensationInv
<1> QED
  BY <1>1, CompensationInitially, CompensationInductive, PTL DEF Spec

-----------------------------------------------------------------------------
\* Without a loop no two ticks of a run share the names of their sub-steps.

\* One tick is further along the saga than another, or repeats it as a handler.
Further(s, t) ==
    \/ s.step[2] < t.step[2]
    \/ s.step[2] = t.step[2] /\ s.iter < t.iter

\* The user steps of r follow the saga, and each says which one is next.
InSagaOrder(r) ==
    /\ \A i \in Originals(r) :
        ticks[r][i].next = IF ticks[r][i].step[2] = StepCount[r[2]] THEN 0
                           ELSE ticks[r][i].step[2] + 1
    /\ \A i, j \in Originals(r) : i < j => Further(ticks[r][i], ticks[r][j])

SagaOrder == \A r \in Run : r[2] \notin Looping => InSagaOrder(r)

\* What runs user code now is further than the latest step.
PlansFurther ==
    \A w \in Worker :
        pc[w] = "running" /\ pick[w][2] \notin Looping /\ plan[w].step[1] = "do"
            /\ (plan[w].last => plan[w].mode = "handle") /\ HasTicks(pick[w]) =>
                Further(Latest(pick[w]), plan[w])

\* The inductive invariant.
NamesInv == CompensationInv /\ SagaOrder /\ PlansFurther

LEMMA OrderedNames ==
    ASSUME TypeOK, NEW r \in Run, InSagaOrder(r)
    PROVE  DistinctNames(r)
<1> SUFFICES ASSUME NEW i \in Originals(r), NEW j \in Namesakes(r, i), j # i
             PROVE  FALSE
  BY DEF DistinctNames, Namesakes, Originals
<1>1. /\ i \in DOMAIN ticks[r] /\ j \in DOMAIN ticks[r] /\ j \in Originals(r)
      /\ ticks[r][j].step = ticks[r][i].step /\ ticks[r][j].iter = ticks[r][i].iter
  BY DEF Namesakes, Originals
<1>2. i \in Nat /\ j \in Nat /\ ticks[r][i].step[2] \in Nat /\ ticks[r][i].iter \in Nat
  BY <1>1, TickTypes
<1>3. Further(ticks[r][i], ticks[r][j]) \/ Further(ticks[r][j], ticks[r][i])
  BY <1>1, <1>2 DEF InSagaOrder
<1> QED
  BY <1>1, <1>2, <1>3 DEF Further

LEMMA PlanForFurther ==
    ASSUME TypeOK, Ranged, UndosMeanRollingBack, NEW r \in Run, ~NotFound(r), InSagaOrder(r),
           HasTicks(r), PlanFor(r).step[1] = "do", PlanFor(r).last => PlanFor(r).mode = "handle"
    PROVE  Further(Latest(r), PlanFor(r))
<1> DEFINE p == PlanFor(r)
           pt == HappyPoint(r)
           l == Latest(r)
<1>1. ~RollingBack(r)
  <2> SUFFICES ASSUME RollingBack(r)
               PROVE  FALSE
    OBVIOUS
  <2>1. RollbackPoint(r).next[1] # "do" /\ RollbackPoint(r).previous[1] # "do"
    BY RollbackPointOK
  <2> QED
    BY <2>1 DEF PlanFor
<1>2. /\ p.mode = "handle" => p.step = pt.previous /\ p.iter = pt.iter + 1
      /\ p.mode # "handle" => p.step = pt.next /\ p.iter = pt.iter /\ ~pt.last
  BY <1>1 DEF PlanFor
<1>3. /\ Len(ticks[r]) \in DOMAIN ticks[r] /\ l = ticks[r][Len(ticks[r])]
      /\ l.step[2] \in Nat /\ l.iter \in Nat /\ l.next \in Nat /\ StepCount[r[2]] \in Nat \ {0}
  BY TickTypes DEF Latest
<1>4. Len(ticks[r]) \in Originals(r)
  BY <1>1, <1>3 DEF UndosMeanRollingBack, Originals
<1>5. l.next = IF l.step[2] = StepCount[r[2]] THEN 0 ELSE l.step[2] + 1
  BY <1>3, <1>4 DEF InSagaOrder
<1>6. CASE l.next = 0
  <2>1. /\ pt.next = <<"do", StepCount[r[2]]>> /\ pt.previous = <<"do", StepCount[r[2]]>>
        /\ pt.last /\ pt.iter = l.iter
    BY <1>6 DEF HappyPoint
  <2>2. l.step[2] = StepCount[r[2]]
    BY <1>3, <1>5, <1>6
  <2>3. p.step[2] = l.step[2] /\ p.iter = l.iter + 1
    BY <1>2, <2>1, <2>2
  <2> HIDE DEF p, l
  <2> QED
    BY <1>3, <2>3 DEF Further, p, l
<1>7. CASE l.next # 0
  <2>1. pt.next = <<"do", l.next>> /\ pt.previous = l.step /\ pt.iter = l.iter
    BY <1>7 DEF HappyPoint
  <2>2. l.next = l.step[2] + 1
    BY <1>5, <1>7
  <2>3. \/ p.step[2] = l.step[2] /\ p.iter = l.iter + 1
        \/ p.step[2] = l.step[2] + 1
    BY <1>2, <2>1, <2>2
  <2> HIDE DEF p, l
  <2> QED
    BY <1>3, <2>3 DEF Further, p, l
<1> QED
  BY <1>6, <1>7

LEMMA PlansFurtherKept ==
    ASSUME NamesInv, [Next]_vars
    PROVE  PlansFurther'
<1>1. TypeOK /\ Ranged /\ Locking /\ UndosMeanRollingBack
  BY DEF NamesInv, CompensationInv
<1> SUFFICES ASSUME NEW w \in Worker, pc'[w] = "running", pick'[w][2] \notin Looping,
                    plan'[w].step[1] = "do", plan'[w].last => plan'[w].mode = "handle",
                    HasTicks(pick[w])'
             PROVE  Further(Latest(pick[w])', plan'[w])
  BY DEF PlansFurther, Further
<1>2. CASE Claim(w) /\ pc[w] = "selected"
  <2>1. /\ pick'[w] = pick[w] /\ ticks' = ticks /\ pick[w] \in Run
        /\ ~NotFound(pick[w]) /\ plan'[w] = PlanFor(pick[w])
    BY <1>1, <1>2 DEF Claim, TypeOK, log
  <2>2. InSagaOrder(pick[w]) /\ HasTicks(pick[w])
    BY <2>1 DEF NamesInv, SagaOrder, HasTicks
  <2>3. Further(Latest(pick[w]), PlanFor(pick[w]))
    BY <1>1, <2>1, <2>2, PlanForFurther
  <2> QED
    BY <2>1, <2>3 DEF Latest
<1>3. CASE pc[w] = "running" /\ Stays(w) /\ ticks'[pick[w]] = ticks[pick[w]]
  <2>1. pick'[w] = pick[w] /\ plan'[w] = plan[w] /\ HasTicks(pick[w])
    BY <1>3 DEF Stays, HasTicks
  <2>2. Further(Latest(pick[w]), plan[w])
    BY <1>3, <2>1 DEF NamesInv, PlansFurther
  <2> QED
    BY <1>3, <2>1, <2>2 DEF Latest
<1> QED
  BY <1>1, <1>2, <1>3, StillRunning

\* A user step chooses what is next from the saga's steps.
LEMMA UserTicks ==
    ASSUME TypeOK, [Next]_vars
    PROVE  \/ UNCHANGED ticks
           \/ \E w \in Worker : \E t :
                Closes(w, t) /\ (t.step[1] = "do" => t.next \in NextChoices(pick[w], t.step))
<1>1. ASSUME NEW w \in Worker, Suspend(w)
      PROVE  \E t : Closes(w, t) /\ t.next \in NextChoices(pick[w], t.step)
  <2>1. PICK launched, next :
          /\ next \in NextChoices(pick[w], plan[w].step)
          /\ AppendTick(pick[w], [step |-> plan[w].step, next |-> next, iter |-> plan[w].iter,
                                  emits |-> launched, undoes |-> {}])
    BY <1>1 DEF Suspend
  <2>2. pc[w] = "running" /\ pc'[w] = "idle" /\ (plan[w].last => plan[w].mode = "handle")
    BY <1>1 DEF Suspend, ToIdle, RunsUserCode, TypeOK
  <2> QED
    BY <2>1, <2>2 DEF Closes
<1>2. ASSUME NEW w \in Worker, UndoChildren(w)
      PROVE  UNCHANGED ticks \/ \E t : Closes(w, t) /\ t.step[1] # "do"
  <2> SUFFICES ASSUME ~UNCHANGED ticks
               PROVE  \E t : Closes(w, t) /\ t.step[1] # "do"
    OBVIOUS
  <2> DEFINE undoes == ticks[pick[w]][plan[w].step[2]].emits
  <2>1. /\ AppendTick(pick[w], [step |-> plan[w].step, next |-> 0, iter |-> plan[w].iter,
                                emits |-> {}, undoes |-> undoes])
        /\ ToIdle(w)
    BY <1>2 DEF UndoChildren
  <2>2. /\ pc[w] = "running" /\ pc'[w] = "idle" /\ ~plan[w].last
        /\ plan[w].step[1] # "do"
    BY <1>2, <2>1 DEF UndoChildren, ToIdle, TypeOK
  <2> QED
    BY <2>1, <2>2 DEF Closes
<1>3. CASE UNCHANGED ticks
  BY <1>3
<1>4. UNCHANGED ticks \/ \E w \in Worker : Suspend(w) \/ UndoChildren(w)
  BY DEF Next, WorkerStep, Environment, Conclude, Resume, ReconcileBegin, ReconcileLock,
         ReconcileCommit, Select, Claim, LosePick, Finish, Fail, Abort, Crash, Launch, Cancel,
         AskRollback, RequestRollback, WithdrawRollback, Expire, log, vars, tx
<1> QED
  BY <1>1, <1>2, <1>3, <1>4

LEMMA SagaOrderStep ==
    ASSUME NamesInv, [Next]_vars
    PROVE  SagaOrder'
<1>1. TypeOK /\ SagaOrder
  BY DEF NamesInv, CompensationInv
<1>2. CASE UNCHANGED ticks
  BY <1>1, <1>2 DEF SagaOrder, InSagaOrder, Originals, Further
<1>3. ASSUME NEW w \in Worker, NEW t, Closes(w, t),
             t.step[1] = "do" => t.next \in NextChoices(pick[w], t.step)
      PROVE  SagaOrder'
  <2>1. PICK r, n : r = pick[w] /\ n = Len(ticks[r]) + 1
    OBVIOUS
  <2>2. /\ r \in Run /\ plan[w].step \in Step /\ plan[w].iter \in Nat
        /\ t.step = plan[w].step /\ t.iter = plan[w].iter /\ Follows(r, plan[w])
    BY <1>1, <1>3, <2>1 DEF Closes, TypeOK, Plan, NamesInv, CompensationInv, PlansFollow
  <2>3. /\ DOMAIN ticks'[r] = DOMAIN ticks[r] \cup {n}
        /\ ticks'[r][n] = t
        /\ \A i \in DOMAIN ticks[r] : ticks'[r][i] = ticks[r][i]
        /\ \A q \in Run : q # r => ticks'[q] = ticks[q]
    BY <1>1, <1>3, <2>1, <2>2, AppendedTick DEF Closes
  <2>4. Len(ticks[r]) \in Nat /\ DOMAIN ticks[r] = 1 .. Len(ticks[r]) /\ t.step[2] \in Nat
    BY <1>1, <2>2, TickTypes DEF Step
  <2>5. ASSUME NEW q \in Run, q # r, q[2] \notin Looping
        PROVE  InSagaOrder(q)'
    <3>1. InSagaOrder(q) /\ ticks'[q] = ticks[q]
      BY <1>1, <2>3, <2>5 DEF SagaOrder
    <3> QED
      BY <3>1 DEF InSagaOrder, Originals, Further
  <2>6. ASSUME r[2] \notin Looping
        PROVE  InSagaOrder(r)'
    <3>1. InSagaOrder(r)
      BY <1>1, <2>2, <2>6 DEF SagaOrder
    <3>2. \A i : i \in Originals(r)' =>
            \/ i \in Originals(r) /\ ticks'[r][i] = ticks[r][i]
            \/ i = n /\ t.step[1] = "do"
      BY <2>3 DEF Originals
    <3>3. t.step[1] = "do" =>
            t.next = IF t.step[2] = StepCount[r[2]] THEN 0 ELSE t.step[2] + 1
      BY <1>3, <2>1, <2>6 DEF NextChoices
    <3>4. ASSUME NEW i \in Originals(r), t.step[1] = "do"
          PROVE  Further(ticks[r][i], t)
      <4>1. /\ i \in DOMAIN ticks[r] /\ HasTicks(r)
            /\ Len(ticks[r]) \in DOMAIN ticks[r] /\ Latest(r) = ticks[r][Len(ticks[r])]
        BY <2>4 DEF Originals, HasTicks, Latest
      <4>2. Len(ticks[r]) \in Originals(r)
        BY <2>2, <3>4, <4>1 DEF Follows, Originals
      <4>3. i = Len(ticks[r]) \/ Further(ticks[r][i], Latest(r))
        BY <2>4, <3>1, <4>1, <4>2 DEF InSagaOrder
      <4>4. Further(Latest(r), plan[w])
        BY <1>3, <2>1, <2>2, <2>6, <3>4, <4>1 DEF NamesInv, PlansFurther, Closes
      <4>5. /\ ticks[r][i].step[2] \in Nat /\ ticks[r][i].iter \in Nat
            /\ Latest(r).step[2] \in Nat /\ Latest(r).iter \in Nat
        BY <1>1, <2>2, <4>1, TickTypes
      <4> QED
        BY <2>2, <2>4, <4>1, <4>3, <4>4, <4>5 DEF Further
    <3>5. \A i \in Originals(r)' :
            ticks'[r][i].next = IF ticks'[r][i].step[2] = StepCount[r[2]] THEN 0
                                ELSE ticks'[r][i].step[2] + 1
      BY <2>3, <3>1, <3>2, <3>3 DEF InSagaOrder
    <3>6. ASSUME NEW i \in Originals(r)', NEW j \in Originals(r)', i < j
          PROVE  Further(ticks'[r][i], ticks'[r][j])
      <4>1. i \in Originals(r) /\ ticks'[r][i] = ticks[r][i]
        <5>1. j \in DOMAIN ticks[r] \cup {n}
          BY <2>3 DEF Originals
        <5>2. i # n
          BY <2>1, <2>4, <3>6, <5>1
        <5> QED
          BY <3>2, <5>2
      <4>2. CASE j \in Originals(r) /\ ticks'[r][j] = ticks[r][j]
        BY <3>1, <3>6, <4>1, <4>2 DEF InSagaOrder
      <4>3. CASE j = n /\ t.step[1] = "do"
        BY <2>3, <3>4, <4>1, <4>3
      <4> QED
        BY <3>2, <4>2, <4>3
    <3> QED
      BY <3>5, <3>6 DEF InSagaOrder, Further
  <2> QED
    BY <2>5, <2>6 DEF SagaOrder
<1> QED
  BY <1>1, <1>2, <1>3, UserTicks

LEMMA NamesInductive == NamesInv /\ [Next]_vars => NamesInv'
BY CompensationInductive, SagaOrderStep, PlansFurtherKept DEF NamesInv

LEMMA NamesInitially == Init => NamesInv
<1> SUFFICES ASSUME Init
             PROVE  NamesInv
  OBVIOUS
<1>1. SagaOrder /\ PlansFurther
  BY DEF Init, LogInit, SagaOrder, InSagaOrder, Originals, PlansFurther
<1> QED
  BY <1>1, CompensationInitially DEF NamesInv

\* Of a saga that never goes back to a step, the rollback rows follow the list of
\* buildRollbackSteps, whatever handleChildFailures did in between: no two of its
\* sub-steps share a name (RollbackPathContinuation.ts, the findIndex over names).
FollowTheList ==
    \A r \in Run : r[2] \notin Looping => \A i, j \in DOMAIN ticks[r] :
        i < j /\ ticks[r][i].step[1] # "do" =>
            /\ NotAfter(ticks[r][i].step, ticks[r][j].step)
            /\ ticks[r][j].step = ticks[r][i].step => ticks[r][j].iter # Normal

THEOREM ReverseOrderWithoutLoops == Spec => []FollowTheList
<1>1. NamesInv => FollowTheList
  <2> SUFFICES ASSUME NamesInv, NEW r \in Run, r[2] \notin Looping,
                      NEW i \in DOMAIN ticks[r], NEW j \in DOMAIN ticks[r],
                      i < j, ticks[r][i].step[1] # "do"
               PROVE  /\ NotAfter(ticks[r][i].step, ticks[r][j].step)
                      /\ ticks[r][j].step = ticks[r][i].step => ticks[r][j].iter # Normal
    BY DEF FollowTheList, NotAfter
  <2>1. DistinctNames(r)
    BY OrderedNames DEF NamesInv, CompensationInv, SagaOrder
  <2> QED
    BY <2>1 DEF NamesInv, CompensationInv, CompensatedOnceInReverse
<1> QED
  BY <1>1, NamesInitially, NamesInductive, PTL DEF Spec
=============================================================================
