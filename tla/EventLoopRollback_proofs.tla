----------------------- MODULE EventLoopRollback_proofs -----------------------
(***************************************************************************)
(* What the end of a rollback says about the run and the runs below it:    *)
(* every user step undone, every handler it started rolled back.           *)
(***************************************************************************)
EXTENDS EventLoopTree_proofs

\* The run's handleChildFailures returned on its way back.
Handled(r) == \E i \in DOMAIN ticks[r] : ticks[r][i].step[1] # "do" /\ ticks[r][i].iter # Normal

\* The list of buildRollbackSteps.
ToUndo(r) ==
    {<<"undoChildren", i>> : i \in Originals(r)}
    \cup {<<"undoSelf", i>> : i \in {k \in Originals(r) : ticks[r][k].iter = Normal}}

\* A tick executed sub-step s.
Done(r, s) ==
    \E j \in DOMAIN ticks[r] :
        /\ ticks[r][j].step = s
        /\ s[1] = "undoChildren" => ticks[r][j].undoes = ticks[r][s[2]].emits

\* Sub-step s, and all of the list before it, is executed.
Covered(r, s) == \A u \in ToUndo(r) : NotAfter(u, s) => Done(r, u)

\* The latest tick executed a sub-step of the rollback, and up to it nothing had
\* to be handled.
OnList(r) ==
    /\ HasTicks(r)
    /\ Latest(r).step[1] # "do" /\ Latest(r).step # Sentinel
    /\ Latest(r).iter = Normal

\* Where the rollback resumes in the list: what is found under the latest tick's name.
Reached(r) == Found(r, Latest(r).step)

CoveredUpToLatest == \A r \in Run : OnList(r) => Covered(r, Latest(r).step)

\* How a continuation in which nothing had to be handled follows on the ticks,
\* and where one that handles nothing has its handler iteration from.
Straight(r, p) ==
    p.back =>
        /\ p.mode # "handle" /\ p.iter # Normal => Handled(r)
        /\ p.iter = Normal =>
            /\ p.mode = "rollback"
            /\ p.last => ~HasTicks(r) \/ (OnList(r) /\ IsLastSubStep(r, Reached(r)))
            /\ \/ p.last
               \/ /\ HasTicks(r) /\ Latest(r).step[1] = "do"
                  /\ p.step = <<"undoChildren", Len(ticks[r])>>
               \/ /\ OnList(r) /\ ~IsLastSubStep(r, Reached(r))
                  /\ p.step = SubStepAfter(r, Reached(r))

RunnersStraight == \A w \in Worker : pc[w] = "running" => Straight(pick[w], plan[w])

\* All handlers of what the i-th tick asked to roll back are rolled back.
AllRolledBack(r, i) ==
    \A m \in ticks[r][i].undoes : \A h \in Listeners[m] : "ROLLED_BACK" \in marks[<<m, h>>]

\* A compensation is executed once the rollbacks that earlier ones asked for
\* succeeded.
RolledBackBefore ==
    /\ \A r \in Run : \A i, j \in DOMAIN ticks[r] :
        i < j /\ ticks[r][j].step[1] # "do" /\ ticks[r][j].iter = Normal => AllRolledBack(r, i)
    /\ \A w \in Worker : pc[w] = "running" /\ plan[w].back /\ ~plan[w].doomed
                            /\ plan[w].iter = Normal =>
        \A i \in DOMAIN ticks[pick[w]] : AllRolledBack(pick[w], i)

\* Every user step of r is undone, everything it launched is rolled back.
WholeTree(r) ==
    \A i \in Originals(r) :
        /\ ticks[r][i].iter = Normal => Done(r, <<"undoSelf", i>>)
        /\ \A m \in ticks[r][i].emits : \A h \in Listeners[m] :
            "ROLLED_BACK" \in marks[<<m, h>>]

\* A rollback that ended well, without anything to handle, left nothing out.
UnhandledIsWhole ==
    \A r \in Run : "ROLLED_BACK" \in marks[r] /\ ~Handled(r) => WholeTree(r)

\* A run asks to roll back what it launched.
UndoesOwn ==
    \A r \in Run : \A i \in DOMAIN ticks[r] : ticks[r][i].undoes \subseteq EmittedBy(r)

\* The inductive invariant: the rollback rows of a run are the list of
\* buildRollbackSteps from its start, so the last sub-step of it closes the list.
WholeInv ==
    /\ UndoneInv
    /\ UndoesOwn
    /\ CoveredUpToLatest
    /\ RunnersStraight
    /\ RolledBackBefore
    /\ UnhandledIsWhole

-----------------------------------------------------------------------------
\* The list of sub-steps.

LEMMA ListTypes ==
    ASSUME TypeOK, NEW r \in Run, NEW u \in ToUndo(r)
    PROVE  /\ u \in SubStep /\ u[1] \in {"undoChildren", "undoSelf"}
           /\ u[2] \in Originals(r) /\ u[2] \in Nat /\ u[2] \in DOMAIN ticks[r]
           /\ u = <<u[1], u[2]>>
           /\ u[1] = "undoSelf" => ticks[r][u[2]].iter = Normal
<1>1. \A i \in Originals(r) : i \in Nat /\ i \in DOMAIN ticks[r]
  BY TickTypes DEF Originals
<1> QED
  BY <1>1 DEF ToUndo, SubStep

LEMMA ListStarts ==
    ASSUME TypeOK, NEW r \in Run, NEW n \in Nat, \A i \in Originals(r) : i <= n,
           NEW u \in ToUndo(r), NotAfter(u, <<"undoChildren", n>>)
    PROVE  u = <<"undoChildren", n>>
<1>1. /\ u[1] \in {"undoChildren", "undoSelf"} /\ u[2] \in Nat /\ u[2] <= n
      /\ u = <<u[1], u[2]>>
  BY ListTypes
<1> QED
  BY <1>1 DEF NotAfter

LEMMA NewestIsNewest ==
    ASSUME TypeOK, NEW r \in Run, NEW i \in Nat, HasOlder(r, i)
    PROVE  /\ NewestBelow(r, i) \in Originals(r) /\ NewestBelow(r, i) < i
           /\ \A k \in Originals(r) : k < i => k <= NewestBelow(r, i)
<1>1. Originals(r) \in SUBSET Nat
  BY TickTypes DEF Originals
<1>2. \E j \in Originals(r) : j < i /\ \A k \in Originals(r) : k < i => k <= j
  BY <1>1, NewestExists DEF HasOlder
<1> QED
  BY <1>2 DEF NewestBelow

\* Nothing of the list lies between a sub-step and the one after it.
LEMMA ListGoesOn ==
    ASSUME TypeOK, NEW r \in Run, NEW s \in SubStep, s[2] \in Originals(r),
           ~IsLastSubStep(r, s),
           NEW u \in ToUndo(r), NotAfter(u, SubStepAfter(r, s)), u # SubStepAfter(r, s)
    PROVE  NotAfter(u, s)
<1>1. /\ s[1] \in {"undoChildren", "undoSelf"} /\ s[2] \in Nat
      /\ u[1] \in {"undoChildren", "undoSelf"} /\ u[2] \in Nat /\ u[2] \in Originals(r)
      /\ u = <<u[1], u[2]>>
      /\ u[1] = "undoSelf" => ticks[r][u[2]].iter = Normal
  BY ListTypes DEF SubStep
<1>2. CASE s[1] = "undoChildren" /\ ticks[r][s[2]].iter = Normal
  <2>1. SubStepAfter(r, s) = <<"undoSelf", s[2]>>
    BY <1>2 DEF SubStepAfter
  <2> QED
    BY <1>1, <1>2, <2>1 DEF NotAfter
<1>3. CASE ~(s[1] = "undoChildren" /\ ticks[r][s[2]].iter = Normal)
  <2>1. SubStepAfter(r, s) = <<"undoChildren", NewestBelow(r, s[2])>> /\ HasOlder(r, s[2])
    BY <1>3 DEF SubStepAfter, IsLastSubStep
  <2>2. PICK n \in Nat : /\ n = NewestBelow(r, s[2]) /\ n < s[2]
                         /\ u[2] < s[2] => u[2] <= n
    BY <1>1, <2>1, NewestIsNewest, TickTypes DEF Originals
  <2>3. NotAfter(u, <<"undoChildren", n>>) /\ u # <<"undoChildren", n>>
    BY <2>1, <2>2
  <2>4. n < u[2]
    BY <1>1, <2>2, <2>3 DEF NotAfter
  <2>5. s[2] <= u[2]
    BY <1>1, <2>2, <2>4
  <2>6. CASE s[2] < u[2]
    BY <1>1, <2>6 DEF NotAfter
  <2>7. CASE s[2] = u[2]
    BY <1>1, <1>3, <2>7 DEF NotAfter
  <2> QED
    BY <1>1, <2>5, <2>6, <2>7
<1> QED
  BY <1>2, <1>3

\* Past the last sub-step nothing of the list is left.
LEMMA ListEnds ==
    ASSUME TypeOK, NEW r \in Run, NEW s \in SubStep, IsLastSubStep(r, s), NEW u \in ToUndo(r)
    PROVE  NotAfter(u, s)
<1>1. /\ s[1] \in {"undoChildren", "undoSelf"} /\ s[2] \in Nat
      /\ u[1] \in {"undoChildren", "undoSelf"} /\ u[2] \in Nat /\ u[2] \in Originals(r)
      /\ u = <<u[1], u[2]>>
      /\ u[1] = "undoSelf" => ticks[r][u[2]].iter = Normal
  BY ListTypes DEF SubStep
<1>2. s[2] <= u[2]
  BY <1>1 DEF IsLastSubStep, HasOlder
<1>3. CASE s[2] < u[2]
  BY <1>1, <1>3 DEF NotAfter
<1>4. CASE s[2] = u[2]
  BY <1>1, <1>4 DEF NotAfter, IsLastSubStep
<1> QED
  BY <1>1, <1>2, <1>3, <1>4

\* What is found under a name does not come after what has the name.
LEMMA ReachedOnList ==
    ASSUME TypeOK, Ranged, NEW r \in Run, OnList(r)
    PROVE  /\ Reached(r) \in SubStep /\ Reached(r)[2] \in Originals(r)
           /\ \A u \in ToUndo(r) : NotAfter(u, Reached(r)) => NotAfter(u, Latest(r).step)
<1>1. PICK l : l = Latest(r).step
  OBVIOUS
<1>2. l \in Step /\ l[1] # "do" /\ l[2] \in Originals(r) /\ l \in SubStep
  BY <1>1, TickTypes, SubSteps DEF OnList, Latest, Ranged, InRange
<1>3. PICK j \in Originals(r) : Found(r, l) = <<l[1], j>> /\ j \in Nat /\ l[2] <= j
  BY <1>2, FoundIsTick
<1>4. Found(r, l) \in SubStep /\ NotAfter(Found(r, l), l) /\ Found(r, l)[2] \in Originals(r)
  BY <1>2, <1>3 DEF NotAfter, SubStep
<1>5. \A u \in ToUndo(r) : u \in SubStep
  BY ListTypes
<1> QED
  BY <1>1, <1>2, <1>4, <1>5, NotAfterOrder DEF Reached

-----------------------------------------------------------------------------
\* The rollback rows of a run cover the list from its start.

LEMMA CoveredStep ==
    ASSUME UndoneInv, CoveredUpToLatest, RunnersStraight, [Next]_vars
    PROVE  CoveredUpToLatest'
<1>1. TypeOK /\ RunnerInv /\ CompensationInv /\ Ranged
  BY DEF UndoneInv, OutcomeInv, RunnerInv, CompensationInv
<1> SUFFICES ASSUME NEW r \in Run, OnList(r)'
             PROVE  Covered(r, Latest(r).step)'
  BY DEF CoveredUpToLatest
<1>2. CASE ticks'[r] = ticks[r]
  <2>1. OnList(r) /\ Latest(r).step' = Latest(r).step
    BY <1>2 DEF OnList, HasTicks, Latest
  <2>2. Covered(r, Latest(r).step)
    BY <2>1 DEF CoveredUpToLatest
  <2> QED
    BY <1>2, <2>1, <2>2 DEF Covered, ToUndo, Originals, Done, Latest
<1>3. ASSUME NEW w \in Worker, NEW t, Launches(w, t) \/ Requests(w, t), ticks'[r] # ticks[r]
      PROVE  Covered(r, Latest(r).step)'
  <2>1. /\ pick[w] \in Run /\ AppendTick(pick[w], t) /\ pc[w] = "running" /\ Closes(w, t)
        /\ t.step = plan[w].step /\ t.iter = plan[w].iter
        /\ plan[w].last => plan[w].mode = "handle"
    BY <1>1, <1>3 DEF Launches, Requests, Closes, TypeOK
  <2>2. pick[w] = r
    BY <1>1, <1>3, <2>1, AppendedTick
  <2>3. PICK n, p, s : n = Len(ticks[r]) + 1 /\ p = plan[w] /\ s = t.step
    OBVIOUS
  <2>4. /\ DOMAIN ticks'[r] = DOMAIN ticks[r] \cup {n} /\ ticks'[r][n] = t
        /\ \A i \in DOMAIN ticks[r] : ticks'[r][i] = ticks[r][i]
        /\ n \notin DOMAIN ticks[r] /\ DOMAIN ticks[r] = 1 .. Len(ticks[r]) /\ n \in Nat
    BY <1>1, <2>1, <2>2, <2>3, AppendedTick, TickTypes
  <2>5. Latest(r)' = t
    <3>1. ticks[r] \in Seq(Tick) /\ ticks \in [Run -> Seq(Tick)]
      BY <1>1 DEF TypeOK, LogTypeOK
    <3>2. ticks'[r] = Append(ticks[r], t)
      BY <2>1, <2>2, <3>1 DEF AppendTick
    <3> QED
      BY <3>1, <3>2 DEF Latest
  <2>6. s[1] # "do" /\ s # Sentinel /\ p.iter = Normal /\ p.step = s
    BY <2>1, <2>3, <2>5 DEF OnList, Sentinel
  <2>7. p.back /\ p.mode = "rollback" /\ ~p.last /\ Straight(r, p)
    <3>1. p.back
      BY <1>1, <2>1, <2>3, <2>6 DEF RunnerInv, RunnersFit, Fits
    <3> QED
      BY <2>1, <2>2, <2>3, <2>6, <3>1 DEF RunnersStraight, Straight
  <2>8. ToUndo(r)' = ToUndo(r)
    <3>1. Originals(r)' = Originals(r)
      BY <2>3, <2>4, <2>6 DEF Originals
    <3>2. \A i \in Originals(r) : ticks'[r][i].iter = ticks[r][i].iter
      BY <2>4 DEF Originals
    <3> QED
      BY <3>1, <3>2 DEF ToUndo
  <2>9. \A u \in ToUndo(r) : Done(r, u) => Done(r, u)'
    BY <1>1, <2>4, ListTypes DEF Done
  <2>10. s \in ToUndo(r) => Done(r, s)'
    <3> SUFFICES ASSUME s \in ToUndo(r)
                 PROVE  s[1] = "undoChildren" => t.undoes = ticks'[r][s[2]].emits
      BY <2>3, <2>4 DEF Done
    <3>1. s[2] \in DOMAIN ticks[r]
      BY <1>1, ListTypes
    <3>2. s[1] = "undoChildren" => Requests(w, t)
      BY <1>3, <2>3, <2>6, <2>7 DEF Launches, RunsUserCode
    <3> QED
      BY <2>2, <2>3, <2>4, <2>6, <3>1, <3>2 DEF Requests
  <2>11. \A u \in ToUndo(r) : NotAfter(u, s) => u = s \/ Done(r, u)
    <3>1. CASE HasTicks(r) /\ Latest(r).step[1] = "do"
      <4>1. s = <<"undoChildren", Len(ticks[r])>>
        BY <2>6, <2>7, <3>1 DEF Straight, OnList
      <4>2. Len(ticks[r]) \in Nat /\ \A i \in Originals(r) : i <= Len(ticks[r])
        BY <1>1, TickTypes DEF Originals
      <4> QED
        BY <1>1, <4>1, <4>2, ListStarts
    <3>2. CASE ~(HasTicks(r) /\ Latest(r).step[1] = "do")
      <4>1. PICK q : /\ q = Reached(r) /\ OnList(r) /\ ~IsLastSubStep(r, q)
                     /\ s = SubStepAfter(r, q)
        BY <2>6, <2>7, <3>2 DEF Straight
      <4>2. q \in SubStep /\ q[2] \in Originals(r)
        BY <1>1, <4>1, ReachedOnList
      <4>3. \A u \in ToUndo(r) : NotAfter(u, q) => Done(r, u)
        BY <1>1, <4>1, ReachedOnList DEF CoveredUpToLatest, Covered
      <4> QED
        BY <1>1, <4>1, <4>2, <4>3, ListGoesOn
    <3> QED
      BY <3>1, <3>2
  <2> QED
    BY <2>3, <2>5, <2>8, <2>9, <2>10, <2>11 DEF Covered
<1> QED
  BY <1>1, <1>2, <1>3, TickWritten

LEMMA PlansStraight ==
    ASSUME TypeOK, Ranged, NEW r \in Run, ~NotFound(r)
    PROVE  Straight(r, PlanFor(r))
<1> SUFFICES ASSUME PlanFor(r).back
             PROVE  Straight(r, PlanFor(r))
  BY DEF Straight
<1> DEFINE pt == RollbackPoint(r)
<1>1. RollingBack(r) /\ pt.iter \in Nat
  BY RollbackPointOK DEF PlanFor, PointOK
<1>2. /\ PlanFor(r).mode # "handle" =>
            /\ PlanFor(r).mode = "rollback" /\ PlanFor(r).step = pt.next
            /\ PlanFor(r).iter = pt.iter
      /\ PlanFor(r).iter = Normal => PlanFor(r).mode # "handle"
      /\ PlanFor(r).last = pt.last
  BY <1>1 DEF PlanFor, Normal
<1>3. CASE ~HasTicks(r)
  BY <1>2, <1>3 DEF RollbackPoint, Straight
<1>4. CASE HasTicks(r) /\ Latest(r).step[1] = "do"
  BY <1>2, <1>4 DEF RollbackPoint, Straight
<1>5. CASE HasTicks(r) /\ Latest(r).step[1] # "do"
  <2>1. Latest(r).step # Sentinel
    BY <1>1, <1>5 DEF NotFound
  <2>2. pt.iter = Latest(r).iter
    BY <1>5 DEF RollbackPoint
  <2>3. PlanFor(r).iter = Normal => OnList(r)
    BY <1>2, <1>5, <2>1, <2>2 DEF OnList
  <2>4. Latest(r).iter # Normal => Handled(r)
    BY <1>5, TickTypes DEF Handled, Latest
  <2> QED
    BY <1>2, <1>5, <2>2, <2>3, <2>4 DEF RollbackPoint, Straight, Reached
<1> QED
  BY <1>3, <1>4, <1>5

LEMMA StraightKept ==
    ASSUME NEW r, NEW p, ticks'[r] = ticks[r], Straight(r, p)
    PROVE  Straight(r, p)'
<1>1. /\ HasTicks(r)' = HasTicks(r) /\ Latest(r)' = Latest(r) /\ OnList(r)' = OnList(r)
      /\ Originals(r)' = Originals(r) /\ Handled(r)' = Handled(r)
  BY DEF HasTicks, Latest, OnList, Originals, Handled
<1>2. PICK s : s = Reached(r)
  OBVIOUS
<1>3. NewestBelow(r, s[2])' = NewestBelow(r, s[2])
  BY <1>1 DEF NewestBelow
<1>4. /\ SubStepAfter(r, s)' = SubStepAfter(r, s)
      /\ IsLastSubStep(r, s)' = IsLastSubStep(r, s)
  BY <1>1, <1>3 DEF SubStepAfter, IsLastSubStep, HasOlder
<1>5. Reached(r)' = s
  BY <1>1, <1>2 DEF Reached, Found, Namesakes
<1> QED
  BY <1>1, <1>2, <1>4, <1>5 DEF Straight

LEMMA StraightStep ==
    ASSUME CompensationInv, RunnersStraight, [Next]_vars
    PROVE  RunnersStraight'
<1>1. TypeOK /\ Locking /\ Ranged
  BY DEF CompensationInv
<1> SUFFICES ASSUME NEW w \in Worker, pc'[w] = "running"
             PROVE  Straight(pick[w], plan[w])'
  BY DEF RunnersStraight
<1>2. CASE Claim(w) /\ pc[w] = "selected"
  <2>1. PICK r, p : /\ r \in Run /\ r = pick[w] /\ pick'[w] = r /\ ~NotFound(r)
                    /\ p = PlanFor(r) /\ plan'[w] = p /\ UNCHANGED ticks
    BY <1>1, <1>2, Claimed DEF log
  <2>2. Straight(r, p)
    BY <1>1, <2>1, PlansStraight
  <2>3. Straight(r, p)'
    BY <2>1, <2>2, StraightKept
  <2> QED
    BY <2>1, <2>3
<1>3. CASE pc[w] = "running" /\ Stays(w) /\ ticks'[pick[w]] = ticks[pick[w]]
  <2>1. PICK r, p : /\ r \in Run /\ r = pick[w] /\ pick'[w] = r /\ p = plan[w] /\ plan'[w] = p
                    /\ ticks'[r] = ticks[r]
    BY <1>1, <1>3 DEF Stays, TypeOK
  <2>2. Straight(r, p)
    BY <1>3, <2>1 DEF RunnersStraight
  <2>3. Straight(r, p)'
    BY <2>1, <2>2, StraightKept
  <2> QED
    BY <2>1, <2>3
<1> QED
  BY <1>1, <1>2, <1>3, StillRunning

LEMMA UndoesOwnStep ==
    ASSUME UndoneInv, UndoesOwn, [Next]_vars
    PROVE  UndoesOwn'
<1>1. TypeOK /\ RunnerInv /\ CompensationInv /\ Ranged
  BY DEF UndoneInv, OutcomeInv, RunnerInv, CompensationInv
<1>2. CASE UNCHANGED ticks
  BY <1>2 DEF UndoesOwn, EmittedBy
<1>3. ASSUME NEW w \in Worker, NEW t, Launches(w, t) \/ Requests(w, t)
      PROVE  UndoesOwn'
  <2>1. PICK r \in Run : r = pick[w] /\ AppendTick(r, t) /\ pc[w] = "running"
    BY <1>1, <1>3 DEF Launches, Requests, Closes, TypeOK
  <2>2. t.undoes \subseteq EmittedBy(r)
    <3>1. CASE Launches(w, t)
      BY <3>1 DEF Launches
    <3>2. CASE Requests(w, t)
      <4>1. plan[w].step[2] \in DOMAIN ticks[r]
        <5>1. InRange(r, plan[w].step)
          BY <1>1, <2>1 DEF Ranged
        <5>2. plan[w].step[1] = "undoChildren"
          BY <3>2 DEF Requests
        <5> QED
          BY <5>1, <5>2 DEF InRange, Sentinel, Originals
      <4> QED
        BY <1>1, <2>1, <3>2, <4>1 DEF Requests, RunnerInv, TicksOwned, TickOwned
    <3> QED
      BY <1>3, <3>1, <3>2
  <2> QED
    BY <1>1, <2>1, <2>2, AppendedTick DEF UndoesOwn, EmittedBy
<1> QED
  BY <1>1, <1>2, <1>3, TickWritten

\* All that a tick asked to roll back stays rolled back.
LEMMA AllRolledBackKept ==
    ASSUME UndoneInv, [Next]_vars, NEW r \in Run, NEW i \in DOMAIN ticks[r],
           ticks'[r][i] = ticks[r][i], AllRolledBack(r, i)
    PROVE  AllRolledBack(r, i)'
<1>1. TypeOK /\ RunnerInv
  BY DEF UndoneInv, OutcomeInv, RunnerInv, CompensationInv
<1>2. ticks[r][i].undoes \subseteq Message
  BY <1>1, TickTypes
<1>3. \A m \in ticks[r][i].undoes : \A h \in Listeners[m] : <<m, h>> \in Run
  BY <1>2 DEF Run
<1>4. \A m \in ticks[r][i].undoes : \A h \in Listeners[m] :
        marks[<<m, h>>] \subseteq marks'[<<m, h>>]
  BY <1>1, <1>3, MarksKept
<1> QED
  BY <1>4 DEF AllRolledBack

\* What the readiness query asks of a run that is to go on with its rollback.
LEMMA ReadyHasRolledBack ==
    ASSUME WholeInv, NEW r \in Run, Ready(r), ~NotFound(r), PlanFor(r).back,
           ~PlanFor(r).doomed, PlanFor(r).iter = Normal, NEW i \in DOMAIN ticks[r]
    PROVE  AllRolledBack(r, i)
<1>1. TypeOK /\ RunnerInv /\ Ranged /\ CompensatedOnceInReverse
  BY DEF WholeInv, UndoneInv, OutcomeInv, RunnerInv, CompensationInv
<1>2. /\ Len(ticks[r]) \in DOMAIN ticks[r] /\ HasTicks(r)
      /\ DOMAIN ticks[r] = 1 .. Len(ticks[r]) /\ Len(ticks[r]) \in Nat
      /\ \A m \in ticks[r][i].undoes : \A h \in Listeners[m] : <<m, h>> \in Run
  BY <1>1, TickTypes DEF HasTicks, Run
<1> SUFFICES ASSUME ticks[r][i].undoes # {}
             PROVE  AllRolledBack(r, i)
  BY DEF AllRolledBack
<1>3. ticks[r][i].step[1] # "do"
  BY <1>1 DEF RunnerInv, TicksOwned, TickOwned
<1>4. /\ PlanFor(r).mode = "rollback" /\ RollingBack(r) /\ ~GiveUpOnRollbackPath(r)
      /\ ~SeesFailedRollback(r)
  <2>1. Straight(r, PlanFor(r))
    BY <1>1, PlansStraight
  <2>2. PlanFor(r).mode = "rollback" /\ RollingBack(r)
    BY <2>1 DEF Straight, PlanFor
  <2> QED
    BY <2>2 DEF PlanFor, ChildFailed
<1>5. CASE i = Len(ticks[r])
  <2>1. LatestUndoes(r) = ticks[r][i].undoes
    BY <1>2, <1>5 DEF LatestUndoes, Latest
  <2>2. /\ ResumeRollbackPath(r) /\ Candidate(r)
        /\ \A c \in ChildRollingBacks(r) : RollbackOver(c)
    BY <1>4, <2>1 DEF Ready
  <2>3. r \in Candidates(r[2])
    BY <2>2 DEF Candidates, RunsOf
  <2>4. ASSUME NEW m \in ticks[r][i].undoes, NEW h \in Listeners[m]
        PROVE  "ROLLED_BACK" \in marks[<<m, h>>]
    <3>1. <<m, h>> \in {c \in Run : RollingBack(c)}
      BY <2>1, <2>2, <2>3, <2>4 DEF ResumeRollbackPath, AllStarted
    <3>2. Emitter[m] = r
      BY <2>4 DEF WholeInv, UndoesOwn, EmittedBy
    <3>3. <<m, h>> \in ChildRollingBacks(r)
      BY <3>1, <3>2 DEF ChildRollingBacks, ChildrenOf
    <3>4. RollbackOver(<<m, h>>) /\ "ROLLBACK_FAILED" \notin marks[<<m, h>>]
      BY <1>4, <2>2, <2>3, <3>3 DEF SeesFailedRollback
    <3> QED
      BY <3>4 DEF RollbackOver
  <2> QED
    BY <2>4 DEF AllRolledBack
<1>6. CASE i # Len(ticks[r])
  <2>1. Latest(r).step[1] # "do"
    BY <1>1, <1>2, <1>3, <1>6 DEF CompensatedOnceInReverse, Latest
  <2>2. Latest(r).iter = Normal
    <3>1. Straight(r, PlanFor(r))
      BY <1>1, PlansStraight
    <3> QED
      BY <1>2, <2>1, <3>1 DEF Straight, OnList
  <2> QED
    BY <1>2, <1>6, <2>1, <2>2 DEF WholeInv, RolledBackBefore, Latest
<1> QED
  BY <1>5, <1>6

LEMMA RolledBackBeforeStep ==
    ASSUME WholeInv, [Next]_vars
    PROVE  RolledBackBefore'
<1>1. TypeOK /\ Locking /\ UndoneInv /\ CompensationInv /\ RunnerInv
  BY DEF WholeInv, UndoneInv, OutcomeInv, RunnerInv, CompensationInv
<1>2. ASSUME NEW w \in Worker, pc'[w] = "running", plan'[w].back, ~plan'[w].doomed,
             plan'[w].iter = Normal, NEW i \in DOMAIN ticks'[pick'[w]]
      PROVE  AllRolledBack(pick[w], i)'
  <2>1. CASE Claim(w) /\ pc[w] = "selected"
    <3>1. PICK r \in Run : /\ r = pick[w] /\ pick'[w] = r /\ Ready(r)
                           /\ ~NotFound(r) /\ plan'[w] = PlanFor(r)
                           /\ UNCHANGED <<ticks, marks>>
      BY <1>1, <2>1, <1>2, Claimed DEF log
    <3>2. AllRolledBack(r, i)
      BY <1>2, <3>1, ReadyHasRolledBack
    <3> QED
      BY <3>1, <3>2 DEF AllRolledBack
  <2>2. CASE pc[w] = "running" /\ Stays(w) /\ ticks'[pick[w]] = ticks[pick[w]]
    <3>1. PICK r, p : /\ r \in Run /\ r = pick[w] /\ pick'[w] = r /\ p = plan[w] /\ plan'[w] = p
                      /\ ticks'[r] = ticks[r]
      BY <1>1, <2>2 DEF Stays, TypeOK
    <3>2. AllRolledBack(r, i)
      BY <1>2, <2>2, <3>1 DEF WholeInv, RolledBackBefore
    <3> QED
      BY <1>1, <1>2, <3>1, <3>2, AllRolledBackKept
  <2> QED
    BY <1>1, <1>2, <2>1, <2>2, StillRunning
<1>3. ASSUME NEW r \in Run, NEW i \in DOMAIN ticks'[r], NEW j \in DOMAIN ticks'[r],
             i < j, ticks'[r][j].step[1] # "do", ticks'[r][j].iter = Normal
      PROVE  AllRolledBack(r, i)'
  <2>1. CASE i \in DOMAIN ticks[r] /\ j \in DOMAIN ticks[r]
             /\ ticks'[r][i] = ticks[r][i] /\ ticks'[r][j] = ticks[r][j]
    <3>1. AllRolledBack(r, i)
      BY <1>3, <2>1 DEF WholeInv, RolledBackBefore
    <3> QED
      BY <1>1, <2>1, <3>1, AllRolledBackKept
  <2>2. ASSUME NEW w \in Worker, NEW t, Launches(w, t) \/ Requests(w, t),
               ~(i \in DOMAIN ticks[r] /\ j \in DOMAIN ticks[r]
                 /\ ticks'[r][i] = ticks[r][i] /\ ticks'[r][j] = ticks[r][j])
        PROVE  AllRolledBack(r, i)'
    <3>1. /\ pick[w] \in Run /\ Closes(w, t) /\ AppendTick(pick[w], t)
          /\ pc[w] = "running" /\ ~plan[w].doomed
          /\ t.step = plan[w].step /\ t.iter = plan[w].iter
      BY <1>1, <2>2 DEF Launches, Requests, Closes, TypeOK
    <3>2. PICK n : n = Len(ticks[r]) + 1
      OBVIOUS
    <3>3. r = pick[w]
      BY <1>1, <1>3, <2>2, <3>1, AppendedTick
    <3>4. /\ DOMAIN ticks'[r] = DOMAIN ticks[r] \cup {n}
          /\ ticks'[r][n] = t
          /\ \A k \in DOMAIN ticks[r] : ticks'[r][k] = ticks[r][k]
      BY <1>1, <3>1, <3>2, <3>3, AppendedTick
    <3>5. DOMAIN ticks[r] = 1 .. Len(ticks[r]) /\ Len(ticks[r]) \in Nat
      BY <1>1, TickTypes
    <3>6. /\ j = n /\ i \in DOMAIN ticks[r] /\ ticks'[r][i] = ticks[r][i]
          /\ t.step[1] # "do" /\ t.iter = Normal
      BY <1>3, <2>2, <3>2, <3>4, <3>5
    <3>7. plan[w].back
      BY <1>1, <3>1, <3>6 DEF RunnerInv, RunnersFit, Fits
    <3>8. AllRolledBack(r, i)
      BY <3>1, <3>3, <3>6, <3>7 DEF WholeInv, RolledBackBefore
    <3> QED
      BY <1>1, <3>6, <3>8, AllRolledBackKept
  <2> QED
    BY <1>1, <1>3, <2>1, <2>2, TickWritten
<1> QED
  BY <1>2, <1>3 DEF RolledBackBefore

\* A run that is to end its rollback has executed the whole list.
LEMMA EndsWhole ==
    ASSUME WholeInv, NEW w \in Worker, pc[w] = "running", plan[w].back, ~plan[w].doomed,
           plan[w].last, plan[w].iter = Normal
    PROVE  WholeTree(pick[w])
<1>1. TypeOK /\ RunnerInv /\ Ranged
  BY DEF WholeInv, UndoneInv, OutcomeInv, RunnerInv, CompensationInv
<1>2. PICK r, p : r \in Run /\ r = pick[w] /\ p = plan[w] /\ Straight(r, p)
  BY <1>1 DEF TypeOK, WholeInv, RunnersStraight
<1>3. CASE ~HasTicks(r)
  <2>1. Originals(r) = {}
    BY <1>3 DEF HasTicks, Originals
  <2> QED
    BY <1>2, <2>1 DEF WholeTree
<1>4. CASE HasTicks(r)
  <2>1. PICK s : s = Reached(r) /\ OnList(r) /\ IsLastSubStep(r, s)
    BY <1>2, <1>4 DEF Straight
  <2>2. /\ s \in SubStep
        /\ \A u \in ToUndo(r) : NotAfter(u, s) => NotAfter(u, Latest(r).step)
    BY <1>1, <1>2, <2>1, ReachedOnList
  <2>3. \A u \in ToUndo(r) : Done(r, u)
    BY <1>1, <1>2, <2>1, <2>2, ListEnds DEF WholeInv, CoveredUpToLatest, Covered
  <2>4. ASSUME NEW i \in Originals(r)
        PROVE  /\ ticks[r][i].iter = Normal => Done(r, <<"undoSelf", i>>)
               /\ \A m \in ticks[r][i].emits : \A h \in Listeners[m] :
                    "ROLLED_BACK" \in marks[<<m, h>>]
    <3>1. ticks[r][i].iter = Normal => <<"undoSelf", i>> \in ToUndo(r)
      BY <2>4 DEF ToUndo
    <3>2. PICK u \in ToUndo(r) : u = <<"undoChildren", i>>
      BY <2>4 DEF ToUndo
    <3>3. PICK j \in DOMAIN ticks[r] : ticks[r][j].undoes = ticks[r][i].emits
      BY <2>3, <3>2 DEF Done
    <3>4. AllRolledBack(r, j)
      BY <1>2 DEF WholeInv, RolledBackBefore
    <3> QED
      BY <2>3, <3>1, <3>3, <3>4 DEF AllRolledBack
  <2> QED
    BY <1>2, <2>4 DEF WholeTree
<1> QED
  BY <1>3, <1>4

LEMMA WholeTreeKept ==
    ASSUME WholeInv, [Next]_vars, NEW r \in Run, WholeTree(r), ticks'[r] = ticks[r]
    PROVE  WholeTree(r)'
<1>1. TypeOK /\ RunnerInv
  BY DEF WholeInv, UndoneInv, OutcomeInv, RunnerInv, CompensationInv
<1>2. Originals(r)' = Originals(r)
  BY DEF Originals
<1>3. \A s : Done(r, s) => Done(r, s)'
  BY DEF Done
<1>4. \A i \in Originals(r) : i \in DOMAIN ticks[r] /\ ticks[r][i].emits \subseteq Message
  BY <1>1, TickTypes DEF Originals
<1>5. \A i \in Originals(r) : \A m \in ticks[r][i].emits : \A h \in Listeners[m] :
        <<m, h>> \in Run
  BY <1>4 DEF Run
<1>6. \A q \in Run : "ROLLED_BACK" \in marks[q] => "ROLLED_BACK" \in marks'[q]
  BY <1>1, MarksKept
<1> QED
  BY <1>2, <1>3, <1>5, <1>6 DEF WholeTree

\* A run whose rollback is over is not executed, so it writes no more ticks.
LEMMA OverWritesNoTick ==
    ASSUME RunnerInv, [Next]_vars, NEW r \in Run, RollbackOver(r)
    PROVE  ticks'[r] = ticks[r]
<1>1. TypeOK
  BY DEF RunnerInv, CompensationInv
<1>2. ASSUME NEW w \in Worker, NEW t, Closes(w, t)
      PROVE  ticks'[r] = ticks[r]
  <2>1. pick[w] \in Run /\ AppendTick(pick[w], t) /\ pc[w] = "running"
    BY <1>1, <1>2 DEF Closes, TypeOK
  <2>2. pick[w] # r
    BY <2>1 DEF RunnerInv, RunnersFit, Fits
  <2> QED
    BY <1>1, <2>1, <2>2, AppendedTick
<1> QED
  BY <1>1, <1>2, TicksStep

LEMMA UnhandledIsWholeStep ==
    ASSUME WholeInv, [Next]_vars
    PROVE  UnhandledIsWhole'
<1>1. TypeOK /\ UndosRequested /\ RunnerInv /\ CompensationInv
  BY DEF WholeInv, UndoneInv, OutcomeInv, RunnerInv, CompensationInv, Locking
<1> SUFFICES ASSUME NEW r \in Run, "ROLLED_BACK" \in marks'[r], ~Handled(r)'
             PROVE  WholeTree(r)'
  BY DEF UnhandledIsWhole
<1>2. ~Handled(r)
  BY <1>1, OriginalsKept DEF Handled
<1>3. CASE "ROLLED_BACK" \in marks[r]
  <2>1. ticks'[r] = ticks[r]
    BY <1>1, <1>3, OverWritesNoTick DEF RollbackOver
  <2>2. WholeTree(r)
    BY <1>2, <1>3 DEF WholeInv, UnhandledIsWhole
  <2> QED
    BY <2>1, <2>2, WholeTreeKept
<1>4. CASE "ROLLED_BACK" \notin marks[r]
  <2>1. PICK w \in Worker : /\ pc[w] = "running" /\ pick[w] = r
                            /\ Ends(w, "ROLLED_BACK")
    BY <1>1, <1>4, MarkWritten DEF Breaks
  <2>2. plan[w].back /\ ~plan[w].doomed /\ plan[w].last /\ plan[w].mode # "handle"
    BY <2>1 DEF Ends
  <2>3. UNCHANGED ticks
    BY <1>1, <1>4, TickWritten DEF Launches, Requests
  <2>4. plan[w].iter = Normal
    BY <1>2, <2>1, <2>2 DEF WholeInv, RunnersStraight, Straight
  <2> QED
    BY <2>1, <2>2, <2>3, <2>4, EndsWhole, WholeTreeKept
<1> QED
  BY <1>3, <1>4

LEMMA WholeInductive == WholeInv /\ [Next]_vars => WholeInv'
<1> SUFFICES ASSUME WholeInv, [Next]_vars
             PROVE  WholeInv'
  OBVIOUS
<1>1. CompensationInv
  BY DEF WholeInv, UndoneInv, OutcomeInv, RunnerInv
<1>2. UndoneInv' /\ UndoesOwn'
  BY UndoneInductive, UndoesOwnStep DEF WholeInv
<1>3. CoveredUpToLatest' /\ RunnersStraight'
  BY <1>1, CoveredStep, StraightStep DEF WholeInv
<1>4. RolledBackBefore' /\ UnhandledIsWhole'
  BY RolledBackBeforeStep, UnhandledIsWholeStep
<1> QED
  BY <1>2, <1>3, <1>4 DEF WholeInv

LEMMA WholeInitially == Init => WholeInv
<1> SUFFICES ASSUME Init
             PROVE  WholeInv
  OBVIOUS
<1>1. UndoesOwn /\ CoveredUpToLatest /\ RunnersStraight /\ RolledBackBefore /\ UnhandledIsWhole
  BY DEF Init, LogInit, UndoesOwn, CoveredUpToLatest, OnList, HasTicks, RunnersStraight,
         RolledBackBefore, UnhandledIsWhole
<1> QED
  BY <1>1, UndoneInitially DEF WholeInv

\* A run that ends in ROLLED_BACK without its handleChildFailures having run on
\* the way has undone every user step it ever completed and has seen every
\* handler of everything it ever launched roll back, started or not when it
\* asked: whatever crashed, raced or was requested meanwhile
\* (RollbackPathContinuation.ts, buildRollbackSteps; PendingCoroutineRunSql.ts,
\* resumeRollbackPath).
THEOREM UnhandledRollbackIsWhole == Spec => []UnhandledIsWhole
<1>1. WholeInv => UnhandledIsWhole
  BY DEF WholeInv
<1> QED
  BY <1>1, WholeInitially, WholeInductive, PTL DEF Spec

-----------------------------------------------------------------------------
\* A failed rollback is reported to the run whose child failed.

OwnFailed(r) == \E c \in ChildRollingBacks(r) : "ROLLBACK_FAILED" \in marks[c]

FailuresAreOwn == \A r \in Run : SeesFailedRollback(r) => OwnFailed(r)

\* A run that handles failures on its way back has a child whose rollback failed...
RunnersHandle ==
    \A w \in Worker : pc[w] = "running" /\ plan[w].back =>
        /\ plan[w].iter # Normal => OwnFailed(pick[w])
        /\ plan[w].mode # "handle" => ~Handled(pick[w])

\* ...and for as long as it has, nothing but handling them: it never ends well.
\* The inductive invariant.
OwnInv ==
    /\ WholeInv
    /\ \A r \in Run : Handled(r) => OwnFailed(r)
    /\ RunnersHandle
    /\ \A r \in Run : "ROLLED_BACK" \in marks[r] => ~Handled(r)

LEMMA OwnFailedKept ==
    ASSUME TypeOK, [Next]_vars, NEW r \in Run, OwnFailed(r)
    PROVE  OwnFailed(r)'
<1>1. PICK c \in ChildRollingBacks(r) : "ROLLBACK_FAILED" \in marks[c]
  BY DEF OwnFailed
<1>2. c \in ChildrenOf(r) /\ c \in Run /\ RollingBack(c)
  BY <1>1 DEF ChildRollingBacks, ChildrenOf
<1>3. marks[c] \subseteq marks'[c]
  BY <1>2, MarksKept
<1> QED
  BY <1>1, <1>2, <1>3 DEF OwnFailed, ChildRollingBacks, RollingBack, ChildrenOf

LEMMA OwnIsSeen ==
    ASSUME NEW r \in Run, Candidate(r), OwnFailed(r)
    PROVE  SeesFailedRollback(r)
<1>1. r \in Candidates(r[2])
  BY DEF Candidates, RunsOf
<1> QED
  BY <1>1 DEF SeesFailedRollback, OwnFailed

LEMMA RunnersHandleStep ==
    ASSUME OwnInv, FailuresAreOwn, [Next]_vars
    PROVE  RunnersHandle'
<1>1. TypeOK /\ Locking /\ CompensationInv /\ Ranged
  BY DEF OwnInv, WholeInv, UndoneInv, OutcomeInv, RunnerInv, CompensationInv
<1> SUFFICES ASSUME NEW w \in Worker, pc'[w] = "running", plan'[w].back
             PROVE  /\ plan'[w].iter # Normal => OwnFailed(pick[w])'
                    /\ plan'[w].mode # "handle" => ~Handled(pick[w])'
  BY DEF RunnersHandle
<1>2. CASE Claim(w) /\ pc[w] = "selected"
  <2>1. PICK r, p : /\ r \in Run /\ r = pick[w] /\ pick'[w] = r /\ ~NotFound(r) /\ Candidate(r)
                    /\ p = PlanFor(r) /\ plan'[w] = p /\ UNCHANGED <<ticks, marks>>
    BY <1>1, <1>2, Claimed DEF log
  <2>2. p.mode = "handle" => OwnFailed(r)
    BY <2>1 DEF PlanFor, ChildFailed, FailuresAreOwn
  <2>3. p.mode # "handle" => ~Handled(r)
    <3>1. p.mode # "handle" => ~SeesFailedRollback(r)
      BY <2>1 DEF PlanFor, ChildFailed
    <3> QED
      BY <2>1, <3>1, OwnIsSeen DEF OwnInv
  <2>4. p.mode # "handle" /\ p.iter # Normal => Handled(r)
    BY <1>1, <2>1, PlansStraight DEF Straight
  <2>5. p.iter # Normal => OwnFailed(r)
    BY <2>2, <2>3, <2>4
  <2> QED
    BY <1>1, <2>1, <2>3, <2>5, OwnFailedKept DEF Handled
<1>3. CASE pc[w] = "running" /\ Stays(w) /\ ticks'[pick[w]] = ticks[pick[w]]
  <2>1. PICK r, p : /\ r \in Run /\ r = pick[w] /\ pick'[w] = r /\ p = plan[w] /\ plan'[w] = p
                    /\ ticks'[r] = ticks[r]
    BY <1>1, <1>3 DEF Stays, TypeOK
  <2>2. /\ p.iter # Normal => OwnFailed(r)
        /\ p.mode # "handle" => ~Handled(r)
    BY <1>3, <2>1 DEF OwnInv, RunnersHandle
  <2> QED
    BY <1>1, <2>1, <2>2, OwnFailedKept DEF Handled
<1> QED
  BY <1>1, <1>2, <1>3, StillRunning

LEMMA HandledStep ==
    ASSUME OwnInv, [Next]_vars, NEW r \in Run, Handled(r)'
    PROVE  OwnFailed(r)'
<1>1. TypeOK /\ RunnerInv
  BY DEF OwnInv, WholeInv, UndoneInv, OutcomeInv, RunnerInv, CompensationInv
<1>2. CASE Handled(r)
  BY <1>1, <1>2, OwnFailedKept DEF OwnInv
<1>3. ASSUME NEW w \in Worker, NEW t, Closes(w, t), ~Handled(r)
      PROVE  OwnFailed(r)'
  <2>1. /\ pick[w] \in Run /\ AppendTick(pick[w], t) /\ pc[w] = "running"
        /\ t.step = plan[w].step /\ t.iter = plan[w].iter
    BY <1>1, <1>3 DEF Closes, TypeOK
  <2>2. pick[w] = r /\ t.step[1] # "do" /\ t.iter # Normal
    BY <1>1, <1>3, <2>1, AppendedTick DEF Handled
  <2>3. plan[w].back
    BY <1>1, <2>1, <2>2 DEF RunnerInv, RunnersFit, Fits
  <2>4. OwnFailed(r)
    BY <2>1, <2>2, <2>3 DEF OwnInv, RunnersHandle
  <2> QED
    BY <1>1, <2>4, OwnFailedKept
<1>4. CASE UNCHANGED ticks
  BY <1>2, <1>4 DEF Handled
<1> QED
  BY <1>1, <1>2, <1>3, <1>4, TicksStep

LEMMA RolledBackUnhandledStep ==
    ASSUME OwnInv, [Next]_vars, NEW r \in Run, "ROLLED_BACK" \in marks'[r]
    PROVE  ~Handled(r)'
<1>1. TypeOK /\ UndosRequested /\ RunnerInv
  BY DEF OwnInv, WholeInv, UndoneInv, OutcomeInv, RunnerInv, CompensationInv, Locking
<1>2. CASE "ROLLED_BACK" \in marks[r]
  <2>1. ticks'[r] = ticks[r]
    BY <1>1, <1>2, OverWritesNoTick DEF RollbackOver
  <2> QED
    BY <1>2, <2>1 DEF OwnInv, Handled
<1>3. CASE "ROLLED_BACK" \notin marks[r]
  <2>1. PICK w \in Worker : /\ pc[w] = "running" /\ pick[w] = r
                            /\ Ends(w, "ROLLED_BACK")
    BY <1>1, <1>3, MarkWritten DEF Breaks
  <2>2. plan[w].back /\ plan[w].mode # "handle"
    BY <2>1 DEF Ends
  <2>3. UNCHANGED ticks
    BY <1>1, <1>3, TickWritten DEF Launches, Requests
  <2> QED
    BY <2>1, <2>2, <2>3 DEF OwnInv, RunnersHandle, Handled
<1> QED
  BY <1>2, <1>3

LEMMA OwnInductive == OwnInv /\ FailuresAreOwn /\ [Next]_vars => OwnInv'
<1> SUFFICES ASSUME OwnInv, FailuresAreOwn, [Next]_vars
             PROVE  OwnInv'
  OBVIOUS
<1>1. WholeInv' /\ RunnersHandle'
  BY WholeInductive, RunnersHandleStep DEF OwnInv
<1> QED
  BY <1>1, HandledStep, RolledBackUnhandledStep DEF OwnInv

LEMMA OwnInitially == Init => OwnInv
<1> SUFFICES ASSUME Init
             PROVE  OwnInv
  OBVIOUS
<1>1. (\A r \in Run : ~Handled(r)) /\ RunnersHandle /\ \A r \in Run : "ROLLED_BACK" \notin marks[r]
  BY DEF Init, LogInit, Handled, RunnersHandle
<1> QED
  BY <1>1, WholeInitially DEF OwnInv

LEMMA WholeIsRolledBack ==
    ASSUME OwnInv
    PROVE  RolledBackMeansTreeRolledBack
<1> SUFFICES ASSUME NEW r \in Run, "ROLLED_BACK" \in marks[r], NEW i \in Originals(r)
             PROVE  /\ ticks[r][i].iter = Normal =>
                        \E j \in DOMAIN ticks[r] : ticks[r][j].step = <<"undoSelf", i>>
                    /\ \A c \in ChildrenOf(r) :
                        c \in seen /\ c[1] \in ticks[r][i].emits => "ROLLED_BACK" \in marks[c]
  BY DEF RolledBackMeansTreeRolledBack
<1>1. WholeTree(r)
  BY DEF OwnInv, WholeInv, UnhandledIsWhole
<1>2. \A c \in ChildrenOf(r) : c = <<c[1], c[2]>> /\ c[2] \in Listeners[c[1]]
  BY DEF ChildrenOf, Run
<1> QED
  BY <1>1, <1>2 DEF WholeTree, Done

\* Where no run is told of the failed rollback of another run's child, a run that
\* rolled back took everything with it: each of its user steps is undone, each
\* handler that started below them is rolled back.  The hypothesis is what the
\* subquery of child_rollback_failed_exceptions does not see to: it ranges over
\* the candidates of the coroutine (PendingCoroutineRunSql.ts, finalSelect).
THEOREM RolledBackWithItsTree ==
    Spec /\ []FailuresAreOwn => []RolledBackMeansTreeRolledBack
<1>1. OwnInv => RolledBackMeansTreeRolledBack
  BY WholeIsRolledBack
<1> QED
  BY <1>1, OwnInitially, OwnInductive, PTL DEF Spec

\* In particular where no two runs of a coroutine are about at the same time.
COROLLARY RolledBackWithItsTreeAlone ==
    ASSUME \A r, q \in Run : r[2] = q[2] => r = q
    PROVE  Spec => []RolledBackMeansTreeRolledBack
<1>1. FailuresAreOwn
  BY DEF FailuresAreOwn, SeesFailedRollback, OwnFailed, Candidates, RunsOf
<1> QED
  BY <1>1, RolledBackWithItsTree, PTL
=============================================================================
