------------------------ MODULE FanOutDispatch_proofs ------------------------
(***************************************************************************)
(* Machine-checked proofs about FanOutDispatch, for every number of        *)
(* signals, dispatchers, attempts and faults.                              *)
(***************************************************************************)
EXTENDS FanOutDispatch, TLAPS

(***************************************************************************)
(* What ties the claim columns, the child runs and the dispatchers.        *)
(***************************************************************************)
\* Child ids are drawn in order: an id above the count is still fresh
FreshAbove ==
    \A c \in Children : c[2] > claims[c[1]] => run[c] = "none"

\* The parent's cancel is only ever under way on a deleted barrier
CancelOfGone == cancelling => barrier = "GONE"

\* While the barrier waits, a child that exists is the one its signal names, and the
\* signal is pending until that child reports or is cancelled
ClaimHolds ==
    barrier = "PENDING" =>
        \A c \in Children :
            /\ run[c] \notin {"none", "deleted"} => refId[c[1]] = c[2]
            /\ run[c] \in {"created", "queued", "running"} => signal[c[1]] = "PENDING"

\* A claim a dispatcher has yet to enqueue is its own, and has no job
TodoIsUnstarted ==
    \A d \in Dispatchers : \A c \in todo[d] :
        /\ run[c] \in {"created", "canceled"}
        /\ \A e \in Dispatchers : c \in todo[e] => e = d

(***************************************************************************)
(* Type correctness.                                                       *)
(***************************************************************************)
\* A freshly created barrier has every variable in its type.
LEMMA InitTypeOK == Init => TypeOK
<1> SUFFICES ASSUME Init PROVE TypeOK
  OBVIOUS
<1>1. /\ signal \in [Signals -> SignalStatus]
      /\ refId \in [Signals -> 0..MaxClaims]
      /\ claims \in [Signals -> 0..MaxClaims]
      /\ run \in [Children -> RunState]
  BY FanOutAssumption DEF Init, SignalStatus, RunState
<1>2. /\ pc \in [Dispatchers -> DispatchPC]
      /\ cursor \in [Dispatchers -> 0..NSignals]
      /\ todo \in [Dispatchers -> SUBSET Children]
      /\ late \in [Dispatchers -> SUBSET Children]
      /\ swept \in [Dispatchers -> Nat]
      /\ verdict \in [Dispatchers -> {"ok", "closed", "failed"}]
  BY FanOutAssumption DEF Init, DispatchPC, START_OF_BARRIER
<1>3. /\ source \in BOOLEAN /\ evaluation \in BOOLEAN
      /\ releasing \in BOOLEAN /\ cancelling \in BOOLEAN /\ deserted \in BOOLEAN
  BY DEF Init
<1>4. /\ holder \in SUBSET Dispatchers /\ attempts \in Nat /\ stalls \in Nat
      /\ faults \in 0..FaultBudget /\ reporting \in Nat
  BY FanOutAssumption DEF Init
<1> QED
  BY <1>1, <1>2, <1>3, <1>4 DEF Init, TypeOK

\* What a cancel leaves of a run is one of its states.
LEMMA AfterCancelType == \A state \in RunState : AfterCancel(state) \subseteq RunState
BY DEF AfterCancel, RunState

\* Receiving a child's outcome stores a status in its signal and leaves an evaluation to ask.
LEMMA ReceiveSignalType ==
    ASSUME TypeOK, NEW c \in Children, ReceiveSignal(c)
    PROVE  signal' \in [Signals -> SignalStatus] /\ reporting' \in Nat
<1>1. CASE refId[c[1]] = c[2] /\ signal[c[1]] # "DELETED"
  BY <1>1 DEF ReceiveSignal, TypeOK, SignalStatus
<1>2. CASE ~(refId[c[1]] = c[2] /\ signal[c[1]] # "DELETED")
  BY <1>2 DEF ReceiveSignal, TypeOK
<1> QED
  BY <1>1, <1>2

\* Every handler, fault and clock step keeps every variable in its type.
LEMMA NextTypeOK == ASSUME TypeOK, [Next]_vars PROVE TypeOK'
<1> USE FanOutAssumption
    DEF TypeOK, rows, requests, local, jobVars, Goto, Leave, Requeue, Handled, DispatchPC,
        RunState, SignalStatus, START_OF_BARRIER, SpendFault, SweepUnclaimed, DeleteSignals,
        reports
<1>1. ASSUME PutSource PROVE TypeOK'
  BY <1>1 DEF PutSource
<1>2. ASSUME AddFanOutDispatch PROVE TypeOK'
  BY <1>2 DEF AddFanOutDispatch
<1>3. ASSUME CreateEnqueuesEvaluation PROVE TypeOK'
  BY <1>3 DEF CreateEnqueuesEvaluation
<1>4. ASSUME GiveUpDeletesSource PROVE TypeOK'
  <2>1. source' \in BOOLEAN /\ giveUpJob' = "settle"
    BY <1>4 DEF GiveUpDeletesSource
  <2>2. /\ UNCHANGED <<barrier, signal, refId, claims, run, job, holder, attempts, stalls>>
        /\ UNCHANGED <<evaluation, creator, releasing, cancelling, faults>>
        /\ UNCHANGED <<pc, cursor, todo, late, swept, verdict, reporting, deserted>>
    BY <1>4 DEF GiveUpDeletesSource
  <2> QED
    BY <2>1, <2>2
<1>5. ASSUME GiveUpSettles PROVE TypeOK'
  BY <1>5 DEF GiveUpSettles
<1>6. ASSUME RepeatCreate PROVE TypeOK'
  BY <1>6 DEF RepeatCreate
<1>7. ASSUME SourceExpires PROVE TypeOK'
  <2>1. source' \in BOOLEAN
    BY <1>7 DEF SourceExpires
  <2>2. /\ UNCHANGED <<barrier, signal, refId, claims, run, job, holder, attempts, stalls>>
        /\ UNCHANGED <<giveUpJob, evaluation, creator, releasing, cancelling, faults>>
        /\ UNCHANGED <<pc, cursor, todo, late, swept, verdict, reporting, deserted>>
    BY <1>7 DEF SourceExpires
  <2> QED
    BY <2>1, <2>2
<1>8. ASSUME Evaluate PROVE TypeOK'
  <2>1. /\ barrier' \in {"PENDING", "COMPLETED", "GONE"}
        /\ releasing' \in BOOLEAN /\ evaluation' \in BOOLEAN
        /\ signal' \in [Signals -> SignalStatus]
    BY <1>8 DEF Evaluate
  <2>2. /\ UNCHANGED <<refId, claims, run, job, holder, attempts, stalls, source>>
        /\ UNCHANGED <<giveUpJob, creator, cancelling, faults>>
        /\ UNCHANGED <<pc, cursor, todo, late, swept, verdict, reporting, deserted>>
    BY <1>8 DEF Evaluate
  <2> QED
    BY <2>1, <2>2
<1>9. ASSUME DeadlineRelease PROVE TypeOK'
  BY <1>9 DEF DeadlineRelease
<1>10. ASSUME ReleaseDeletesSource PROVE TypeOK'
  <2>1. source' \in BOOLEAN /\ releasing' \in BOOLEAN
    BY <1>10 DEF ReleaseDeletesSource
  <2>2. /\ UNCHANGED <<barrier, signal, refId, claims, run, job, holder, attempts, stalls>>
        /\ UNCHANGED <<giveUpJob, evaluation, creator, cancelling, faults>>
        /\ UNCHANGED <<pc, cursor, todo, late, swept, verdict, reporting, deserted>>
    BY <1>10 DEF ReleaseDeletesSource
  <2> QED
    BY <2>1, <2>2
<1>11. ASSUME CancelParent PROVE TypeOK'
  <2>1. /\ barrier' \in {"PENDING", "COMPLETED", "GONE"}
        /\ cancelling' \in BOOLEAN /\ source' \in BOOLEAN
        /\ signal' \in [Signals -> SignalStatus]
    BY <1>11 DEF CancelParent
  <2>2. /\ UNCHANGED <<refId, claims, run, job, holder, attempts, stalls>>
        /\ UNCHANGED <<giveUpJob, evaluation, creator, releasing, faults>>
        /\ UNCHANGED <<pc, cursor, todo, late, swept, verdict, reporting, deserted>>
    BY <1>11 DEF CancelParent
  <2> QED
    BY <2>1, <2>2
<1>12. ASSUME CancelChildren PROVE TypeOK'
  <2>1. run' \in [Children -> RunState]
    BY <1>12, AfterCancelType DEF CancelChildren
  <2>2. cancelling' \in BOOLEAN
    BY <1>12 DEF CancelChildren
  <2>3. /\ UNCHANGED <<barrier, signal, refId, claims, source, job, holder, attempts, stalls>>
        /\ UNCHANGED <<giveUpJob, evaluation, creator, releasing, faults>>
        /\ UNCHANGED <<pc, cursor, todo, late, swept, verdict, reporting, deserted>>
    BY <1>12 DEF CancelChildren
  <2> QED
    BY <2>1, <2>2, <2>3
<1>13. ASSUME NEW d \in Dispatchers, TakeDispatch(d) PROVE TypeOK'
  BY <1>13 DEF TakeDispatch
<1>14. ASSUME NEW d \in Dispatchers, CheckBarrier(d) PROVE TypeOK'
  BY <1>14 DEF CheckBarrier
<1>15. ASSUME NEW d \in Dispatchers, LoadSource(d) PROVE TypeOK'
  BY <1>15 DEF LoadSource
<1>16. ASSUME NEW d \in Dispatchers, ProbeUnclaimed(d) PROVE TypeOK'
  BY <1>16 DEF ProbeUnclaimed
<1>17. ASSUME NEW d \in Dispatchers, CreditsExhausted(d) PROVE TypeOK'
  BY <1>17 DEF CreditsExhausted
<1>18. ASSUME NEW d \in Dispatchers, ClaimChunk(d) PROVE TypeOK'
  <2>1. PICK last \in Signals :
          LET chunk == Chunk(cursor[d])
              child(s) == <<s, claims[s] + 1>>
          IN /\ \A s \in chunk : claims[s] < MaxClaims
             /\ refId' = [s \in Signals |-> IF s \in chunk THEN claims[s] + 1 ELSE refId[s]]
             /\ claims' = [s \in Signals |-> IF s \in chunk THEN claims[s] + 1 ELSE claims[s]]
             /\ run' = [c \in Children |-> IF c[1] \in chunk /\ c = child(c[1])
                                           THEN "created" ELSE run[c]]
             /\ todo' = [todo EXCEPT ![d] = {child(s) : s \in chunk}]
             /\ cursor' = [cursor EXCEPT ![d] = last]
             /\ pc' = [pc EXCEPT ![d] = "enqueue"]
    BY <1>18 DEF ClaimChunk
  <2> DEFINE chunk == Chunk(cursor[d])
  <2>2. \A s \in chunk : s \in Signals /\ claims[s] + 1 \in 1..MaxClaims
    BY <2>1 DEF Chunk
  <2>3. refId' \in [Signals -> 0..MaxClaims] /\ claims' \in [Signals -> 0..MaxClaims]
    BY <2>1, <2>2
  <2>4. {<<s, claims[s] + 1>> : s \in chunk} \subseteq Children
    BY <2>2 DEF Children
  <2>5. todo' \in [Dispatchers -> SUBSET Children]
    BY <2>1, <2>4
  <2>6. run' \in [Children -> RunState]
    BY <2>1
  <2>7. cursor' \in [Dispatchers -> 0..NSignals] /\ pc' \in [Dispatchers -> DispatchPC]
    BY <2>1 DEF Signals
  <2> QED
    BY <1>18, <2>3, <2>5, <2>6, <2>7 DEF ClaimChunk
<1>19. ASSUME NEW d \in Dispatchers, ClaimNothing(d) PROVE TypeOK'
  BY <1>19 DEF ClaimNothing
<1>20. ASSUME NEW d \in Dispatchers, ClaimClosed(d) PROVE TypeOK'
  BY <1>20 DEF ClaimClosed
<1>21. ASSUME NEW d \in Dispatchers, FinishChunk(d) PROVE TypeOK'
  BY <1>21 DEF FinishChunk
<1>22. ASSUME NEW d \in Dispatchers, SettleUnclaimedSignals(d) PROVE TypeOK'
  BY <1>22 DEF SettleUnclaimedSignals
<1>23. ASSUME NEW d \in Dispatchers, EvaluateAndReturn(d) PROVE TypeOK'
  BY <1>23 DEF EvaluateAndReturn
<1>24. ASSUME NEW d \in Dispatchers, CompleteJob(d) PROVE TypeOK'
  BY <1>24 DEF CompleteJob
<1>25. ASSUME NEW d \in Dispatchers, FailJob(d) PROVE TypeOK'
  BY <1>25 DEF FailJob
<1>26. ASSUME NEW d \in Dispatchers, AddGiveUp(d) PROVE TypeOK'
  BY <1>26 DEF AddGiveUp
<1>27. ASSUME NEW d \in Dispatchers, Stall(d) PROVE TypeOK'
  BY <1>27 DEF Stall
<1>28. ASSUME NEW d \in Dispatchers, Crash(d) PROVE TypeOK'
  BY <1>28 DEF Crash
<1>29. ASSUME NEW d \in Dispatchers, NEW c \in Children, EnqueueChild(d, c) PROVE TypeOK'
  <2>1. run' \in [Children -> RunState]
    BY <1>29 DEF EnqueueChild
  <2> QED
    BY <1>29, <2>1 DEF EnqueueChild, Children
<1>30. ASSUME NEW d \in Dispatchers, NEW c \in Children, EnqueueFails(d, c) PROVE TypeOK'
  BY <1>30 DEF EnqueueFails, Children
<1>31. ASSUME NEW d \in Dispatchers, NEW c \in Children, CancelUnstartedChild(d, c) PROVE TypeOK'
  BY <1>31 DEF CancelUnstartedChild, Children
<1>32. ASSUME NEW d \in Dispatchers, NEW c \in Children, SettleIfGaveUp(d, c) PROVE TypeOK'
  <2>1. CASE source
    BY <1>32, <2>1 DEF SettleIfGaveUp
  <2>2. CASE ~source
    BY <1>32, <2>2 DEF SettleIfGaveUp
  <2> QED
    BY <2>1, <2>2
<1>33. ASSUME NEW d \in Dispatchers, NEW c \in Children, EnqueueTxAborts(d, c) PROVE TypeOK'
  BY <1>33 DEF EnqueueTxAborts, Children
<1>34. ASSUME NEW c \in Children, ChildStarts(c) PROVE TypeOK'
  <2>1. run' \in [Children -> RunState]
    BY <1>34 DEF ChildStarts
  <2> QED
    BY <1>34, <2>1 DEF ChildStarts
<1>35. ASSUME NEW c \in Children, ChildReports(c) PROVE TypeOK'
  <2>1. signal' \in [Signals -> SignalStatus] /\ reporting' \in Nat
    BY <1>35, ReceiveSignalType DEF ChildReports
  <2> QED
    BY <1>35, <2>1 DEF ChildReports
<1>36. ASSUME NEW c \in Children, CancelChild(c) PROVE TypeOK'
  <2>1. signal' \in [Signals -> SignalStatus] /\ reporting' \in Nat
    BY <1>36, ReceiveSignalType DEF CancelChild
  <2>2. run' \in [Children -> RunState]
    BY <1>36, AfterCancelType DEF CancelChild
  <2> QED
    BY <1>36, <2>1, <2>2 DEF CancelChild
<1>37. CASE UNCHANGED vars
  BY <1>37 DEF vars
<1>38. ASSUME GiveUpEvaluates PROVE TypeOK'
  BY <1>38 DEF GiveUpEvaluates
<1>39. ASSUME GiveUpFails PROVE TypeOK'
  BY <1>39 DEF GiveUpFails
<1>40. ASSUME ReportEvaluates \/ ReportFails PROVE TypeOK'
  <2>1. reporting - 1 \in Nat
    BY <1>40 DEF ReportEvaluates, ReportFails
  <2>2. CASE ReportEvaluates
    BY <2>1, <2>2 DEF ReportEvaluates
  <2>3. CASE ReportFails
    BY <2>1, <2>3 DEF ReportFails
  <2> QED
    BY <1>40, <2>2, <2>3
<1>41. ASSUME CreateFails PROVE TypeOK'
  BY <1>41 DEF CreateFails
<1>42. ASSUME NEW d \in Dispatchers, EvaluateLate(d) PROVE TypeOK'
  BY <1>42 DEF EvaluateLate
<1>43. ASSUME NEW d \in Dispatchers, LateSettleFails(d) PROVE TypeOK'
  <2>1. late' \in [Dispatchers -> SUBSET Children] /\ deserted' \in BOOLEAN
    BY <1>43 DEF LateSettleFails
  <2>2. swept' \in [Dispatchers -> Nat]
    BY <1>43 DEF LateSettleFails
  <2> QED
    BY <1>43, <2>1, <2>2 DEF LateSettleFails
<1>44. ASSUME NEW d \in Dispatchers, SettleFails(d) PROVE TypeOK'
  BY <1>44 DEF SettleFails
<1>45. ASSUME NEW d \in Dispatchers, AddGiveUpFails(d) PROVE TypeOK'
  BY <1>45 DEF AddGiveUpFails
<1> QED
  BY <1>1, <1>2, <1>3, <1>4, <1>5, <1>6, <1>7, <1>8, <1>9, <1>10, <1>11, <1>12,
     <1>13, <1>14, <1>15, <1>16, <1>17, <1>18, <1>19, <1>20, <1>21, <1>22, <1>23,
     <1>24, <1>25, <1>26, <1>27, <1>28, <1>29, <1>30, <1>31, <1>32, <1>33, <1>34,
     <1>35, <1>36, <1>37, <1>38, <1>39, <1>40, <1>41, <1>42, <1>43, <1>44, <1>45
  DEF Next, Creation, DispatcherStep, GiveUpStep, ChildStep, BarrierStep, Fault, Outage

\* The rows, the jobs and the dispatchers' locals stay in their types in every execution.
THEOREM TypeCorrect == Spec => []TypeOK
<1>1. Init => TypeOK
  BY InitTypeOK
<1>2. TypeOK /\ [Next]_vars => TypeOK'
  BY NextTypeOK
<1> QED
  BY <1>1, <1>2, PTL DEF Spec

(***************************************************************************)
(* The claim invariant.                                                    *)
(***************************************************************************)
Claims ==
    FreshAbove /\ CancelOfGone /\ ClaimHolds /\ TodoIsUnstarted
        /\ OneChildPerSignal /\ CancelReachesEveryChild

\* A freshly created barrier has no claim and no child, so the claim invariant holds.
LEMMA InitClaims == Init => Claims
BY FanOutAssumption
DEF Init, Claims, FreshAbove, CancelOfGone, ClaimHolds, TodoIsUnstarted, OneChildPerSignal,
    CancelReachesEveryChild, Enqueued, Live, Signals, Children

\* A step that touches neither the rows nor the barrier and hands no dispatcher a claim
LEMMA QuietStep ==
    ASSUME TypeOK, Claims, UNCHANGED <<barrier, rows, cancelling>>,
           \A d \in Dispatchers : todo'[d] \subseteq todo[d]
    PROVE  Claims'
BY DEF Claims, TypeOK, FreshAbove, CancelOfGone, ClaimHolds, TodoIsUnstarted,
       OneChildPerSignal, CancelReachesEveryChild, Enqueued, Live, rows

\* A sweep settles signals that no child claims
LEMMA SweepStep ==
    ASSUME TypeOK, Claims, SweepUnclaimed, UNCHANGED <<barrier, refId, claims, run, cancelling>>,
           \A d \in Dispatchers : todo'[d] \subseteq todo[d]
    PROVE  Claims'
BY DEF Claims, TypeOK, FreshAbove, CancelOfGone, ClaimHolds, TodoIsUnstarted, Children,
       OneChildPerSignal, CancelReachesEveryChild, Enqueued, Live, SweepUnclaimed, Unclaimed

\* A child that exists changes state: it keeps its claim, gets a job only while the barrier
\* waits, and leaves the dispatchers' claims unless it has no job.
LEMMA OneChildChanges ==
    ASSUME TypeOK, Claims, NEW c \in Children, NEW new \in RunState \ {"none"},
           run[c] \notin {"none", "deleted"},
           run' = [run EXCEPT ![c] = new],
           \A s \in Signals : s # c[1] => signal'[s] = signal[s],
           UNCHANGED <<barrier, refId, claims, cancelling>>,
           \A d \in Dispatchers : todo'[d] \subseteq todo[d],
           \A d \in Dispatchers : c \in todo'[d] => new \in {"created", "canceled"},
           Enqueued(c)' => Enqueued(c) \/ barrier = "PENDING",
           new \in {"created", "queued"} => barrier = "PENDING",
           new \in {"created", "queued", "running"} /\ barrier = "PENDING" =>
                signal'[c[1]] = "PENDING"
    PROVE  Claims'
<1>1. /\ run'[c] = new
      /\ \A e \in Children : e # c => run'[e] = run[e]
  BY DEF TypeOK
<1>2. FreshAbove' /\ CancelOfGone'
  BY <1>1 DEF Claims, FreshAbove, CancelOfGone
<1>3. ClaimHolds'
  <2> SUFFICES ASSUME barrier = "PENDING", NEW e \in Children
               PROVE  /\ run'[e] \notin {"none", "deleted"} => refId[e[1]] = e[2]
                      /\ run'[e] \in {"created", "queued", "running"} =>
                           signal'[e[1]] = "PENDING"
    BY DEF ClaimHolds
  <2>1. CASE e = c
    BY <1>1, <2>1 DEF Claims, ClaimHolds
  <2>2. CASE e # c
    <3>1. run'[e] = run[e]
      BY <1>1, <2>2
    <3>2. run[e] \in {"created", "queued", "running"} => e[1] # c[1]
      BY <2>2 DEF Claims, ClaimHolds, Children
    <3> QED
      BY <3>1, <3>2 DEF Claims, ClaimHolds, Children
  <2> QED
    BY <2>1, <2>2
<1>4. TodoIsUnstarted'
  BY <1>1 DEF Claims, TodoIsUnstarted, TypeOK
<1>5. OneChildPerSignal'
  <2>1. CASE barrier = "PENDING"
    <3>1. \A e \in Children : Enqueued(e)' => refId[e[1]] = e[2]
      BY <1>1, <2>1 DEF Claims, ClaimHolds, Enqueued, Live
    <3> QED
      BY <3>1 DEF OneChildPerSignal, Children
  <2>2. CASE barrier # "PENDING"
    <3>1. \A e \in Children : Enqueued(e)' => Enqueued(e)
      BY <1>1, <2>2 DEF Enqueued, Live
    <3> QED
      BY <3>1 DEF Claims, OneChildPerSignal, Children
  <2> QED
    BY <2>1, <2>2
<1>6. CancelReachesEveryChild'
  BY <1>1 DEF Claims, CancelReachesEveryChild
<1> QED
  BY <1>2, <1>3, <1>4, <1>5, <1>6 DEF Claims

\* The barrier closes: what ties claims to children is no longer asked of them
LEMMA CloseStep ==
    ASSUME TypeOK, Claims, barrier = "PENDING", barrier' # "PENDING",
           barrier' = "GONE" => cancelling', cancelling' => barrier' = "GONE",
           UNCHANGED <<refId, claims, run, todo>>
    PROVE  Claims'
BY DEF Claims, FreshAbove, CancelOfGone, ClaimHolds, TodoIsUnstarted,
       OneChildPerSignal, CancelReachesEveryChild, Enqueued, Live

\* Every step keeps the claim invariant: only ClaimChunk creates children, and only
\* EnqueueChild, which needs the barrier open, gives one a job.
LEMMA NextClaims == ASSUME TypeOK, Claims, [Next]_vars PROVE Claims'
<1>1. ASSUME PutSource PROVE Claims'
  BY <1>1, QuietStep DEF PutSource, local
<1>2. ASSUME AddFanOutDispatch PROVE Claims'
  BY <1>2, QuietStep DEF AddFanOutDispatch, local
<1>3. ASSUME CreateEnqueuesEvaluation PROVE Claims'
  BY <1>3, QuietStep DEF CreateEnqueuesEvaluation, local
<1>4. ASSUME GiveUpDeletesSource PROVE Claims'
  BY <1>4, QuietStep DEF GiveUpDeletesSource, local, requests
<1>5. ASSUME RepeatCreate PROVE Claims'
  BY <1>5, QuietStep DEF RepeatCreate, local
<1>6. ASSUME SourceExpires PROVE Claims'
  BY <1>6, QuietStep DEF SourceExpires, local, requests
<1>7. ASSUME ReleaseDeletesSource PROVE Claims'
  BY <1>7, QuietStep DEF ReleaseDeletesSource, local
<1>8. ASSUME NEW d \in Dispatchers, TakeDispatch(d) PROVE Claims'
  BY <1>8, QuietStep DEF TakeDispatch, local, requests, Goto, Leave, TypeOK
<1>9. ASSUME NEW d \in Dispatchers, CheckBarrier(d) PROVE Claims'
  BY <1>9, QuietStep DEF CheckBarrier, local, requests, Goto, Leave, TypeOK
<1>10. ASSUME NEW d \in Dispatchers, LoadSource(d) PROVE Claims'
  BY <1>10, QuietStep DEF LoadSource, local, requests, Goto, Leave, TypeOK
<1>11. ASSUME NEW d \in Dispatchers, ProbeUnclaimed(d) PROVE Claims'
  BY <1>11, QuietStep DEF ProbeUnclaimed, local, requests, Goto, Leave, TypeOK
<1>12. ASSUME NEW d \in Dispatchers, CreditsExhausted(d) PROVE Claims'
  BY <1>12, QuietStep DEF CreditsExhausted, local, requests, Goto, Leave, TypeOK
<1>13. ASSUME NEW d \in Dispatchers, ClaimNothing(d) PROVE Claims'
  BY <1>13, QuietStep DEF ClaimNothing, local, requests, Goto, Leave, TypeOK
<1>14. ASSUME NEW d \in Dispatchers, ClaimClosed(d) PROVE Claims'
  BY <1>14, QuietStep DEF ClaimClosed, local, requests, Goto, Leave, TypeOK
<1>15. ASSUME NEW d \in Dispatchers, FinishChunk(d) PROVE Claims'
  BY <1>15, QuietStep DEF FinishChunk, local, requests, Goto, Leave, TypeOK
<1>16. ASSUME NEW d \in Dispatchers, EvaluateAndReturn(d) PROVE Claims'
  BY <1>16, QuietStep DEF EvaluateAndReturn, local, requests, Goto, Leave, TypeOK
<1>17. ASSUME NEW d \in Dispatchers, CompleteJob(d) PROVE Claims'
  BY <1>17, QuietStep DEF CompleteJob, local, requests, Goto, Leave, TypeOK
<1>18. ASSUME NEW d \in Dispatchers, FailJob(d) PROVE Claims'
  BY <1>18, QuietStep DEF FailJob, local, requests, Goto, Leave, TypeOK
<1>19. ASSUME NEW d \in Dispatchers, AddGiveUp(d) PROVE Claims'
  BY <1>19, QuietStep DEF AddGiveUp, local, requests, Goto, Leave, TypeOK
<1>20. ASSUME NEW d \in Dispatchers, Stall(d) PROVE Claims'
  BY <1>20, QuietStep DEF Stall, local, requests, Goto, Leave, TypeOK
<1>21. ASSUME NEW d \in Dispatchers, Crash(d) PROVE Claims'
  BY <1>21, QuietStep DEF Crash, local, requests, Goto, Leave, TypeOK
<1>22. ASSUME NEW d \in Dispatchers, NEW c \in Children, EnqueueTxAborts(d, c) PROVE Claims'
  BY <1>22, QuietStep DEF EnqueueTxAborts, local, requests, Handled, TypeOK
<1>23. ASSUME GiveUpSettles PROVE Claims'
  BY <1>23, SweepStep DEF GiveUpSettles, local, requests
<1>24. ASSUME NEW d \in Dispatchers, SettleUnclaimedSignals(d) PROVE Claims'
  BY <1>24, SweepStep DEF SettleUnclaimedSignals, requests, Goto
<1>25. ASSUME NEW d \in Dispatchers, NEW c \in Children, SettleIfGaveUp(d, c) PROVE Claims'
  <2>1. CASE source
    BY <1>25, <2>1, QuietStep DEF SettleIfGaveUp, requests, rows
  <2>2. CASE ~source
    BY <1>25, <2>2, SweepStep DEF SettleIfGaveUp, requests
  <2> QED
    BY <2>1, <2>2
<1>26. ASSUME Evaluate PROVE Claims'
  <2>1. CASE barrier = "PENDING" /\ \A s \in Signals : signal[s] # "PENDING"
    BY <1>26, <2>1, CloseStep DEF Evaluate, local, Claims, CancelOfGone
  <2>2. CASE ~(barrier = "PENDING" /\ \A s \in Signals : signal[s] # "PENDING")
    BY <1>26, <2>2, QuietStep DEF Evaluate, local, rows
  <2> QED
    BY <2>1, <2>2
<1>27. ASSUME DeadlineRelease PROVE Claims'
  BY <1>27, CloseStep DEF DeadlineRelease, local, Claims, CancelOfGone
<1>28. ASSUME CancelParent PROVE Claims'
  BY <1>28, CloseStep DEF CancelParent, local
<1>29. ASSUME CancelChildren PROVE Claims'
  <2>1. \A c \in Children :
          /\ run[c] = "created" => run'[c] = "canceled"
          /\ Live(c) => run'[c] \in {"stopped", "lingering", "revived", "running"}
          /\ run[c] # "created" /\ ~Live(c) => run'[c] = run[c]
    BY <1>29 DEF CancelChildren, AfterCancel, Live
  <2>2. /\ barrier = "GONE" /\ ~cancelling'
        /\ UNCHANGED <<barrier, refId, claims, signal, todo>>
    BY <1>29 DEF CancelChildren, local, Claims, CancelOfGone
  <2>3. FreshAbove' /\ CancelOfGone' /\ ClaimHolds'
    BY <2>1, <2>2 DEF Claims, FreshAbove, CancelOfGone, ClaimHolds, Live
  <2>4. TodoIsUnstarted'
    BY <2>1, <2>2 DEF Claims, TodoIsUnstarted, TypeOK, Live
  <2>5. \A c \in Children : Enqueued(c)' => Enqueued(c)
    BY <2>1 DEF Enqueued, Live
  <2>6. OneChildPerSignal'
    BY <2>5 DEF Claims, OneChildPerSignal, Children
  <2>7. CancelReachesEveryChild'
    BY <2>1 DEF CancelReachesEveryChild, Live
  <2> QED
    BY <2>3, <2>4, <2>6, <2>7 DEF Claims
<1>30. ASSUME NEW d \in Dispatchers, NEW c \in Children, EnqueueChild(d, c) PROVE Claims'
  <2>1. run[c] \in {"created", "canceled"} /\ \A e \in Dispatchers : c \notin todo'[e]
    BY <1>30 DEF EnqueueChild, Handled, Claims, TodoIsUnstarted, TypeOK
  <2>2. PICK new \in {"queued", "lingering"} :
          /\ run' = [run EXCEPT ![c] = new]
          /\ new = "queued" => run[c] = "created"
    BY <1>30 DEF EnqueueChild, TypeOK
  <2>3. barrier = "PENDING" /\ UNCHANGED <<barrier, signal, refId, claims, cancelling>>
    BY <1>30 DEF EnqueueChild, requests
  <2>4. \A e \in Dispatchers : todo'[e] \subseteq todo[e]
    BY <1>30 DEF EnqueueChild, Handled, TypeOK
  <2>5. new = "queued" => signal[c[1]] = "PENDING"
    BY <2>2, <2>3 DEF Claims, ClaimHolds
  <2>6. new \in RunState \ {"none"}
    BY DEF RunState
  <2> QED
    BY <2>1, <2>2, <2>3, <2>4, <2>5, <2>6, OneChildChanges
<1>31. ASSUME NEW d \in Dispatchers, NEW c \in Children, EnqueueFails(d, c) PROVE Claims'
  <2>1. run[c] \in {"created", "canceled"} /\ refId[c[1]] = c[2] /\ c[1] \in Signals
    BY <1>31 DEF EnqueueFails, Claims, TodoIsUnstarted, ClaimHolds, TypeOK, Children
  <2>2. /\ run' = [run EXCEPT ![c] = "deleted"]
        /\ refId' = [refId EXCEPT ![c[1]] = 0]
        /\ todo' = [todo EXCEPT ![d] = @ \ {c}]
        /\ UNCHANGED <<barrier, signal, claims, cancelling>>
    BY <1>31, <2>1 DEF EnqueueFails, Handled, requests, TypeOK
  <2>3. FreshAbove' /\ CancelOfGone' /\ CancelReachesEveryChild' /\ TodoIsUnstarted'
    BY <1>31, <2>1, <2>2
    DEF EnqueueFails, Claims, TypeOK, FreshAbove, CancelOfGone, TodoIsUnstarted,
        CancelReachesEveryChild
  <2>4. OneChildPerSignal'
    BY <2>1, <2>2 DEF Claims, TypeOK, OneChildPerSignal, Enqueued, Live, Children
  <2>5. ClaimHolds'
    <3> SUFFICES ASSUME barrier = "PENDING", NEW e \in Children
                 PROVE  /\ run'[e] \notin {"none", "deleted"} => refId'[e[1]] = e[2]
                        /\ run'[e] \in {"created", "queued", "running"} =>
                             signal'[e[1]] = "PENDING"
      BY <2>2 DEF ClaimHolds
    <3>1. CASE e = c
      BY <2>2, <3>1 DEF TypeOK
    <3>2. CASE e # c
      <4>1. run'[e] = run[e]
        BY <2>2, <3>2 DEF TypeOK
      <4>2. e[1] = c[1] => e[2] # c[2]
        BY <3>2 DEF Children
      <4> QED
        BY <2>1, <2>2, <4>1, <4>2 DEF Claims, ClaimHolds, TypeOK, Children
    <3> QED
      BY <3>1, <3>2
  <2> QED
    BY <2>3, <2>4, <2>5 DEF Claims
<1>32. ASSUME NEW d \in Dispatchers, NEW c \in Children, CancelUnstartedChild(d, c) PROVE Claims'
  BY <1>32 DEF CancelUnstartedChild, Handled, requests,
      Claims, TypeOK, FreshAbove, CancelOfGone, ClaimHolds, TodoIsUnstarted,
      OneChildPerSignal, CancelReachesEveryChild, Enqueued, Live, Children
<1>33. ASSUME NEW c \in Children, ChildStarts(c) PROVE Claims'
  <2>1. run[c] \in {"queued", "lingering"} /\ \A d \in Dispatchers : c \notin todo[d]
    BY <1>33 DEF ChildStarts, Claims, TodoIsUnstarted
  <2>2. PICK new \in {"running", "revived"} :
          /\ run' = [run EXCEPT ![c] = new]
          /\ new = "running" => run[c] = "queued"
    BY <1>33 DEF ChildStarts, TypeOK
  <2>3. UNCHANGED <<barrier, signal, refId, claims, cancelling, todo>>
    BY <1>33 DEF ChildStarts, requests, local
  <2>4. Enqueued(c)
    BY <2>1 DEF Enqueued, Live
  <2>5. barrier = "PENDING" /\ new = "running" => signal[c[1]] = "PENDING"
    BY <2>2 DEF Claims, ClaimHolds
  <2>6. new \in RunState \ {"none"}
    BY DEF RunState
  <2> QED
    BY <2>1, <2>2, <2>3, <2>4, <2>5, <2>6, OneChildChanges
<1>34. ASSUME NEW c \in Children, ChildReports(c) PROVE Claims'
  <2>1. run[c] \in {"running", "revived"} /\ \A d \in Dispatchers : c \notin todo[d]
    BY <1>34 DEF ChildReports, Claims, TodoIsUnstarted
  <2>2. run' = [run EXCEPT ![c] = "finished"] /\ "finished" \in RunState \ {"none"}
    BY <1>34 DEF ChildReports, RunState
  <2>3. UNCHANGED <<barrier, refId, claims, cancelling, todo>>
    BY <1>34 DEF ChildReports, requests, local
  <2>4. Enqueued(c)
    BY <2>1 DEF Enqueued, Live
  <2>5. \A s \in Signals : s # c[1] => signal'[s] = signal[s]
    BY <1>34 DEF ChildReports, ReceiveSignal, TypeOK
  <2> QED
    BY <2>1, <2>2, <2>3, <2>4, <2>5, OneChildChanges
<1>35. ASSUME NEW d \in Dispatchers, ClaimChunk(d) PROVE Claims'
  <2> DEFINE chunk == Chunk(cursor[d])
             child(s) == <<s, claims[s] + 1>>
  <2>1. /\ barrier = "PENDING"
        /\ \A s \in chunk : claims[s] < MaxClaims
        /\ refId' = [s \in Signals |-> IF s \in chunk THEN claims[s] + 1 ELSE refId[s]]
        /\ claims' = [s \in Signals |-> IF s \in chunk THEN claims[s] + 1 ELSE claims[s]]
        /\ run' = [c \in Children |-> IF c[1] \in chunk /\ c = child(c[1])
                                      THEN "created" ELSE run[c]]
        /\ todo' = [todo EXCEPT ![d] = {child(s) : s \in chunk}]
        /\ UNCHANGED <<barrier, signal, cancelling>>
    BY <1>35 DEF ClaimChunk, requests
  <2>2. \A s \in chunk : s \in Signals /\ signal[s] = "PENDING" /\ refId[s] = 0
    BY DEF Chunk, Unclaimed
  \* no child of a signal of the chunk exists yet
  <2>3. \A c \in Children : c[1] \in chunk => run[c] \in {"none", "deleted"}
    BY <2>1, <2>2 DEF Claims, ClaimHolds, TypeOK, Children
  <2>4. \A c \in Children : (c[1] \in chunk /\ c = child(c[1])) <=> c[2] = claims[c[1]] + 1 /\ c[1] \in chunk
    BY DEF Children
  <2>5. \A s \in Signals : claims[s] \in Nat
    BY DEF TypeOK
  <2> HIDE DEF chunk
  <2>6. FreshAbove'
    BY <2>1, <2>4, <2>5 DEF Claims, FreshAbove, TypeOK, Children
  <2>7. CancelOfGone' /\ CancelReachesEveryChild'
    BY <2>1 DEF Claims, CancelOfGone, CancelReachesEveryChild
  <2>8. ClaimHolds'
    BY <2>1, <2>2, <2>3, <2>4, <2>5 DEF Claims, ClaimHolds, TypeOK, Children
  <2>9. OneChildPerSignal'
    BY <2>1, <2>3, <2>4 DEF Claims, OneChildPerSignal, Enqueued, Live, TypeOK, Children
  <2>10. TodoIsUnstarted'
    <3> SUFFICES ASSUME NEW e \in Dispatchers, NEW c \in todo'[e]
                 PROVE  /\ run'[c] \in {"created", "canceled"}
                        /\ \A f \in Dispatchers : c \in todo'[f] => f = e
      BY <2>1 DEF TodoIsUnstarted
    <3>1. ASSUME NEW s \in chunk
          PROVE  /\ child(s) \in Children /\ run[child(s)] = "none"
                 /\ run'[child(s)] = "created"
                 /\ \A f \in Dispatchers : child(s) \notin todo[f]
      <4>1. child(s) \in Children
        BY <2>1, <2>2, <2>5, FanOutAssumption DEF Children
      <4>2. run[child(s)] = "none"
        BY <2>2, <2>5, <4>1 DEF Claims, FreshAbove
      <4> QED
        BY <2>1, <4>1, <4>2 DEF Claims, TodoIsUnstarted
    <3>2. CASE e = d
      <4>1. PICK s \in chunk : c = child(s)
        BY <2>1, <3>2 DEF TypeOK
      <4> HIDE DEF child
      <4>2. run'[c] = "created" /\ \A f \in Dispatchers : c \notin todo[f]
        BY <3>1, <4>1
      <4>3. \A f \in Dispatchers \ {d} : todo'[f] = todo[f]
        BY <2>1 DEF TypeOK
      <4> QED
        BY <3>2, <4>2, <4>3
    <3>3. CASE e # d
      <4>1. c \in todo[e] /\ c \in Children
        BY <2>1, <3>3 DEF TypeOK
      <4>2. run[c] \in {"created", "canceled"}
        BY <2>1, <4>1 DEF Claims, TodoIsUnstarted
      <4>3. run'[c] \in {"created", "canceled"}
        BY <2>1, <4>1, <4>2
      <4>4. c \notin todo'[d]
        <5> SUFFICES ASSUME c \in todo'[d] PROVE FALSE
          OBVIOUS
        <5>1. PICK s \in chunk : c = child(s)
          BY <2>1 DEF TypeOK
        <5> HIDE DEF child
        <5> QED
          BY <3>1, <4>1, <5>1
      <4> QED
        BY <2>1, <4>1, <4>3, <4>4 DEF Claims, TodoIsUnstarted, TypeOK
    <3> QED
      BY <3>2, <3>3
  <2> QED
    BY <2>6, <2>7, <2>8, <2>9, <2>10 DEF Claims
<1>36. ASSUME NEW c \in Children, CancelChild(c) PROVE Claims'
  <2>1. run[c] \in {"created", "queued", "running"}
    BY <1>36 DEF CancelChild, Live
  <2>2. PICK new \in AfterCancel(run[c]) \ {run[c]} : run' = [run EXCEPT ![c] = new]
    BY <1>36 DEF CancelChild
  <2>3. /\ new \in {"canceled", "stopped", "lingering", "revived"}
        /\ new # "canceled" => Enqueued(c)
        /\ run[c] = "created" => new = "canceled"
    BY <2>1, <2>2 DEF AfterCancel, Enqueued, Live
  <2>4. UNCHANGED <<barrier, refId, claims, cancelling, todo>>
    BY <1>36 DEF CancelChild, requests, local
  <2>5. \A s \in Signals : s # c[1] => signal'[s] = signal[s]
    BY <1>36 DEF CancelChild, ReceiveSignal, TypeOK
  <2>6. \A d \in Dispatchers : c \in todo'[d] => new = "canceled"
    BY <2>1, <2>3, <2>4 DEF Claims, TodoIsUnstarted
  <2>7. new \in RunState \ {"none"}
    BY <2>3 DEF RunState
  <2>8. Enqueued(c)' => Enqueued(c)
    BY <2>2, <2>3 DEF Enqueued, Live, TypeOK
  <2> QED
    BY <2>1, <2>2, <2>3, <2>4, <2>5, <2>6, <2>7, <2>8, OneChildChanges
<1>37. CASE UNCHANGED vars
  BY <1>37, QuietStep DEF vars, rows
<1>38. ASSUME GiveUpEvaluates PROVE Claims'
  BY <1>38, QuietStep DEF GiveUpEvaluates, local, requests
<1>39. ASSUME GiveUpFails PROVE Claims'
  BY <1>39, QuietStep DEF GiveUpFails, local, requests
<1>40. ASSUME ReportEvaluates \/ ReportFails PROVE Claims'
  BY <1>40, QuietStep DEF ReportEvaluates, ReportFails, local, requests
<1>41. ASSUME CreateFails PROVE Claims'
  BY <1>41, QuietStep DEF CreateFails, local
<1>42. ASSUME NEW d \in Dispatchers, EvaluateLate(d) PROVE Claims'
  BY <1>42, QuietStep DEF EvaluateLate, requests
<1>43. ASSUME NEW d \in Dispatchers, LateSettleFails(d) PROVE Claims'
  BY <1>43, QuietStep DEF LateSettleFails, requests
<1>44. ASSUME NEW d \in Dispatchers, SettleFails(d) PROVE Claims'
  BY <1>44, QuietStep DEF SettleFails, requests, Goto
<1>45. ASSUME NEW d \in Dispatchers, AddGiveUpFails(d) PROVE Claims'
  BY <1>45, QuietStep DEF AddGiveUpFails, requests, Leave, TypeOK
<1> QED
  BY <1>1, <1>2, <1>3, <1>4, <1>5, <1>6, <1>7, <1>8, <1>9, <1>10, <1>11, <1>12,
     <1>13, <1>14, <1>15, <1>16, <1>17, <1>18, <1>19, <1>20, <1>21, <1>22, <1>23,
     <1>24, <1>25, <1>26, <1>27, <1>28, <1>29, <1>30, <1>31, <1>32, <1>33, <1>34,
     <1>35, <1>36, <1>37, <1>38, <1>39, <1>40, <1>41, <1>42, <1>43, <1>44, <1>45
  DEF Next, Creation, DispatcherStep, GiveUpStep, ChildStep, BarrierStep, Fault, Outage

IInv == TypeOK /\ Claims

\* The claim invariant holds in every execution, for any number of signals, dispatchers,
\* redeliveries, retries and faults.
THEOREM ClaimsInvariant == Spec => []IInv
<1>1. Init => IInv
  BY InitTypeOK, InitClaims DEF IInv
<1>2. IInv /\ [Next]_vars => IInv'
  BY NextTypeOK, NextClaims DEF IInv
<1> QED
  BY <1>1, <1>2, PTL DEF Spec

(***************************************************************************)
(* A batch is handed to at most one child run, whatever dispatchers run.   *)
(***************************************************************************)
THEOREM AtMostOneChildPerSignal == Spec => []OneChildPerSignal
<1>1. IInv => OneChildPerSignal
  BY DEF IInv, Claims
<1> QED
  BY <1>1, ClaimsInvariant, PTL

(***************************************************************************)
(* While the barrier waits, a live child is the one its signal names.      *)
(***************************************************************************)
THEOREM LiveChildrenAreAwaited == Spec => []LiveChildIsAwaited
<1>1. IInv => LiveChildIsAwaited
  BY DEF IInv, Claims, ClaimHolds, LiveChildIsAwaited, Live
<1> QED
  BY <1>1, ClaimsInvariant, PTL

(***************************************************************************)
(* A cancel of the parent reaches every child that has not started.        *)
(***************************************************************************)
THEOREM CancelIsComplete == Spec => []CancelReachesEveryChild
<1>1. IInv => CancelReachesEveryChild
  BY DEF IInv, Claims
<1> QED
  BY <1>1, ClaimsInvariant, PTL

=============================================================================
