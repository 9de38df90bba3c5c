------------------------ MODULE BarrierRelease_proofs ------------------------
(***************************************************************************)
(* Proofs about BarrierRelease, for every number of barriers, handlers and *)
(* signals and whatever faults come together: every barrier keeps the      *)
(* promise of BarrierPromise, its summary holds the decisions that were    *)
(* recorded, and a barrier that is ready is always about to be evaluated.  *)
(***************************************************************************)
EXTENDS BarrierRelease, FiniteSetTheorems, TLAPS

USE DEF runVars, rowVars, queueVars, callVars

(***************************************************************************)
(* Types, in groups that the steps change together.                        *)
(***************************************************************************)
RunTypes ==
    /\ run \in {"RUNNING", "PAUSED", "ENDED"}
    /\ engine \in {"running", "arm", "wake", "pause", "idle"}
    /\ at \in 0..NBarriers
    /\ saving \in BOOLEAN
    /\ policy \in Policies

BarrierTypes == barrier \in [Barriers -> {"none", "PENDING", "COMPLETED", "CONSUMED", "gone"}]

SignalTypes == signal \in [Barriers -> [Signals -> Status]]

SummaryTypes ==
    /\ summary \in [Barriers -> [Signals -> Status]]
    /\ timedOut \in [Barriers -> BOOLEAN]

QueueTypes ==
    /\ key \in [Barriers -> {"free", "waiting"} \cup Evaluators]
    /\ extra \in [Barriers -> Nat]

HandlerTypes ==
    /\ pc \in [Handlers -> {"idle", "clear", "read", "count", "close", "resume", "done"}]
    /\ on \in [Handlers -> 0..NBarriers]

CallTypes ==
    /\ calls \subseteq Call
    /\ reported \in [Barriers -> SUBSET Children]

DecisionTypes == decided \in [Barriers -> [Signals -> Settled \cup {"none"}]]

DeliveryTypes == resumes \in [Barriers -> Nat] /\ timer \subseteq Barriers

FaultTypes == faults \subseteq AllFaults

\* The groups make up TypeOK.
LEMMA TypeGroups ==
    /\ TypeOK <=> /\ RunTypes /\ BarrierTypes /\ SignalTypes /\ SummaryTypes /\ QueueTypes
                  /\ HandlerTypes /\ CallTypes /\ DecisionTypes /\ DeliveryTypes /\ FaultTypes
    /\ TypeOK' <=> /\ RunTypes' /\ BarrierTypes' /\ SignalTypes' /\ SummaryTypes' /\ QueueTypes'
                   /\ HandlerTypes' /\ CallTypes' /\ DecisionTypes' /\ DeliveryTypes' /\ FaultTypes'
BY DEF TypeOK, RunTypes, BarrierTypes, SignalTypes, SummaryTypes, QueueTypes, HandlerTypes,
       CallTypes, DecisionTypes, DeliveryTypes, FaultTypes

\* The first state is of the declared types.
LEMMA InitTypes == Init => TypeOK
<1> SUFFICES ASSUME Init PROVE TypeOK OBVIOUS
<1>0. BarrierTypes
    BY DEF Init, BarrierTypes
<1>1. RunTypes
  <2>1. NBarriers \in Nat \ {0}
      BY BarrierAssumption
  <2>2. saving \in BOOLEAN /\ policy \in Policies
      BY DEF Init
  <2>3. at \in 0..NBarriers
      BY <2>1 DEF Init
  <2>4. run \in {"RUNNING", "PAUSED", "ENDED"} /\ engine \in {"running", "arm", "wake", "pause", "idle"}
      BY DEF Init
  <2> QED
      BY <2>2, <2>3, <2>4 DEF RunTypes
<1>2. SignalTypes /\ SummaryTypes
    BY DEF Init, SignalTypes, SummaryTypes, Nothing, Status
<1>3. QueueTypes /\ HandlerTypes
    BY BarrierAssumption DEF Init, QueueTypes, HandlerTypes
<1>4. CallTypes /\ FaultTypes
    BY DEF Init, CallTypes, FaultTypes
<1>5. DecisionTypes /\ DeliveryTypes
    BY DEF Init, DecisionTypes, DeliveryTypes, Nothing
<1> QED
    BY <1>0, <1>1, <1>2, <1>3, <1>4, <1>5, TypeGroups

\* A handler that is at work is at work on a barrier, one that resumes on a closed one, and
\* one that has found its barrier open on one that was created.
BusyWithBarrier ==
    \A h \in Handlers : pc[h] # "idle" =>
        /\ on[h] \in Barriers
        /\ pc[h] = "resume" => barrier[on[h]] \in {"COMPLETED", "CONSUMED", "gone"}
        /\ pc[h] \in {"count", "close"} => barrier[on[h]] # "none"

\* A deadline is scheduled for a barrier that was created.
ArmsABarrier == engine \in {"arm", "wake"} => at \in Barriers

\* Every step keeps the types.
LEMMA NextTypes ==
    ASSUME TypeOK, BusyWithBarrier, ArmsABarrier, [Next]_vars
    PROVE  TypeOK'
<1> USE BarrierAssumption, TypeGroups DEF Handlers
<1>1. ASSUME Create PROVE  TypeOK'
  <2>1. RunTypes'
      BY <1>1 DEF Create, RunTypes, Barriers
  <2>2. BarrierTypes'
      BY <1>1 DEF Create, BarrierTypes, Barriers
  <2>3. SignalTypes'
    <3>1. at' \in Barriers
        BY <1>1 DEF Create, RunTypes, Barriers
    <3>2. PICK asked \in SignalSets :
              signal' = [signal EXCEPT ![at'] = [s \in Signals |-> IF s \in asked THEN "PENDING" ELSE "none"]]
        BY <1>1 DEF Create
    <3> QED
        BY <3>1, <3>2 DEF SignalTypes, Status
  <2>4. SummaryTypes' /\ QueueTypes' /\ HandlerTypes' /\ CallTypes' /\ DecisionTypes' /\ DeliveryTypes' /\ FaultTypes'
      BY <1>1 DEF Create, SummaryTypes, QueueTypes, HandlerTypes, CallTypes, DecisionTypes, DeliveryTypes, FaultTypes
  <2> QED
      BY <2>1, <2>2, <2>3, <2>4
<1>2. ASSUME ScheduleDeadline PROVE  TypeOK'
  <2>1. RunTypes'
      BY <1>2 DEF ScheduleDeadline, RunTypes
  <2>2. DeliveryTypes'
      BY <1>2 DEF ScheduleDeadline, DeliveryTypes, ArmsABarrier
  <2>3. BarrierTypes' /\ SignalTypes' /\ SummaryTypes' /\ QueueTypes' /\ HandlerTypes' /\ CallTypes' /\ DecisionTypes' /\ FaultTypes'
      BY <1>2 DEF ScheduleDeadline, BarrierTypes, SignalTypes, SummaryTypes, QueueTypes, HandlerTypes, CallTypes, DecisionTypes, FaultTypes
  <2> QED
      BY <2>1, <2>2, <2>3
<1>3. ASSUME FirstEvaluation PROVE  TypeOK'
  <2>1. RunTypes'
      BY <1>3 DEF FirstEvaluation, RunTypes
  <2>2. QueueTypes'
      BY <1>3 DEF FirstEvaluation, QueueTypes, EnqueueEvaluation
  <2>3. BarrierTypes' /\ SignalTypes' /\ SummaryTypes' /\ HandlerTypes' /\ CallTypes' /\ DecisionTypes' /\ DeliveryTypes' /\ FaultTypes'
      BY <1>3 DEF FirstEvaluation, BarrierTypes, SignalTypes, SummaryTypes, HandlerTypes, CallTypes, DecisionTypes, DeliveryTypes, FaultTypes
  <2> QED
      BY <2>1, <2>2, <2>3
<1>4. ASSUME SavePaused PROVE  TypeOK'
  <2>1. RunTypes'
      BY <1>4 DEF SavePaused, RunTypes
  <2>2. BarrierTypes' /\ SignalTypes' /\ SummaryTypes' /\ QueueTypes' /\ HandlerTypes' /\ CallTypes' /\ DecisionTypes' /\ DeliveryTypes' /\ FaultTypes'
      BY <1>4 DEF SavePaused, BarrierTypes, SignalTypes, SummaryTypes, QueueTypes, HandlerTypes, CallTypes, DecisionTypes, DeliveryTypes, FaultTypes
  <2> QED
      BY <2>1, <2>2
<1>5. ASSUME DeliverUndelivered PROVE  TypeOK'
  <2>1. RunTypes'
      BY <1>5 DEF DeliverUndelivered, RunTypes
  <2>2. BarrierTypes'
      BY <1>5 DEF DeliverUndelivered, BarrierTypes, Deliver
  <2>3. DeliveryTypes'
      BY <1>5 DEF DeliverUndelivered, DeliveryTypes, Deliver
  <2>4. FaultTypes'
      BY <1>5 DEF DeliverUndelivered, FaultTypes, Happens
  <2>5. SignalTypes' /\ SummaryTypes' /\ QueueTypes' /\ HandlerTypes' /\ CallTypes' /\ DecisionTypes'
      BY <1>5 DEF DeliverUndelivered, SignalTypes, SummaryTypes, QueueTypes, HandlerTypes, CallTypes, DecisionTypes
  <2> QED
      BY <2>1, <2>2, <2>3, <2>4, <2>5
<1>6. ASSUME StartResume PROVE  TypeOK'
  <2>1. RunTypes'
      BY <1>6 DEF StartResume, RunTypes
  <2>2. BarrierTypes' /\ SignalTypes' /\ SummaryTypes' /\ QueueTypes' /\ HandlerTypes' /\ CallTypes' /\ DecisionTypes' /\ DeliveryTypes' /\ FaultTypes'
      BY <1>6 DEF StartResume, BarrierTypes, SignalTypes, SummaryTypes, QueueTypes, HandlerTypes, CallTypes, DecisionTypes, DeliveryTypes, FaultTypes
  <2> QED
      BY <2>1, <2>2
<1>7. ASSUME CreateFails PROVE  TypeOK'
  <2>1. RunTypes'
      BY <1>7 DEF CreateFails, RunTypes
  <2>2. FaultTypes'
      BY <1>7 DEF CreateFails, FaultTypes, Happens, AllFaults
  <2>3. BarrierTypes' /\ SignalTypes' /\ SummaryTypes' /\ QueueTypes' /\ HandlerTypes' /\ CallTypes' /\ DecisionTypes' /\ DeliveryTypes'
      BY <1>7 DEF CreateFails, BarrierTypes, SignalTypes, SummaryTypes, QueueTypes, HandlerTypes, CallTypes, DecisionTypes, DeliveryTypes
  <2> QED
      BY <2>1, <2>2, <2>3
<1>8. ASSUME EndRun PROVE  TypeOK'
  <2>1. RunTypes'
      BY <1>8 DEF EndRun, RunTypes
  <2>2. BarrierTypes'
      BY <1>8 DEF EndRun, BarrierTypes
  <2>3. SignalTypes'
      BY <1>8 DEF EndRun, SignalTypes, Nothing, Status
  <2>4. DeliveryTypes'
      BY <1>8 DEF EndRun, DeliveryTypes
  <2>5. FaultTypes'
      BY <1>8 DEF EndRun, FaultTypes, Happens, AllFaults
  <2>6. SummaryTypes' /\ QueueTypes' /\ HandlerTypes' /\ CallTypes' /\ DecisionTypes'
      BY <1>8 DEF EndRun, SummaryTypes, QueueTypes, HandlerTypes, CallTypes, DecisionTypes
  <2> QED
      BY <2>1, <2>2, <2>3, <2>4, <2>5, <2>6
<1>9. ASSUME NEW h \in Handlers, ClearEvaluationDedupKey(h) PROVE  TypeOK'
  <2>1. QueueTypes'
      BY <1>9 DEF ClearEvaluationDedupKey, QueueTypes, BusyWithBarrier
  <2>2. HandlerTypes'
      BY <1>9 DEF ClearEvaluationDedupKey, HandlerTypes, Goto
  <2>3. RunTypes' /\ BarrierTypes' /\ SignalTypes' /\ SummaryTypes' /\ CallTypes' /\ DecisionTypes' /\ DeliveryTypes' /\ FaultTypes'
      BY <1>9 DEF ClearEvaluationDedupKey, RunTypes, BarrierTypes, SignalTypes, SummaryTypes, CallTypes, DecisionTypes, DeliveryTypes, FaultTypes
  <2> QED
      BY <2>1, <2>2, <2>3
<1>10. ASSUME NEW h \in Handlers, ReadBarrier(h) PROVE  TypeOK'
  <2>1. HandlerTypes'
      BY <1>10 DEF ReadBarrier, HandlerTypes, Goto
  <2>2. RunTypes' /\ BarrierTypes' /\ SignalTypes' /\ SummaryTypes' /\ QueueTypes' /\ CallTypes' /\ DecisionTypes' /\ DeliveryTypes' /\ FaultTypes'
      BY <1>10 DEF ReadBarrier, RunTypes, BarrierTypes, SignalTypes, SummaryTypes, QueueTypes, CallTypes, DecisionTypes, DeliveryTypes, FaultTypes
  <2> QED
      BY <2>1, <2>2
<1>11. ASSUME NEW h \in Handlers, CountSignals(h) PROVE  TypeOK'
  <2>1. HandlerTypes'
      BY <1>11 DEF CountSignals, HandlerTypes, Goto
  <2>2. RunTypes' /\ BarrierTypes' /\ SignalTypes' /\ SummaryTypes' /\ QueueTypes' /\ CallTypes' /\ DecisionTypes' /\ DeliveryTypes' /\ FaultTypes'
      BY <1>11 DEF CountSignals, RunTypes, BarrierTypes, SignalTypes, SummaryTypes, QueueTypes, CallTypes, DecisionTypes, DeliveryTypes, FaultTypes
  <2> QED
      BY <2>1, <2>2
<1>12. ASSUME NEW h \in Handlers, CloseBarrier(h) PROVE  TypeOK'
  <2>1. BarrierTypes'
      BY <1>12 DEF CloseBarrier, BarrierTypes
  <2>2. SignalTypes'
      BY <1>12 DEF CloseBarrier, SignalTypes, Nothing, Status
  <2>3. SummaryTypes'
      BY <1>12 DEF CloseBarrier, SummaryTypes, SignalTypes
  <2>4. HandlerTypes'
      BY <1>12 DEF CloseBarrier, HandlerTypes, Goto
  <2>5. RunTypes' /\ QueueTypes' /\ CallTypes' /\ DecisionTypes' /\ DeliveryTypes' /\ FaultTypes'
      BY <1>12 DEF CloseBarrier, RunTypes, QueueTypes, CallTypes, DecisionTypes, DeliveryTypes, FaultTypes
  <2> QED
      BY <2>1, <2>2, <2>3, <2>4, <2>5
<1>13. ASSUME NEW h \in Handlers, ResumeRun(h) PROVE  TypeOK'
  <2>1. BarrierTypes'
      BY <1>13 DEF ResumeRun, BarrierTypes, Deliver
  <2>2. HandlerTypes'
      BY <1>13 DEF ResumeRun, HandlerTypes, Goto
  <2>3. DeliveryTypes'
      BY <1>13 DEF ResumeRun, DeliveryTypes, Deliver
  <2>4. RunTypes' /\ SignalTypes' /\ SummaryTypes' /\ QueueTypes' /\ CallTypes' /\ DecisionTypes' /\ FaultTypes'
      BY <1>13 DEF ResumeRun, RunTypes, SignalTypes, SummaryTypes, QueueTypes, CallTypes, DecisionTypes, FaultTypes
  <2> QED
      BY <2>1, <2>2, <2>3, <2>4
<1>14. ASSUME NEW h \in Handlers, Finish(h) PROVE  TypeOK'
  <2>1. QueueTypes'
      BY <1>14 DEF Finish, QueueTypes
  <2>2. HandlerTypes'
      BY <1>14 DEF Finish, HandlerTypes
  <2>3. RunTypes' /\ BarrierTypes' /\ SignalTypes' /\ SummaryTypes' /\ CallTypes' /\ DecisionTypes' /\ DeliveryTypes' /\ FaultTypes'
      BY <1>14 DEF Finish, RunTypes, BarrierTypes, SignalTypes, SummaryTypes, CallTypes, DecisionTypes, DeliveryTypes, FaultTypes
  <2> QED
      BY <2>1, <2>2, <2>3
<1>15. ASSUME NEW h \in Handlers, Crash(h) PROVE  TypeOK'
  <2>1. QueueTypes'
      BY <1>15 DEF Crash, QueueTypes, RunAgain
  <2>2. HandlerTypes'
      BY <1>15 DEF Crash, HandlerTypes
  <2>3. DeliveryTypes'
      BY <1>15 DEF Crash, DeliveryTypes, BusyWithBarrier
  <2>4. FaultTypes'
      BY <1>15 DEF Crash, FaultTypes, Happens, AllFaults
  <2>5. RunTypes' /\ BarrierTypes' /\ SignalTypes' /\ SummaryTypes' /\ CallTypes' /\ DecisionTypes'
      BY <1>15 DEF Crash, RunTypes, BarrierTypes, SignalTypes, SummaryTypes, CallTypes, DecisionTypes
  <2> QED
      BY <2>1, <2>2, <2>3, <2>4, <2>5
<1>16. ASSUME NEW e \in Evaluators, Stall(e) PROVE  TypeOK'
  <2>1. QueueTypes'
      BY <1>16 DEF Stall, QueueTypes, RunAgain
  <2>2. FaultTypes'
      BY <1>16 DEF Stall, FaultTypes, Happens, AllFaults
  <2>3. RunTypes' /\ BarrierTypes' /\ SignalTypes' /\ SummaryTypes' /\ HandlerTypes' /\ CallTypes' /\ DecisionTypes' /\ DeliveryTypes'
      BY <1>16 DEF Stall, RunTypes, BarrierTypes, SignalTypes, SummaryTypes, HandlerTypes, CallTypes, DecisionTypes, DeliveryTypes
  <2> QED
      BY <2>1, <2>2, <2>3
<1>17. ASSUME NEW b \in Barriers, DeadlineFires(b) PROVE  TypeOK'
  <2>1. HandlerTypes'
      BY <1>17 DEF DeadlineFires, HandlerTypes, Barriers
  <2>2. DeliveryTypes'
      BY <1>17 DEF DeadlineFires, DeliveryTypes
  <2>3. RunTypes' /\ BarrierTypes' /\ SignalTypes' /\ SummaryTypes' /\ QueueTypes' /\ CallTypes' /\ DecisionTypes' /\ FaultTypes'
      BY <1>17 DEF DeadlineFires, RunTypes, BarrierTypes, SignalTypes, SummaryTypes, QueueTypes, CallTypes, DecisionTypes, FaultTypes
  <2> QED
      BY <2>1, <2>2, <2>3
<1>18. ASSUME NEW b \in Barriers, SweepOverdue(b) PROVE  TypeOK'
  <2>1. DeliveryTypes'
      BY <1>18 DEF SweepOverdue, DeliveryTypes
  <2>2. RunTypes' /\ BarrierTypes' /\ SignalTypes' /\ SummaryTypes' /\ QueueTypes' /\ HandlerTypes' /\ CallTypes' /\ DecisionTypes' /\ FaultTypes'
      BY <1>18 DEF SweepOverdue, RunTypes, BarrierTypes, SignalTypes, SummaryTypes, QueueTypes, HandlerTypes, CallTypes, DecisionTypes, FaultTypes
  <2> QED
      BY <2>1, <2>2
<1>19. ASSUME NEW b \in Barriers, SweepUndelivered(b) PROVE  TypeOK'
  <2>1. QueueTypes'
      BY <1>19 DEF SweepUndelivered, QueueTypes, EnqueueEvaluation
  <2>2. RunTypes' /\ BarrierTypes' /\ SignalTypes' /\ SummaryTypes' /\ HandlerTypes' /\ CallTypes' /\ DecisionTypes' /\ DeliveryTypes' /\ FaultTypes'
      BY <1>19 DEF SweepUndelivered, RunTypes, BarrierTypes, SignalTypes, SummaryTypes, HandlerTypes, CallTypes, DecisionTypes, DeliveryTypes, FaultTypes
  <2> QED
      BY <2>1, <2>2
<1>20. ASSUME NEW b \in Barriers, NEW e \in Evaluators, TakeEvaluation(e, b) PROVE  TypeOK'
  <2>1. QueueTypes'
      BY <1>20 DEF TakeEvaluation, QueueTypes
  <2>2. HandlerTypes'
      BY <1>20 DEF TakeEvaluation, HandlerTypes, Barriers
  <2>3. RunTypes' /\ BarrierTypes' /\ SignalTypes' /\ SummaryTypes' /\ CallTypes' /\ DecisionTypes' /\ DeliveryTypes' /\ FaultTypes'
      BY <1>20 DEF TakeEvaluation, RunTypes, BarrierTypes, SignalTypes, SummaryTypes, CallTypes, DecisionTypes, DeliveryTypes, FaultTypes
  <2> QED
      BY <2>1, <2>2, <2>3
<1>21. ASSUME NEW b \in Barriers, NEW s \in Signals, NEW status \in Settled, OpenLink(b, s, status) PROVE  TypeOK'
  <2>1. CallTypes'
      BY <1>21 DEF OpenLink, CallTypes, Write, Call
  <2>2. RunTypes' /\ BarrierTypes' /\ SignalTypes' /\ SummaryTypes' /\ QueueTypes' /\ HandlerTypes' /\ DecisionTypes' /\ DeliveryTypes' /\ FaultTypes'
      BY <1>21 DEF OpenLink, RunTypes, BarrierTypes, SignalTypes, SummaryTypes, QueueTypes, HandlerTypes, DecisionTypes, DeliveryTypes, FaultTypes
  <2> QED
      BY <2>1, <2>2
<1>22. ASSUME NEW b \in Barriers, NEW s \in Signals, NEW status \in Settled, ChildEnds(b, s, status) PROVE  TypeOK'
  <2>1. CallTypes'
      BY <1>22 DEF ChildEnds, CallTypes, Write, Call
  <2>2. FaultTypes'
      BY <1>22 DEF ChildEnds, FaultTypes, Happens, AllFaults
  <2>3. RunTypes' /\ BarrierTypes' /\ SignalTypes' /\ SummaryTypes' /\ QueueTypes' /\ HandlerTypes' /\ DecisionTypes' /\ DeliveryTypes'
      BY <1>22 DEF ChildEnds, RunTypes, BarrierTypes, SignalTypes, SummaryTypes, QueueTypes, HandlerTypes, DecisionTypes, DeliveryTypes
  <2> QED
      BY <2>1, <2>2, <2>3
<1>23. ASSUME NEW c \in calls, RecordDecision(c) PROVE  TypeOK'
  <2>1. SignalTypes'
      BY <1>23 DEF RecordDecision, SignalTypes, SetSignal, Status, CallTypes, Call
  <2>2. CallTypes'
      BY <1>23 DEF RecordDecision, CallTypes, GoesOn, Dropped, Call
  <2>3. DecisionTypes'
      BY <1>23 DEF RecordDecision, DecisionTypes, Told, CallTypes, Call
  <2>4. RunTypes' /\ BarrierTypes' /\ SummaryTypes' /\ QueueTypes' /\ HandlerTypes' /\ DeliveryTypes' /\ FaultTypes'
      BY <1>23 DEF RecordDecision, RunTypes, BarrierTypes, SummaryTypes, QueueTypes, HandlerTypes, DeliveryTypes, FaultTypes
  <2> QED
      BY <2>1, <2>2, <2>3, <2>4
<1>24. ASSUME NEW c \in calls, ReceiveSignal(c) PROVE  TypeOK'
  <2>1. SignalTypes'
      BY <1>24 DEF ReceiveSignal, SignalTypes, SetSignal, Status, CallTypes, Call
  <2>2. CallTypes'
      BY <1>24 DEF ReceiveSignal, CallTypes, GoesOn, Dropped, Call
  <2>3. RunTypes' /\ BarrierTypes' /\ SummaryTypes' /\ QueueTypes' /\ HandlerTypes' /\ DecisionTypes' /\ DeliveryTypes' /\ FaultTypes'
      BY <1>24 DEF ReceiveSignal, RunTypes, BarrierTypes, SummaryTypes, QueueTypes, HandlerTypes, DecisionTypes, DeliveryTypes, FaultTypes
  <2> QED
      BY <2>1, <2>2, <2>3
<1>25. ASSUME NEW c \in calls, Wake(c) PROVE  TypeOK'
  <2>1. QueueTypes'
      BY <1>25 DEF Wake, QueueTypes, EnqueueEvaluation
  <2>2. CallTypes'
      BY <1>25 DEF Wake, CallTypes, Dropped
  <2>3. RunTypes' /\ BarrierTypes' /\ SignalTypes' /\ SummaryTypes' /\ HandlerTypes' /\ DecisionTypes' /\ DeliveryTypes' /\ FaultTypes'
      BY <1>25 DEF Wake, RunTypes, BarrierTypes, SignalTypes, SummaryTypes, HandlerTypes, DecisionTypes, DeliveryTypes, FaultTypes
  <2> QED
      BY <2>1, <2>2, <2>3
<1>26. ASSUME NEW c \in calls, WakeFails(c) PROVE  TypeOK'
  <2>1. CallTypes'
      BY <1>26 DEF WakeFails, CallTypes, Call
  <2>2. FaultTypes'
      BY <1>26 DEF WakeFails, FaultTypes, Happens, AllFaults
  <2>3. RunTypes' /\ BarrierTypes' /\ SignalTypes' /\ SummaryTypes' /\ QueueTypes' /\ HandlerTypes' /\ DecisionTypes' /\ DeliveryTypes'
      BY <1>26 DEF WakeFails, RunTypes, BarrierTypes, SignalTypes, SummaryTypes, QueueTypes, HandlerTypes, DecisionTypes, DeliveryTypes
  <2> QED
      BY <2>1, <2>2, <2>3
<1>27. CASE UNCHANGED vars
    BY <1>27 DEF vars, RunTypes, BarrierTypes, SignalTypes, SummaryTypes, QueueTypes, HandlerTypes, CallTypes, DecisionTypes, DeliveryTypes, FaultTypes
<1> QED
    BY <1>1, <1>2, <1>3, <1>4, <1>5, <1>6, <1>7, <1>8, <1>9, <1>10, <1>11, <1>12, <1>13, <1>14, <1>15, <1>16, <1>17, <1>18, <1>19, <1>20, <1>21, <1>22, <1>23, <1>24, <1>25, <1>26, <1>27
    DEF Next, EngineStep, HandlerStep, BarrierStep, CallStep

(***************************************************************************)
(* What the steps keep about the rows of the barriers.                     *)
(***************************************************************************)
\* Only an open barrier has signals: closing deletes them in the transaction that closes
OnlyOpenBarriersListen ==
    \A b \in Barriers : barrier[b] # "PENDING" => signal[b] = Nothing

\* A run that has ended does not go on
EndedRunIsIdle == run = "ENDED" => engine = "idle"

\* The run has not come to the barriers after the last one
NotYetCreated ==
    run # "ENDED" => \A b \in Barriers : b > at =>
        barrier[b] = "none" /\ resumes[b] = 0 /\ decided[b] = Nothing

\* The resume job of a barrier was queued when, and only when, it became CONSUMED
ConsumedIsResumed ==
    \A b \in Barriers : barrier[b] # "gone" => resumes[b] = IF barrier[b] = "CONSUMED" THEN 1 ELSE 0

\* Only people decide
DecidedByPeople ==
    \A b \in Barriers, s \in Signals : decided[b][s] # "none" => s \in Approvals

BInv ==
    /\ TypeOK
    /\ BusyWithBarrier
    /\ ArmsABarrier
    /\ EndedRunIsIdle
    /\ OnlyOpenBarriersListen
    /\ NotYetCreated
    /\ ConsumedIsResumed
    /\ DecidedByPeople
    /\ RecordedDecisionCounts

\* In the first state nothing was created.
LEMMA InitBInv == Init => BInv
<1> SUFFICES ASSUME Init PROVE BInv
    OBVIOUS
<1>1. TypeOK
    BY InitTypes
<1>2. BusyWithBarrier
    BY DEF Init, BusyWithBarrier
<1>3. ArmsABarrier /\ EndedRunIsIdle
    BY DEF Init, ArmsABarrier, EndedRunIsIdle
<1>4. OnlyOpenBarriersListen /\ NotYetCreated /\ ConsumedIsResumed
    BY DEF Init, OnlyOpenBarriersListen, NotYetCreated, ConsumedIsResumed
<1>5. DecidedByPeople /\ RecordedDecisionCounts
    BY DEF Init, DecidedByPeople, RecordedDecisionCounts, Nothing
<1> QED
    BY <1>1, <1>2, <1>3, <1>4, <1>5 DEF BInv

\* The steps that touch the rows; every other step leaves them, and what people were told, alone.
LEMMA RowSteps ==
    ASSUME [Next]_vars
    PROVE  \/ Create \/ EndRun \/ DeliverUndelivered
           \/ \E h \in Handlers : CloseBarrier(h) \/ ResumeRun(h)
           \/ \E c \in calls : RecordDecision(c) \/ ReceiveSignal(c)
           \/ UNCHANGED <<barrier, signal, summary, timedOut, decided, resumes>>
<1> DEFINE Quiet == UNCHANGED <<barrier, signal, summary, timedOut, decided, resumes>>
<1>1. ScheduleDeadline \/ FirstEvaluation \/ SavePaused \/ StartResume \/ CreateFails => Quiet
    BY DEF ScheduleDeadline, FirstEvaluation, SavePaused, StartResume, CreateFails
<1>2. ASSUME NEW h \in Handlers, \/ ClearEvaluationDedupKey(h) \/ ReadBarrier(h) \/ CountSignals(h)
                                 \/ Finish(h) \/ Crash(h) \/ Stall(h)
      PROVE  Quiet
    BY <1>2 DEF ClearEvaluationDedupKey, ReadBarrier, CountSignals, Finish, Crash, Stall
<1>3. ASSUME NEW b \in Barriers, \/ DeadlineFires(b) \/ SweepOverdue(b) \/ SweepUndelivered(b)
                                 \/ \E e \in Evaluators : TakeEvaluation(e, b)
      PROVE  Quiet
    BY <1>3 DEF DeadlineFires, SweepOverdue, SweepUndelivered, TakeEvaluation
<1>4. \A b \in Barriers, s \in Signals, status \in Settled :
          OpenLink(b, s, status) \/ ChildEnds(b, s, status) => Quiet
    BY DEF OpenLink, ChildEnds
<1>5. \A c \in calls : Wake(c) \/ WakeFails(c) => Quiet
    BY DEF Wake, WakeFails
<1>6. UNCHANGED vars => Quiet
    BY DEF vars
<1> QED
    BY <1>1, <1>2, <1>3, <1>4, <1>5, <1>6
    DEF Next, EngineStep, HandlerStep, BarrierStep, CallStep, Handlers

\* Delivery either changes nothing or consumes a barrier that is neither consumed nor gone.
LEMMA DeliverSteps ==
    ASSUME BarrierTypes, DeliveryTypes, NEW b \in Barriers, Deliver(b)
    PROVE  \/ UNCHANGED <<barrier, resumes>>
           \/ /\ barrier[b] \notin {"CONSUMED", "gone"}
              /\ barrier' = [barrier EXCEPT ![b] = "CONSUMED"]
              /\ resumes' = [resumes EXCEPT ![b] = resumes[b] + 1]
BY DEF Deliver, BarrierTypes, DeliveryTypes

\* The metadata worker delivers a COMPLETED barrier, a handler one that is closed.
LEMMA ClosedIsDelivered ==
    ASSUME TypeOK, BusyWithBarrier, DeliverUndelivered \/ \E h \in Handlers : ResumeRun(h)
    PROVE  \/ UNCHANGED <<barrier, resumes>>
           \/ \E b \in Barriers : /\ barrier[b] = "COMPLETED"
                                  /\ barrier' = [barrier EXCEPT ![b] = "CONSUMED"]
                                  /\ resumes' = [resumes EXCEPT ![b] = resumes[b] + 1]
<1> USE TypeGroups
<1>1. CASE DeliverUndelivered
  <2>1. CASE UNCHANGED <<barrier, resumes>>
      BY <2>1
  <2>2. CASE ~UNCHANGED <<barrier, resumes>>
    <3>1. PICK b \in Barriers : barrier[b] = "COMPLETED" /\ Deliver(b)
        BY <1>1, <2>2 DEF DeliverUndelivered
    <3> QED
        BY <2>2, <3>1, DeliverSteps
  <2> QED
      BY <2>1, <2>2
<1>2. ASSUME NEW h \in Handlers, ResumeRun(h)
      PROVE  \/ UNCHANGED <<barrier, resumes>>
             \/ \E b \in Barriers : /\ barrier[b] = "COMPLETED"
                                    /\ barrier' = [barrier EXCEPT ![b] = "CONSUMED"]
                                    /\ resumes' = [resumes EXCEPT ![b] = resumes[b] + 1]
  <2>1. on[h] \in Barriers /\ barrier[on[h]] \in {"COMPLETED", "CONSUMED", "gone"}
      BY <1>2 DEF ResumeRun, BusyWithBarrier
  <2>2. Deliver(on[h])
      BY <1>2 DEF ResumeRun
  <2> QED
      BY <2>1, <2>2, DeliverSteps
<1> QED
    BY <1>1, <1>2

\* What the steps do to the row of a barrier: it is created, closed, consumed, or gone.
LEMMA RowChanges ==
    ASSUME TypeOK, BusyWithBarrier, [Next]_vars, ~EndRun, NEW b \in Barriers
    PROVE  \/ barrier'[b] = barrier[b]
           \/ Create /\ b = at + 1 /\ barrier'[b] = "PENDING"
           \/ barrier[b] = "PENDING" /\ barrier'[b] = "COMPLETED"
           \/ barrier[b] = "COMPLETED" /\ barrier'[b] = "CONSUMED"
<1> USE TypeGroups
<1>1. CASE Create
    BY <1>1 DEF Create, BarrierTypes
<1>2. CASE DeliverUndelivered \/ \E h \in Handlers : ResumeRun(h)
    BY <1>2, ClosedIsDelivered DEF BarrierTypes
<1>3. ASSUME NEW h \in Handlers, CloseBarrier(h)
      PROVE  \/ barrier'[b] = barrier[b]
             \/ barrier[b] = "PENDING" /\ barrier'[b] = "COMPLETED"
  <2>1. \/ barrier[on[h]] = "PENDING" /\ barrier' = [barrier EXCEPT ![on[h]] = "COMPLETED"]
        \/ barrier' = barrier
      BY <1>3 DEF CloseBarrier
  <2> QED
      BY <2>1 DEF BarrierTypes
<1>4. ASSUME NEW c \in calls, RecordDecision(c) \/ ReceiveSignal(c)
      PROVE  barrier'[b] = barrier[b]
    BY <1>4 DEF RecordDecision, ReceiveSignal
<1> QED
    BY <1>1, <1>2, <1>3, <1>4, RowSteps

\* The barrier a run creates is one of the barriers.
LEMMA NextBarrier ==
    ASSUME TypeOK, at < NBarriers
    PROVE  at + 1 \in Barriers /\ at + 1 > at
<1>1. NBarriers \in Nat
    BY BarrierAssumption
<1>2. at \in 0..NBarriers
    BY TypeGroups DEF RunTypes
<1> QED
    BY <1>1, <1>2 DEF Barriers

\* Only the end of the run takes a barrier back to before it closed, and nothing to before it
\* was created.
LEMMA RowsGoForward ==
    ASSUME BInv, [Next]_vars, NEW b \in Barriers
    PROVE  /\ barrier[b] \in {"COMPLETED", "CONSUMED", "gone"} =>
                  barrier'[b] \in {"COMPLETED", "CONSUMED", "gone"}
           /\ barrier[b] # "none" => barrier'[b] # "none"
<1>1. CASE EndRun
    BY <1>1 DEF EndRun
<1>2. Create => barrier[at + 1] = "none"
    BY NextBarrier DEF Create, BInv, EndedRunIsIdle, NotYetCreated
<1>3. CASE ~EndRun
    BY <1>2, <1>3, RowChanges DEF BInv
<1> QED
    BY <1>1, <1>3

\* Handlers stay with the barrier they took.
LEMMA NextBusy ==
    ASSUME BInv, [Next]_vars
    PROVE  BusyWithBarrier'
<1> SUFFICES ASSUME NEW g \in Handlers, pc'[g] # "idle"
             PROVE  /\ on'[g] \in Barriers
                    /\ pc'[g] = "resume" => barrier'[on'[g]] \in {"COMPLETED", "CONSUMED", "gone"}
                    /\ pc'[g] \in {"count", "close"} => barrier'[on'[g]] # "none"
    BY DEF BusyWithBarrier
<1>0. HandlerTypes /\ BarrierTypes /\ BusyWithBarrier
    BY TypeGroups DEF BInv
<1>1. CASE pc'[g] = pc[g] /\ on'[g] = on[g]
    BY <1>0, <1>1, RowsGoForward DEF BusyWithBarrier
<1>2. ASSUME NEW h \in Handlers,
             \/ ClearEvaluationDedupKey(h) \/ ReadBarrier(h) \/ CountSignals(h)
             \/ CloseBarrier(h) \/ ResumeRun(h)
      PROVE  \/ pc'[g] = pc[g] /\ on'[g] = on[g]
             \/ /\ on'[g] = on[g] /\ pc[g] # "idle"
                /\ pc'[g] = "resume" => barrier'[on[g]] \in {"COMPLETED", "CONSUMED", "gone"}
                /\ pc'[g] \in {"count", "close"} => barrier'[on[g]] # "none"
  <2>1. CASE ClearEvaluationDedupKey(h)
      BY <1>0, <2>1 DEF ClearEvaluationDedupKey, Goto, HandlerTypes
  <2>2. CASE ReadBarrier(h)
      BY <1>0, <2>2 DEF ReadBarrier, Goto, HandlerTypes
  <2>3. CASE CountSignals(h)
      BY <1>0, <2>3 DEF CountSignals, Goto, HandlerTypes, BusyWithBarrier
  <2>4. CASE CloseBarrier(h)
      BY <1>0, <2>4 DEF CloseBarrier, Goto, HandlerTypes, BarrierTypes, BusyWithBarrier
  <2>5. CASE ResumeRun(h)
      BY <1>0, <2>5 DEF ResumeRun, Goto, HandlerTypes
  <2> QED
      BY <1>2, <2>1, <2>2, <2>3, <2>4, <2>5
<1>3. ASSUME NEW h \in Handlers, Finish(h) \/ Crash(h)
      PROVE  pc'[g] = pc[g] /\ on'[g] = on[g]
    BY <1>0, <1>3 DEF Finish, Crash, HandlerTypes
<1>4. ASSUME NEW b \in Barriers, NEW e \in Evaluators, TakeEvaluation(e, b)
      PROVE  \/ pc'[g] = pc[g] /\ on'[g] = on[g]
             \/ on'[g] = b /\ pc'[g] = "clear"
    BY <1>0, <1>4 DEF TakeEvaluation, HandlerTypes, Handlers
<1>5. ASSUME NEW b \in Barriers, DeadlineFires(b)
      PROVE  \/ pc'[g] = pc[g] /\ on'[g] = on[g]
             \/ on'[g] = b /\ pc'[g] = "close" /\ barrier'[b] = "PENDING"
    BY <1>0, <1>5 DEF DeadlineFires, HandlerTypes, Handlers
<1>6. \/ UNCHANGED <<pc, on>>
      \/ \E h \in Handlers : \/ ClearEvaluationDedupKey(h) \/ ReadBarrier(h) \/ CountSignals(h)
                             \/ CloseBarrier(h) \/ ResumeRun(h) \/ Finish(h) \/ Crash(h)
      \/ \E b \in Barriers, e \in Evaluators : TakeEvaluation(e, b)
      \/ \E b \in Barriers : DeadlineFires(b)
  <2>1. ASSUME \/ Create \/ ScheduleDeadline \/ FirstEvaluation \/ SavePaused
               \/ DeliverUndelivered \/ StartResume \/ CreateFails \/ EndRun
        PROVE  UNCHANGED <<pc, on>>
      BY <2>1 DEF Create, ScheduleDeadline, FirstEvaluation, SavePaused, DeliverUndelivered,
             StartResume, CreateFails, EndRun
  <2>2. \A e \in Evaluators : Stall(e) => UNCHANGED <<pc, on>>
      BY DEF Stall
  <2>3. \A b \in Barriers : SweepOverdue(b) \/ SweepUndelivered(b) => UNCHANGED <<pc, on>>
      BY DEF SweepOverdue, SweepUndelivered
  <2>4. \A b \in Barriers, s \in Signals, status \in Settled :
            OpenLink(b, s, status) \/ ChildEnds(b, s, status) => UNCHANGED <<pc, on>>
      BY DEF OpenLink, ChildEnds
  <2>5. \A c \in calls : RecordDecision(c) \/ ReceiveSignal(c) \/ Wake(c) \/ WakeFails(c)
            => UNCHANGED <<pc, on>>
      BY DEF RecordDecision, ReceiveSignal, Wake, WakeFails
  <2>6. UNCHANGED vars => UNCHANGED <<pc, on>>
      BY DEF vars
  <2> QED
      BY <2>1, <2>2, <2>3, <2>4, <2>5, <2>6 DEF Next, EngineStep, HandlerStep, BarrierStep, CallStep
<1> QED
    BY <1>0, <1>1, <1>2, <1>3, <1>4, <1>5, <1>6, RowsGoForward DEF BusyWithBarrier

\* The steps that move the run or its engine; every other step leaves them alone.
LEMMA RunSteps ==
    ASSUME [Next]_vars
    PROVE  \/ Create \/ ScheduleDeadline \/ FirstEvaluation \/ SavePaused \/ StartResume
           \/ CreateFails \/ EndRun
           \/ UNCHANGED <<run, engine, at>>
<1>1. DeliverUndelivered => UNCHANGED <<run, engine, at>>
    BY DEF DeliverUndelivered
<1>2. ASSUME NEW h \in Handlers, HandlerStep(h) \/ Crash(h)
      PROVE  UNCHANGED <<run, engine, at>>
    BY <1>2 DEF HandlerStep, ClearEvaluationDedupKey, ReadBarrier, CountSignals, CloseBarrier,
                ResumeRun, Finish, Crash
<1>3. ASSUME NEW e \in Evaluators, Stall(e)
      PROVE  UNCHANGED <<run, engine, at>>
    BY <1>3 DEF Stall
<1>4. ASSUME NEW b \in Barriers, BarrierStep(b)
      PROVE  UNCHANGED <<run, engine, at>>
    BY <1>4 DEF BarrierStep, DeadlineFires, SweepOverdue, SweepUndelivered, TakeEvaluation
<1>5. \A b \in Barriers, s \in Signals, status \in Settled :
          OpenLink(b, s, status) \/ ChildEnds(b, s, status) => UNCHANGED <<run, engine, at>>
    BY DEF OpenLink, ChildEnds
<1>6. \A c \in calls : CallStep(c) \/ WakeFails(c) => UNCHANGED <<run, engine, at>>
    BY DEF CallStep, RecordDecision, ReceiveSignal, Wake, WakeFails
<1>7. UNCHANGED vars => UNCHANGED <<run, engine, at>>
    BY DEF vars
<1> QED
    BY <1>1, <1>2, <1>3, <1>4, <1>5, <1>6, <1>7 DEF Next, EngineStep

\* A deadline is scheduled for the barrier that was created last, and an ended run stays ended.
LEMMA NextEngine ==
    ASSUME BInv, [Next]_vars
    PROVE  ArmsABarrier' /\ EndedRunIsIdle'
<1> USE DEF BInv, ArmsABarrier, EndedRunIsIdle
<1>1. CASE Create
    BY <1>1, NextBarrier DEF Create
<1>2. CASE ScheduleDeadline \/ FirstEvaluation \/ CreateFails
    BY <1>2 DEF ScheduleDeadline, FirstEvaluation, CreateFails
<1>3. CASE SavePaused \/ StartResume \/ EndRun
    BY <1>3 DEF SavePaused, StartResume, EndRun
<1>4. CASE UNCHANGED <<run, engine, at>>
    BY <1>4
<1> QED
    BY <1>1, <1>2, <1>3, <1>4, RunSteps

\* A handler or a call touches only what was created.
LEMMA NextNotYet ==
    ASSUME BInv, [Next]_vars
    PROVE  NotYetCreated'
<1> USE TypeGroups DEF BInv
<1> SUFFICES ASSUME run' # "ENDED", NEW b \in Barriers, b > at'
             PROVE  barrier'[b] = "none" /\ resumes'[b] = 0 /\ decided'[b] = Nothing
    BY DEF NotYetCreated
<1>1. run # "ENDED" /\ at \in Int /\ (at' = at \/ (Create /\ at' = at + 1))
  <2>1. at \in Int
      BY BarrierAssumption DEF RunTypes
  <2>2. run # "ENDED"
      BY RunSteps DEF Create, ScheduleDeadline, FirstEvaluation, SavePaused, StartResume,
                      CreateFails, EndRun, EndedRunIsIdle
  <2>3. at' = at \/ (Create /\ at' = at + 1)
      BY RunSteps DEF Create, ScheduleDeadline, FirstEvaluation, SavePaused, StartResume,
                      CreateFails, EndRun
  <2> QED
      BY <2>1, <2>2, <2>3
<1>2. barrier[b] = "none" /\ resumes[b] = 0 /\ decided[b] = Nothing
    BY <1>1 DEF NotYetCreated, Barriers
<1>3. CASE Create
    BY <1>2, <1>3 DEF Create, BarrierTypes, Barriers
<1>4. CASE DeliverUndelivered \/ \E h \in Handlers : ResumeRun(h)
  <2>1. decided' = decided
      BY <1>4 DEF DeliverUndelivered, ResumeRun
  <2> QED
      BY <1>2, <1>4, <2>1, ClosedIsDelivered DEF BarrierTypes, DeliveryTypes
<1>5. ASSUME NEW h \in Handlers, CloseBarrier(h)
      PROVE  barrier'[b] = "none" /\ UNCHANGED <<resumes, decided>>
    BY <1>2, <1>5 DEF CloseBarrier, BarrierTypes
<1>6. ASSUME NEW c \in calls, RecordDecision(c) \/ ReceiveSignal(c)
      PROVE  UNCHANGED <<barrier, resumes>> /\ decided'[b] = decided[b]
    BY <1>2, <1>6 DEF RecordDecision, ReceiveSignal, Told, DecisionTypes
<1>7. CASE EndRun
    BY <1>7 DEF EndRun
<1> QED
    BY <1>2, <1>3, <1>4, <1>5, <1>6, <1>7, RowSteps

\* The signals of a barrier that is not open stay deleted.
LEMMA NextListen ==
    ASSUME BInv, [Next]_vars
    PROVE  OnlyOpenBarriersListen'
<1> USE TypeGroups DEF BInv
<1> SUFFICES ASSUME NEW b \in Barriers, barrier'[b] # "PENDING"
             PROVE  signal'[b] = Nothing
    BY DEF OnlyOpenBarriersListen
<1>1. CASE Create
    BY <1>1 DEF Create, BarrierTypes, SignalTypes, OnlyOpenBarriersListen
<1>2. CASE EndRun
    BY <1>2 DEF EndRun
<1>3. CASE DeliverUndelivered \/ \E h \in Handlers : ResumeRun(h)
  <2>1. signal' = signal
      BY <1>3 DEF DeliverUndelivered, ResumeRun
  <2>2. barrier[b] # "PENDING"
      BY <1>3, ClosedIsDelivered DEF BarrierTypes
  <2> QED
      BY <2>1, <2>2 DEF OnlyOpenBarriersListen
<1>4. ASSUME NEW h \in Handlers, CloseBarrier(h)
      PROVE  signal'[b] = Nothing
    BY <1>4 DEF CloseBarrier, BarrierTypes, SignalTypes, OnlyOpenBarriersListen
<1>5. ASSUME NEW c \in calls, RecordDecision(c)
      PROVE  signal'[b] = Nothing
    BY <1>5 DEF RecordDecision, SetSignal, SignalTypes, OnlyOpenBarriersListen
<1>6. ASSUME NEW c \in calls, ReceiveSignal(c)
      PROVE  signal'[b] = Nothing
  <2>1. barrier[b] # "PENDING" /\ signal[b] = Nothing
      BY <1>6 DEF ReceiveSignal, OnlyOpenBarriersListen
  <2>2. c.barrier \in Barriers /\ c.signal \in Signals
      BY DEF CallTypes, Call
  <2>3. c.barrier = b => signal' = signal
      BY <1>6, <2>1, <2>2 DEF ReceiveSignal, Nothing
  <2> QED
      BY <1>6, <2>1, <2>2, <2>3 DEF ReceiveSignal, SetSignal, SignalTypes
<1> QED
    BY <1>1, <1>2, <1>3, <1>4, <1>5, <1>6, RowSteps DEF OnlyOpenBarriersListen

\* A resume job is queued only by the step that consumes the barrier.
LEMMA NextConsumed ==
    ASSUME BInv, [Next]_vars
    PROVE  ConsumedIsResumed'
<1> USE TypeGroups DEF BInv
<1> SUFFICES ASSUME NEW b \in Barriers, barrier'[b] # "gone"
             PROVE  resumes'[b] = IF barrier'[b] = "CONSUMED" THEN 1 ELSE 0
    BY DEF ConsumedIsResumed
<1>1. CASE Create
    BY <1>1, NextBarrier DEF Create, BarrierTypes, DeliveryTypes, ConsumedIsResumed, NotYetCreated,
                EndedRunIsIdle
<1>2. CASE EndRun
    BY <1>2 DEF EndRun
<1>3. CASE DeliverUndelivered \/ \E h \in Handlers : ResumeRun(h)
    BY <1>3, ClosedIsDelivered DEF BarrierTypes, DeliveryTypes, ConsumedIsResumed
<1>4. ASSUME NEW h \in Handlers, CloseBarrier(h)
      PROVE  resumes'[b] = IF barrier'[b] = "CONSUMED" THEN 1 ELSE 0
    BY <1>4 DEF CloseBarrier, BarrierTypes, ConsumedIsResumed
<1>5. ASSUME NEW c \in calls, RecordDecision(c) \/ ReceiveSignal(c)
      PROVE  UNCHANGED <<barrier, resumes>>
    BY <1>5 DEF RecordDecision, ReceiveSignal
<1> QED
    BY <1>1, <1>2, <1>3, <1>4, <1>5, RowSteps DEF ConsumedIsResumed

\* Where a decision is recorded the signal was undecided, and it is closed with what is recorded.
LEMMA NextDecided ==
    ASSUME BInv, [Next]_vars
    PROVE  DecidedByPeople' /\ RecordedDecisionCounts'
<1> USE TypeGroups DEF BInv
<1> DEFINE Kept(b, s) == decided'[b][s] # "none" =>
               /\ s \in Approvals
               /\ barrier'[b] = "PENDING" => signal'[b][s] = decided'[b][s]
               /\ barrier'[b] \in {"COMPLETED", "CONSUMED"} => summary'[b][s] = decided'[b][s]
<1> SUFFICES ASSUME NEW b \in Barriers, NEW s \in Signals
             PROVE  Kept(b, s)
    BY DEF DecidedByPeople, RecordedDecisionCounts, Closed
<1> USE DEF DecidedByPeople, RecordedDecisionCounts, Closed
<1>1. CASE Create
  <2>1. decided' = decided /\ decided[at + 1] = Nothing
      BY <1>1, NextBarrier DEF Create, NotYetCreated, EndedRunIsIdle
  <2>2. CASE b = at + 1
      BY <2>1, <2>2 DEF Nothing
  <2>3. CASE b # at + 1
      BY <1>1, <2>1, <2>3 DEF Create, BarrierTypes, SignalTypes
  <2> QED
      BY <2>2, <2>3
<1>2. CASE EndRun
    BY <1>2 DEF EndRun
<1>3. CASE DeliverUndelivered \/ \E h \in Handlers : ResumeRun(h)
  <2>1. UNCHANGED <<signal, summary, decided>>
      BY <1>3 DEF DeliverUndelivered, ResumeRun
  <2> QED
      BY <1>3, <2>1, ClosedIsDelivered DEF BarrierTypes
<1>4. ASSUME NEW h \in Handlers, CloseBarrier(h)
      PROVE  Kept(b, s)
    BY <1>4 DEF CloseBarrier, BarrierTypes, SignalTypes, SummaryTypes
<1>5. ASSUME NEW c \in calls, RecordDecision(c)
      PROVE  Kept(b, s)
  <2>1. c.barrier \in Barriers /\ c.signal \in Approvals
      BY <1>5 DEF RecordDecision, CallTypes, Call
  <2>2. CASE UNCHANGED <<signal, decided>>
      BY <1>5, <2>2 DEF RecordDecision
  <2>3. CASE ~UNCHANGED <<signal, decided>>
    <3>1. barrier[c.barrier] = "PENDING" /\ signal[c.barrier][c.signal] = "PENDING"
        BY <1>5, <2>3 DEF RecordDecision
    <3>2. decided[c.barrier][c.signal] = "none"
        BY <2>1, <3>1 DEF DecisionTypes, Settled, Signals
    <3>3. signal' = [signal EXCEPT ![c.barrier][c.signal] = c.status]
        BY <1>5, <2>3 DEF RecordDecision, SetSignal
    <3>4. decided' = [decided EXCEPT ![c.barrier][c.signal] = c.status]
        BY <1>5, <2>1, <2>3, <3>2 DEF RecordDecision, Told, DecisionTypes, Signals
    <3>5. UNCHANGED <<barrier, summary>>
        BY <1>5 DEF RecordDecision
    <3> QED
        BY <2>1, <3>1, <3>3, <3>4, <3>5 DEF DecisionTypes, SignalTypes, Signals
  <2> QED
      BY <2>2, <2>3
<1>6. ASSUME NEW c \in calls, ReceiveSignal(c)
      PROVE  Kept(b, s)
  <2>1. c.barrier \in Barriers /\ c.signal \in Children /\ UNCHANGED <<barrier, summary, decided>>
      BY <1>6 DEF ReceiveSignal, CallTypes, Call
  <2>2. s \in Approvals => signal'[b][s] = signal[b][s]
      BY <1>6, <2>1, BarrierAssumption DEF ReceiveSignal, SetSignal, SignalTypes
  <2> QED
      BY <2>1, <2>2
<1> QED
    BY <1>1, <1>2, <1>3, <1>4, <1>5, <1>6, RowSteps

\* The bookkeeping is inductive.
LEMMA NextBInv == BInv /\ [Next]_vars => BInv'
BY NextTypes, NextBusy, NextEngine, NextNotYet, NextListen, NextConsumed, NextDecided DEF BInv

\* The invariant of every behaviour.
LEMMA SpecBInv == Spec => []BInv
BY InitBInv, NextBInv, PTL DEF Spec

\* Every variable keeps its type, whatever fails.
THEOREM TypeCorrect == Spec => []TypeOK
<1>1. BInv => TypeOK
    BY DEF BInv
<1> QED
    BY <1>1, SpecBInv, PTL

\* A decision that a person was told is recorded is never changed and never dropped from the
\* summary, for every number of approvers and evaluations at once.
THEOREM DecisionsCount == Spec => []RecordedDecisionCounts
<1>1. BInv => RecordedDecisionCounts
    BY DEF BInv
<1> QED
    BY <1>1, SpecBInv, PTL

(***************************************************************************)
(* Refinement of BarrierPromise.                                           *)
(***************************************************************************)
\* A barrier looks the same as long as its row does.
LEMMA LooksTheSame ==
    ASSUME NEW b \in Barriers, barrier'[b] = barrier[b], signal'[b] = signal[b],
           summary'[b] = summary[b], resumes'[b] = resumes[b]
    PROVE  Phase'[b] = Phase[b] /\ Says'[b] = Says[b]
BY DEF Phase, Says, Closed

\* Creating, ending, closing, resuming and hearing are steps of the promise.
LEMMA CreateOpens ==
    ASSUME BInv, Create
    PROVE  Promise!Open(at + 1)
<1> USE TypeGroups DEF BInv
<1> DEFINE n == at + 1
<1>1. n \in Barriers /\ barrier[n] = "none"
    BY NextBarrier DEF Create, NotYetCreated, EndedRunIsIdle
<1>2. PICK asked \in SUBSET Signals :
          signal' = [signal EXCEPT ![n] = [s \in Signals |-> IF s \in asked THEN "PENDING" ELSE "none"]]
    BY BarrierAssumption DEF Create
<1>3. barrier' = [barrier EXCEPT ![n] = "PENDING"] /\ UNCHANGED <<summary, resumes>>
    BY DEF Create
<1> HIDE DEF n
<1>4. \A b \in Barriers : b # n => Phase'[b] = Phase[b] /\ Says'[b] = Says[b]
    BY <1>2, <1>3, LooksTheSame DEF BarrierTypes, SignalTypes
<1>5. /\ Phase[n] = "none" /\ Phase'[n] = "open"
      /\ Says'[n] = [s \in Signals |-> IF s \in asked THEN "PENDING" ELSE "none"]
    BY <1>1, <1>2, <1>3 DEF BarrierTypes, SignalTypes, Phase, Says
<1>6. Phase' = [Phase EXCEPT ![n] = "open"]
    BY <1>1, <1>4, <1>5 DEF Phase
<1>7. Says' = [Says EXCEPT ![n] = [s \in Signals |-> IF s \in asked THEN "PENDING" ELSE "none"]]
    BY <1>1, <1>4, <1>5 DEF Says
<1> QED
    BY <1>5, <1>6, <1>7 DEF Promise!Open, n

\* The end of the run is a Discard of the promise.
LEMMA EndDiscards ==
    ASSUME EndRun
    PROVE  Promise!Discard
BY DEF EndRun, Promise!Discard, Phase, Says, Closed, Nothing

\* A close that changes a row is a Close of the promise.
LEMMA CloseCloses ==
    ASSUME BInv, NEW h \in Handlers, CloseBarrier(h)
    PROVE  Promise!Close(on[h]) \/ UNCHANGED <<Phase, Says>>
<1> USE TypeGroups DEF BInv
<1> DEFINE n == on[h]
<1>1. n \in Barriers
    BY DEF CloseBarrier, BusyWithBarrier
<1>2. CASE barrier[n] # "PENDING"
    BY <1>2 DEF CloseBarrier, Phase, Says, Closed
<1>3. CASE barrier[n] = "PENDING"
  <2>1. /\ barrier' = [barrier EXCEPT ![n] = "COMPLETED"]
        /\ summary' = [summary EXCEPT ![n] = signal[n]]
        /\ signal' = [signal EXCEPT ![n] = Nothing]
        /\ resumes' = resumes
      BY <1>3 DEF CloseBarrier
  <2> HIDE DEF n
  <2>2. \A b \in Barriers : b # n => Phase'[b] = Phase[b] /\ Says'[b] = Says[b]
      BY <2>1, LooksTheSame DEF BarrierTypes, SignalTypes, SummaryTypes
  <2>3. Phase[n] = "open" /\ Phase'[n] = "closed" /\ Says'[n] = Says[n]
      BY <1>1, <1>3, <2>1 DEF BarrierTypes, SummaryTypes, Phase, Says, Closed
  <2>4. Phase' = [Phase EXCEPT ![n] = "closed"]
      BY <1>1, <2>2, <2>3 DEF Phase
  <2>5. Says' = Says
      BY <2>2, <2>3 DEF Says
  <2> QED
      BY <2>3, <2>4, <2>5 DEF Promise!Close, n
<1> QED
    BY <1>2, <1>3

\* A delivery is a Resume of the promise, or changes nothing it sees.
LEMMA DeliveryResumes ==
    ASSUME BInv, DeliverUndelivered \/ \E h \in Handlers : ResumeRun(h)
    PROVE  (\E b \in Barriers : Promise!Resume(b)) \/ UNCHANGED <<Phase, Says>>
<1> USE TypeGroups DEF BInv
<1>1. UNCHANGED <<signal, summary>>
    BY DEF DeliverUndelivered, ResumeRun
<1>2. CASE UNCHANGED <<barrier, resumes>>
    BY <1>1, <1>2 DEF Phase, Says, Closed
<1>3. ASSUME NEW n \in Barriers, barrier[n] = "COMPLETED",
             barrier' = [barrier EXCEPT ![n] = "CONSUMED"],
             resumes' = [resumes EXCEPT ![n] = resumes[n] + 1]
      PROVE  Promise!Resume(n)
  <2>1. \A b \in Barriers : b # n => Phase'[b] = Phase[b] /\ Says'[b] = Says[b]
      BY <1>1, <1>3, LooksTheSame DEF BarrierTypes, DeliveryTypes
  <2>2. resumes'[n] = 1
      BY <1>3 DEF ConsumedIsResumed, DeliveryTypes
  <2>3. Phase[n] = "closed" /\ Phase'[n] = "resumed" /\ Says'[n] = Says[n]
      BY <1>1, <1>3, <2>2 DEF BarrierTypes, Phase, Says, Closed
  <2>4. Phase' = [Phase EXCEPT ![n] = "resumed"]
      BY <2>1, <2>3 DEF Phase
  <2>5. Says' = Says
      BY <2>1, <2>3 DEF Says
  <2> QED
      BY <2>3, <2>4, <2>5 DEF Promise!Resume
<1> QED
    BY <1>2, <1>3, ClosedIsDelivered

\* A decision or a report that is written is a Hear of the promise.
LEMMA WriteIsHeard ==
    ASSUME BInv, NEW c \in calls, RecordDecision(c) \/ ReceiveSignal(c)
    PROVE  (\E b \in Barriers, s \in Signals : Promise!Hear(b, s)) \/ UNCHANGED <<Phase, Says>>
<1> USE TypeGroups DEF BInv
<1> DEFINE n == c.barrier
           t == c.signal
<1>1. n \in Barriers /\ t \in Signals /\ c.status \in Settled
    BY DEF CallTypes, Call
<1>2. UNCHANGED <<barrier, summary, resumes>>
    BY DEF RecordDecision, ReceiveSignal
<1>3. CASE signal' = signal
    BY <1>2, <1>3 DEF Phase, Says, Closed
<1>4. CASE signal' # signal
  <2>1. signal' = [signal EXCEPT ![n][t] = c.status]
      BY <1>4 DEF RecordDecision, ReceiveSignal, SetSignal
  <2>2. signal[n][t] = "PENDING" \/ (signal[n][t] # "none" /\ t \notin Approvals)
      BY <1>4, BarrierAssumption DEF RecordDecision, ReceiveSignal
  <2>3. barrier[n] = "PENDING"
      BY <1>1, <2>2 DEF OnlyOpenBarriersListen, Nothing
  <2> HIDE DEF n, t
  <2>4. Phase' = Phase
      BY <1>2 DEF Phase
  <2>5. Phase[n] = "open" /\ Says[n] = signal[n]
      BY <1>1, <2>3 DEF Phase, Says
  <2>6. Says' = [Says EXCEPT ![n][t] = c.status]
    <3>1. \A b \in Barriers : b # n => Says'[b] = Says[b]
        BY <1>2, <2>1, LooksTheSame DEF SignalTypes
    <3>2. Says'[n] = [Says[n] EXCEPT ![t] = c.status]
        BY <1>1, <1>2, <2>1, <2>3, <2>5 DEF SignalTypes, Says
    <3> QED
        BY <1>1, <3>1, <3>2 DEF Says
  <2> QED
      BY <1>1, <2>2, <2>4, <2>5, <2>6 DEF Promise!Hear
<1> QED
    BY <1>3, <1>4

\* Every barrier listens while it is open, closes once with what it has heard, and resumes its
\* run at most once with that, for every number of barriers, evaluations and signals and
\* whatever faults come together.
THEOREM Implements == Spec => KeepsPromise
<1>1. Init => Promise!Init
    BY DEF Init, Promise!Init, Phase, Says, Closed, Nothing
<1>2. BInv /\ [Next]_vars => [Promise!Next]_(Promise!vars)
  <2> SUFFICES ASSUME BInv, [Next]_vars
               PROVE  Promise!Next \/ UNCHANGED <<Phase, Says>>
      BY DEF Promise!vars
  <2>1. CASE Create
      BY <2>1, CreateOpens, NextBarrier DEF Create, BInv, Promise!Next
  <2>2. CASE EndRun
      BY <2>2, EndDiscards DEF Promise!Next
  <2>3. CASE DeliverUndelivered \/ \E h \in Handlers : ResumeRun(h)
      BY <2>3, DeliveryResumes DEF Promise!Next
  <2>4. ASSUME NEW h \in Handlers, CloseBarrier(h)
        PROVE  Promise!Next \/ UNCHANGED <<Phase, Says>>
    <3>1. on[h] \in Barriers
        BY <2>4 DEF CloseBarrier, BInv, BusyWithBarrier
    <3> QED
        BY <2>4, <3>1, CloseCloses DEF Promise!Next
  <2>5. ASSUME NEW c \in calls, RecordDecision(c) \/ ReceiveSignal(c)
        PROVE  Promise!Next \/ UNCHANGED <<Phase, Says>>
      BY <2>5, WriteIsHeard DEF Promise!Next
  <2>6. CASE UNCHANGED <<barrier, signal, summary, timedOut, decided, resumes>>
      BY <2>6 DEF Phase, Says, Closed
  <2> QED
      BY <2>1, <2>2, <2>3, <2>4, <2>5, <2>6, RowSteps
<1> QED
    BY <1>1, <1>2, SpecBInv, PTL DEF Spec, KeepsPromise, Promise!Spec

(***************************************************************************)
(* No signal is lost between the deduplicated evaluations.                 *)
(***************************************************************************)
\* An evaluation owns the key of its barrier only until it clears it
OwnerIsAtClear ==
    \A b \in Barriers, e \in Evaluators : key[b] = e => on[e] = b /\ pc[e] = "clear"

Looking == {"clear", "read", "count", "close"}

EInv == BInv /\ OwnerIsAtClear /\ ReadyBarrierIsEvaluated

\* A barrier is as ready as it was while its signals stay the same.
LEMMA SameReadiness ==
    ASSUME policy' = policy, NEW b \in Barriers, signal'[b] = signal[b]
    PROVE  ShouldRelease(signal[b])' <=> ShouldRelease(signal[b])
BY DEF ShouldRelease, CountOf

\* The policy is fixed.
LEMMA SamePolicy == [Next]_vars => policy' = policy
<1> SUFFICES ASSUME [Next]_vars PROVE policy' = policy
    OBVIOUS
<1>1. EngineStep \/ CreateFails \/ EndRun => policy' = policy
    BY DEF EngineStep, Create, ScheduleDeadline, FirstEvaluation, SavePaused, DeliverUndelivered,
           StartResume, CreateFails, EndRun
<1>2. \A h \in Handlers : HandlerStep(h) \/ Crash(h) => policy' = policy
    BY DEF HandlerStep, ClearEvaluationDedupKey, ReadBarrier, CountSignals, CloseBarrier, ResumeRun,
           Finish, Crash
<1>3. \A b \in Barriers : BarrierStep(b) => policy' = policy
    BY DEF BarrierStep, DeadlineFires, SweepOverdue, SweepUndelivered, TakeEvaluation
<1>4. \A e \in Evaluators : Stall(e) => policy' = policy
    BY DEF Stall
<1>5. \A b \in Barriers, s \in Signals, status \in Settled :
          OpenLink(b, s, status) \/ ChildEnds(b, s, status) => policy' = policy
    BY DEF OpenLink, ChildEnds
<1>6. \A c \in calls : CallStep(c) \/ WakeFails(c) => policy' = policy
    BY DEF CallStep, RecordDecision, ReceiveSignal, Wake, WakeFails
<1> QED
    BY <1>1, <1>2, <1>3, <1>4, <1>5, <1>6 DEF Next, vars

\* A key that is taken wakes somebody.
LEMMA TakenKeyWakes ==
    ASSUME EInv, NEW b \in Barriers, EnqueueEvaluation(b), UNCHANGED <<pc, on>>
    PROVE  WillBeEvaluated(b)'
<1>1. key'[b] # "free" /\ key'[b] \in {"free", "waiting"} \cup Evaluators
    BY TypeGroups, BarrierAssumption DEF EInv, BInv, EnqueueEvaluation, QueueTypes, Handlers
<1>2. CASE key'[b] = "waiting"
    BY <1>2 DEF WillBeEvaluated
<1>3. ASSUME NEW e \in Evaluators, key'[b] = e
      PROVE  WillBeEvaluated(b)'
  <2>1. key[b] = e
      BY <1>3, TypeGroups, BarrierAssumption DEF EInv, BInv, EnqueueEvaluation, QueueTypes, Handlers
  <2> QED
      BY <2>1 DEF EInv, OwnerIsAtClear, WillBeEvaluated
<1> QED
    BY <1>1, <1>2, <1>3

\* The steps that change the queue or move a handler; every other step leaves them alone.
LEMMA QueueSteps ==
    ASSUME [Next]_vars
    PROVE  \/ FirstEvaluation
           \/ \E h \in Handlers : HandlerStep(h) \/ Crash(h)
           \/ \E e \in Evaluators : Stall(e)
           \/ \E b \in Barriers : SweepUndelivered(b) \/ DeadlineFires(b)
           \/ \E b \in Barriers, e \in Evaluators : TakeEvaluation(e, b)
           \/ \E c \in calls : Wake(c)
           \/ UNCHANGED <<key, extra, pc, on>>
<1> DEFINE Quiet == UNCHANGED <<key, extra, pc, on>>
<1>1. ASSUME \/ Create \/ ScheduleDeadline \/ SavePaused \/ DeliverUndelivered \/ StartResume
             \/ CreateFails \/ EndRun
      PROVE  Quiet
    BY <1>1 DEF Create, ScheduleDeadline, SavePaused, DeliverUndelivered, StartResume, CreateFails,
                EndRun
<1>2. \A b \in Barriers : SweepOverdue(b) => Quiet
    BY DEF SweepOverdue
<1>3. \A b \in Barriers, s \in Signals, status \in Settled :
          OpenLink(b, s, status) \/ ChildEnds(b, s, status) => Quiet
    BY DEF OpenLink, ChildEnds
<1>4. \A c \in calls : RecordDecision(c) \/ ReceiveSignal(c) \/ WakeFails(c) => Quiet
    BY DEF RecordDecision, ReceiveSignal, WakeFails
<1>5. UNCHANGED vars => Quiet
    BY DEF vars
<1> QED
    BY <1>1, <1>2, <1>3, <1>4, <1>5 DEF Next, EngineStep, BarrierStep, CallStep

\* An enqueue gives the key to nobody, and everything else that is queued stays.
LEMMA EnqueueKeeps ==
    ASSUME QueueTypes, NEW b \in Barriers, EnqueueEvaluation(b), NEW a \in Barriers
    PROVE  /\ \A e \in Evaluators : key'[a] = e => key[a] = e
           /\ key[a] = "waiting" => key'[a] = "waiting"
           /\ extra' = extra
BY BarrierAssumption DEF EnqueueEvaluation, QueueTypes, Handlers

\* What runs again is waiting, what waited still waits, and nobody gets the key.
LEMMA RunAgainKeeps ==
    ASSUME QueueTypes, NEW x \in Evaluators, on[x] \in Barriers, RunAgain(x), NEW a \in Barriers
    PROVE  /\ \A e \in Evaluators : key'[a] = e => key[a] = e /\ (a = on[x] => e # x)
           /\ key[a] = "waiting" => key'[a] = "waiting"
           /\ extra[a] > 0 => extra'[a] > 0
           /\ a = on[x] => key'[a] = "waiting" \/ extra'[a] > 0
<1>1. CASE key[on[x]] = x
    BY <1>1, BarrierAssumption DEF RunAgain, QueueTypes, Handlers
<1>2. CASE key[on[x]] # x
    BY <1>2 DEF RunAgain, QueueTypes
<1> QED
    BY <1>1, <1>2

\* Where a step of a handler takes it.
LEMMA HandlerMoves ==
    ASSUME HandlerTypes, BusyWithBarrier, NEW h \in Handlers, HandlerStep(h)
    PROVE  /\ \A g \in Handlers : g # h => pc'[g] = pc[g] /\ on'[g] = on[g]
           /\ pc[h] # "idle" /\ on[h] \in Barriers /\ pc'[h] # "clear"
BY DEF HandlerStep, ClearEvaluationDedupKey, ReadBarrier, CountSignals, CloseBarrier, ResumeRun,
       Finish, Goto, HandlerTypes, BusyWithBarrier

\* Only ClearEvaluationDedupKey and Finish touch the queue.
LEMMA HandlerQueue ==
    ASSUME NEW h \in Handlers, HandlerStep(h)
    PROVE  ClearEvaluationDedupKey(h) \/ Finish(h) \/ (pc[h] # "clear" /\ UNCHANGED <<key, extra>>)
BY DEF HandlerStep, ReadBarrier, CountSignals, CloseBarrier, ResumeRun

\* The key is owned by nobody who is past the clear.
LEMMA NextOwner ==
    ASSUME EInv, [Next]_vars
    PROVE  OwnerIsAtClear'
<1> USE TypeGroups, BarrierAssumption DEF EInv, BInv
<1> SUFFICES ASSUME NEW a \in Barriers, NEW e \in Evaluators, key'[a] = e
             PROVE  on'[e] = a /\ pc'[e] = "clear"
    BY DEF OwnerIsAtClear
<1>1. CASE FirstEvaluation
  <2>1. at \in Barriers /\ EnqueueEvaluation(at) /\ UNCHANGED <<pc, on>>
      BY <1>1 DEF FirstEvaluation, ArmsABarrier
  <2> QED
      BY <2>1, EnqueueKeeps DEF OwnerIsAtClear
<1>2. ASSUME NEW h \in Handlers, HandlerStep(h)
      PROVE  on'[e] = a /\ pc'[e] = "clear"
  <2>1. CASE ClearEvaluationDedupKey(h)
    <3>1. pc[h] = "clear" /\ on[h] \in Barriers /\ key' = [key EXCEPT ![on[h]] = "free"]
        BY <2>1 DEF ClearEvaluationDedupKey, BusyWithBarrier
    <3>2. a # on[h] /\ key[a] = e
        BY <3>1 DEF QueueTypes, Handlers
    <3>3. on[e] = a /\ pc[e] = "clear" /\ e # h
        BY <3>2 DEF OwnerIsAtClear
    <3> QED
        BY <1>2, <3>3, HandlerMoves DEF Handlers
  <2>2. CASE Finish(h)
    <3>1. key[a] = e /\ e # h
        BY <2>2 DEF Finish, QueueTypes, Handlers
    <3> QED
        BY <1>2, <3>1, HandlerMoves DEF OwnerIsAtClear, Handlers
  <2>3. CASE pc[h] # "clear" /\ UNCHANGED <<key, extra>>
    <3>1. on[e] = a /\ pc[e] = "clear" /\ e # h
        BY <2>3 DEF OwnerIsAtClear
    <3> QED
        BY <1>2, <3>1, HandlerMoves DEF Handlers
  <2> QED
      BY <1>2, <2>1, <2>2, <2>3, HandlerQueue
<1>3. ASSUME NEW h \in Handlers, Crash(h)
      PROVE  on'[e] = a /\ pc'[e] = "clear"
  <2>0. on[h] \in Barriers
      BY <1>3 DEF Crash, BusyWithBarrier
  <2>1. key[a] = e /\ e # h
    <3>1. CASE h = Deadline /\ UNCHANGED queueVars
        BY <3>1
    <3>2. CASE h \in Evaluators /\ RunAgain(h)
      <4>1. key[a] = e /\ (a = on[h] => e # h)
          BY <2>0, <3>2, RunAgainKeeps
      <4> QED
          BY <4>1 DEF OwnerIsAtClear
    <3> QED
        BY <1>3, <3>1, <3>2 DEF Crash
  <2>2. on[e] = a /\ pc[e] = "clear"
      BY <2>1 DEF OwnerIsAtClear
  <2> QED
      BY <1>3, <2>1, <2>2 DEF Crash, HandlerTypes, Handlers
<1>4. ASSUME NEW x \in Evaluators, Stall(x)
      PROVE  on'[e] = a /\ pc'[e] = "clear"
  <2>1. on[x] \in Barriers /\ RunAgain(x) /\ UNCHANGED <<pc, on>>
      BY <1>4 DEF Stall, BusyWithBarrier, Handlers
  <2> QED
      BY <2>1, RunAgainKeeps DEF OwnerIsAtClear
<1>5. ASSUME NEW b \in Barriers, SweepUndelivered(b)
      PROVE  on'[e] = a /\ pc'[e] = "clear"
    BY <1>5, EnqueueKeeps DEF SweepUndelivered, OwnerIsAtClear
<1>6. ASSUME NEW b \in Barriers, DeadlineFires(b)
      PROVE  on'[e] = a /\ pc'[e] = "clear"
  <2>1. on[e] = a /\ pc[e] = "clear" /\ e # Deadline
      BY <1>6 DEF DeadlineFires, OwnerIsAtClear
  <2> QED
      BY <1>6, <2>1 DEF DeadlineFires, HandlerTypes, Handlers
<1>7. ASSUME NEW b \in Barriers, NEW x \in Evaluators, TakeEvaluation(x, b)
      PROVE  on'[e] = a /\ pc'[e] = "clear"
  <2>1. CASE key[a] = e
    <3>1. on[e] = a /\ pc[e] = "clear" /\ e # x
        BY <1>7, <2>1 DEF TakeEvaluation, OwnerIsAtClear
    <3> QED
        BY <1>7, <3>1 DEF TakeEvaluation, HandlerTypes, Handlers
  <2>2. CASE key[a] # e
    <3>1. a = b /\ e = x
        BY <1>7, <2>2 DEF TakeEvaluation, QueueTypes
    <3> QED
        BY <1>7, <3>1 DEF TakeEvaluation, HandlerTypes, Handlers
  <2> QED
      BY <2>1, <2>2
<1>8. ASSUME NEW c \in calls, Wake(c)
      PROVE  on'[e] = a /\ pc'[e] = "clear"
  <2>1. c.barrier \in Barriers
      BY DEF CallTypes, Call
  <2> QED
      BY <1>8, <2>1, EnqueueKeeps DEF Wake, OwnerIsAtClear
<1>9. CASE UNCHANGED <<key, extra, pc, on>>
    BY <1>9 DEF OwnerIsAtClear
<1> QED
    BY <1>1, <1>2, <1>3, <1>4, <1>5, <1>6, <1>7, <1>8, <1>9, QueueSteps

\* What has gone wrong is not forgotten.
LEMMA FaultsGrow ==
    ASSUME [Next]_vars
    PROVE  faults \subseteq faults'
<1>1. ASSUME \/ Create \/ ScheduleDeadline \/ FirstEvaluation \/ SavePaused \/ StartResume
             \/ UNCHANGED vars
      PROVE  faults' = faults
    BY <1>1 DEF Create, ScheduleDeadline, FirstEvaluation, SavePaused, StartResume, vars
<1>2. DeliverUndelivered \/ CreateFails \/ EndRun => faults \subseteq faults'
    BY DEF DeliverUndelivered, CreateFails, EndRun, Happens
<1>3. \A h \in Handlers : HandlerStep(h) \/ Crash(h) => faults \subseteq faults'
    BY DEF HandlerStep, ClearEvaluationDedupKey, ReadBarrier, CountSignals, CloseBarrier, ResumeRun,
           Finish, Crash, Happens
<1>4. \A b \in Barriers : BarrierStep(b) => faults' = faults
    BY DEF BarrierStep, DeadlineFires, SweepOverdue, SweepUndelivered, TakeEvaluation
<1>5. \A e \in Evaluators : Stall(e) => faults \subseteq faults'
    BY DEF Stall, Happens
<1>6. \A b \in Barriers, s \in Signals, status \in Settled :
          OpenLink(b, s, status) \/ ChildEnds(b, s, status) => faults \subseteq faults'
    BY DEF OpenLink, ChildEnds, Happens
<1>7. \A c \in calls : CallStep(c) \/ WakeFails(c) => faults \subseteq faults'
    BY DEF CallStep, RecordDecision, ReceiveSignal, Wake, WakeFails, Happens
<1> QED
    BY <1>1, <1>2, <1>3, <1>4, <1>5, <1>6, <1>7 DEF Next, EngineStep, vars

\* A call that has written stays until it has queued the evaluation, or fails to.
LEMMA WrittenCallStays ==
    ASSUME [Next]_vars, NEW c \in calls, c.step = "wake"
    PROVE  c \in calls' \/ Wake(c) \/ WakeFails(c)
<1>1. EngineStep \/ CreateFails \/ EndRun => calls' = calls
    BY DEF EngineStep, Create, ScheduleDeadline, FirstEvaluation, SavePaused, DeliverUndelivered,
           StartResume, CreateFails, EndRun
<1>2. \A h \in Handlers : HandlerStep(h) \/ Crash(h) => calls' = calls
    BY DEF HandlerStep, ClearEvaluationDedupKey, ReadBarrier, CountSignals, CloseBarrier, ResumeRun,
           Finish, Crash
<1>3. \A b \in Barriers : BarrierStep(b) => calls' = calls
    BY DEF BarrierStep, DeadlineFires, SweepOverdue, SweepUndelivered, TakeEvaluation
<1>4. \A e \in Evaluators : Stall(e) => calls' = calls
    BY DEF Stall
<1>5. \A b \in Barriers, s \in Signals, status \in Settled :
          OpenLink(b, s, status) \/ ChildEnds(b, s, status) => c \in calls'
    BY DEF OpenLink, ChildEnds
<1>6. ASSUME NEW d \in calls, RecordDecision(d) \/ ReceiveSignal(d)
      PROVE  c \in calls'
    BY <1>6 DEF RecordDecision, ReceiveSignal, GoesOn, Dropped
<1>7. ASSUME NEW d \in calls, d # c, Wake(d) \/ WakeFails(d)
      PROVE  c \in calls'
    BY <1>7 DEF Wake, WakeFails, Dropped
<1> QED
    BY <1>1, <1>2, <1>3, <1>4, <1>5, <1>6, <1>7 DEF Next, CallStep, vars

\* The signals of a barrier that stays open change only by a write to one of them.
LEMMA OpenSignalsStay ==
    ASSUME BInv, [Next]_vars, ~Create, NEW b \in Barriers, barrier'[b] = "PENDING",
           \A c \in calls : (RecordDecision(c) \/ ReceiveSignal(c)) => signal' = signal \/ c.barrier # b
    PROVE  barrier[b] = "PENDING" /\ signal'[b] = signal[b]
<1> USE TypeGroups DEF BInv
<1>1. ~EndRun
    BY DEF EndRun
<1>2. barrier[b] = "PENDING"
    BY <1>1, RowChanges
<1>3. ASSUME NEW c \in calls, RecordDecision(c) \/ ReceiveSignal(c)
      PROVE  signal'[b] = signal[b]
    BY <1>3 DEF RecordDecision, ReceiveSignal, SetSignal, SignalTypes
<1>4. ASSUME NEW h \in Handlers, CloseBarrier(h)
      PROVE  signal'[b] = signal[b]
    BY <1>4 DEF CloseBarrier, BarrierTypes, SignalTypes
<1>5. DeliverUndelivered \/ (\E h \in Handlers : ResumeRun(h)) => signal' = signal
    BY DEF DeliverUndelivered, ResumeRun
<1> QED
    BY <1>1, <1>2, <1>3, <1>4, <1>5, RowSteps

\* A waiting evaluation is taken, and a handler that looks at a ready barrier closes it.
LEMMA EvaluationGoesOn ==
    ASSUME EInv, [Next]_vars, NEW b \in Barriers,
           barrier[b] = "PENDING", barrier'[b] = "PENDING", ShouldRelease(signal[b]),
           \/ key[b] = "waiting" \/ extra[b] > 0
           \/ \E e \in Evaluators : on[e] = b /\ pc[e] \in Looking
    PROVE  WillBeEvaluated(b)'
<1> USE TypeGroups, BarrierAssumption DEF EInv, BInv
<1> DEFINE Queued == key'[b] = "waiting" \/ extra'[b] > 0
           Looked == \E e \in Evaluators : on'[e] = b /\ pc'[e] \in Looking
<1> SUFFICES Queued \/ Looked
    BY DEF WillBeEvaluated, Looking
<1>1. CASE FirstEvaluation
  <2>1. at \in Barriers /\ EnqueueEvaluation(at) /\ UNCHANGED <<pc, on>>
      BY <1>1 DEF FirstEvaluation, ArmsABarrier
  <2> QED
      BY <2>1, EnqueueKeeps
<1>2. ASSUME NEW h \in Handlers, HandlerStep(h)
      PROVE  Queued \/ Looked
  <2>1. CASE key[b] = "waiting" \/ extra[b] > 0
    <3>1. CASE ClearEvaluationDedupKey(h)
        BY <2>1, <3>1 DEF ClearEvaluationDedupKey, BusyWithBarrier, QueueTypes
    <3>2. CASE Finish(h)
        BY <2>1, <3>2 DEF Finish, QueueTypes, Handlers
    <3> QED
        BY <1>2, <2>1, <3>1, <3>2, HandlerQueue
  <2>2. ASSUME NEW e \in Evaluators, on[e] = b, pc[e] \in Looking
        PROVE  on'[e] = b /\ pc'[e] \in Looking
    <3>1. CASE e # h
        BY <1>2, <2>2, <3>1, HandlerMoves DEF Handlers
    <3>2. CASE e = h
      <4>1. CASE ClearEvaluationDedupKey(e)
          BY <2>2, <4>1 DEF ClearEvaluationDedupKey, Goto, HandlerTypes, Handlers, Looking
      <4>2. CASE ReadBarrier(e)
          BY <2>2, <4>2 DEF ReadBarrier, Goto, HandlerTypes, Handlers, Looking
      <4>3. CASE CountSignals(e)
          BY <2>2, <4>3 DEF CountSignals, Goto, HandlerTypes, Handlers, Looking
      <4>4. ~CloseBarrier(e)
          BY <2>2 DEF CloseBarrier, BarrierTypes
      <4>5. ~ResumeRun(e) /\ ~Finish(e)
          BY <2>2 DEF ResumeRun, Finish, Looking
      <4> QED
          BY <1>2, <3>2, <4>1, <4>2, <4>3, <4>4, <4>5 DEF HandlerStep
    <3> QED
        BY <3>1, <3>2
  <2> QED
      BY <2>1, <2>2
<1>3. ASSUME NEW h \in Handlers, Crash(h)
      PROVE  Queued \/ Looked
  <2>1. on[h] \in Barriers /\ \A g \in Handlers : g # h => pc'[g] = pc[g] /\ on'[g] = on[g]
      BY <1>3 DEF Crash, BusyWithBarrier, HandlerTypes
  <2>2. CASE h = Deadline /\ UNCHANGED queueVars
      BY <2>1, <2>2 DEF Handlers
  <2>3. CASE h \in Evaluators /\ RunAgain(h)
      BY <2>1, <2>3, RunAgainKeeps DEF Handlers
  <2> QED
      BY <1>3, <2>2, <2>3 DEF Crash
<1>4. ASSUME NEW x \in Evaluators, Stall(x)
      PROVE  Queued \/ Looked
  <2>1. on[x] \in Barriers /\ RunAgain(x) /\ UNCHANGED <<pc, on>>
      BY <1>4 DEF Stall, BusyWithBarrier, Handlers
  <2> QED
      BY <2>1, RunAgainKeeps
<1>5. ASSUME NEW a \in Barriers, SweepUndelivered(a)
      PROVE  Queued \/ Looked
    BY <1>5, EnqueueKeeps DEF SweepUndelivered
<1>6. ASSUME NEW a \in Barriers, DeadlineFires(a)
      PROVE  Queued \/ Looked
    BY <1>6 DEF DeadlineFires, HandlerTypes, Handlers
<1>7. ASSUME NEW a \in Barriers, NEW x \in Evaluators, TakeEvaluation(x, a)
      PROVE  Queued \/ Looked
  <2>1. pc[x] = "idle" /\ on'[x] = a /\ pc'[x] = "clear"
      BY <1>7 DEF TakeEvaluation, HandlerTypes, Handlers
  <2>2. CASE a = b
      BY <2>1, <2>2 DEF Looking
  <2>3. CASE a # b
    <3>1. key'[b] = key[b] /\ extra'[b] = extra[b]
        BY <1>7, <2>3 DEF TakeEvaluation, QueueTypes
    <3>2. \A e \in Evaluators : e # x => pc'[e] = pc[e] /\ on'[e] = on[e]
        BY <1>7 DEF TakeEvaluation, HandlerTypes, Handlers
    <3> QED
        BY <2>1, <3>1, <3>2 DEF Looking
  <2> QED
      BY <2>2, <2>3
<1>8. ASSUME NEW c \in calls, Wake(c)
      PROVE  Queued \/ Looked
  <2>1. c.barrier \in Barriers
      BY DEF CallTypes, Call
  <2> QED
      BY <1>8, <2>1, EnqueueKeeps DEF Wake
<1>9. CASE UNCHANGED <<key, extra, pc, on>>
    BY <1>9
<1> QED
    BY <1>1, <1>2, <1>3, <1>4, <1>5, <1>6, <1>7, <1>8, <1>9, QueueSteps

\* A barrier that is ready stays watched, and one that becomes ready is watched from then on.
LEMMA NextReady ==
    ASSUME EInv, [Next]_vars
    PROVE  ReadyBarrierIsEvaluated'
<1> USE TypeGroups DEF EInv, BInv
<1> SUFFICES ASSUME faults' \cap {"wake", "create"} = {}, NEW b \in Barriers,
                    barrier'[b] = "PENDING", ShouldRelease(signal[b])'
             PROVE  WillBeEvaluated(b)'
    BY DEF ReadyBarrierIsEvaluated
<1>1. CASE Create
  <2>1. CASE b = at + 1
      BY <1>1, <2>1 DEF Create, WillBeEvaluated
  <2>2. CASE b # at + 1
    <3>1. barrier[b] = "PENDING" /\ signal'[b] = signal[b]
        BY <1>1, <2>2 DEF Create, BarrierTypes, SignalTypes
    <3>2. WillBeEvaluated(b)
        BY <3>1, SamePolicy, SameReadiness, FaultsGrow DEF ReadyBarrierIsEvaluated
    <3> QED
        BY <1>1, <3>2 DEF Create, WillBeEvaluated
  <2> QED
      BY <2>1, <2>2
<1>2. ASSUME NEW c \in calls, RecordDecision(c) \/ ReceiveSignal(c), signal' # signal, c.barrier = b
      PROVE  WillBeEvaluated(b)'
  <2>1. GoesOn(c)
      BY <1>2 DEF RecordDecision, ReceiveSignal
  <2>2. c \in Call
      BY DEF CallTypes
  <2>3. [c EXCEPT !.step = "wake"] \in calls' /\ [c EXCEPT !.step = "wake"].barrier = b
        /\ [c EXCEPT !.step = "wake"].step = "wake"
      BY <1>2, <2>1, <2>2 DEF GoesOn, Call
  <2> QED
      BY <2>3 DEF WillBeEvaluated
<1>3. CASE ~Create /\ \A c \in calls : (RecordDecision(c) \/ ReceiveSignal(c)) => signal' = signal \/ c.barrier # b
  <2>1. barrier[b] = "PENDING" /\ signal'[b] = signal[b]
      BY <1>3, OpenSignalsStay
  <2>2. ShouldRelease(signal[b])
      BY <2>1, SamePolicy, SameReadiness
  <2>3. WillBeEvaluated(b)
      BY <2>1, <2>2, FaultsGrow DEF ReadyBarrierIsEvaluated
  <2>4. CASE \/ key[b] = "waiting" \/ extra[b] > 0
             \/ \E e \in Evaluators : on[e] = b /\ pc[e] \in Looking
      BY <2>1, <2>2, <2>4, EvaluationGoesOn
  <2>5. ASSUME NEW c \in calls, c.barrier = b, c.step = "wake"
        PROVE  WillBeEvaluated(b)'
    <3>1. CASE c \in calls'
        BY <2>5, <3>1 DEF WillBeEvaluated
    <3>2. CASE Wake(c)
        BY <2>5, <3>2, TakenKeyWakes DEF Wake
    <3>3. ~WakeFails(c)
        BY DEF WakeFails, Happens
    <3> QED
        BY <2>5, <3>1, <3>2, <3>3, WrittenCallStays
  <2>6. CASE at = b /\ engine \in {"arm", "wake"}
    <3>1. CASE ScheduleDeadline
        BY <2>6, <3>1 DEF ScheduleDeadline, WillBeEvaluated
    <3>2. CASE FirstEvaluation
        BY <2>6, <3>2, TakenKeyWakes DEF FirstEvaluation
    <3>3. ~CreateFails
        BY DEF CreateFails, Happens
    <3>4. ~EndRun /\ ~SavePaused /\ ~StartResume
        BY <2>6 DEF EndRun, SavePaused, StartResume
    <3>5. CASE UNCHANGED <<run, engine, at>>
        BY <2>6, <3>5 DEF WillBeEvaluated
    <3> QED
        BY <1>3, <3>1, <3>2, <3>3, <3>4, <3>5, RunSteps
  <2> QED
      BY <2>3, <2>4, <2>5, <2>6 DEF WillBeEvaluated, Looking
<1> QED
    BY <1>1, <1>2, <1>3

\* Unless an enqueue failed, a barrier that is open and ready is about to be evaluated: the
\* deduplication of the evaluations swallows no signal, for every number of concurrent
\* evaluations, crashes and stalled jobs.
THEOREM ReadyIsEvaluated == Spec => []ReadyBarrierIsEvaluated
<1>1. Init => EInv
  <2>1. Init => OwnerIsAtClear
      BY BarrierAssumption DEF Init, OwnerIsAtClear, Handlers
  <2>2. Init => ReadyBarrierIsEvaluated
      BY DEF Init, ReadyBarrierIsEvaluated
  <2> QED
      BY <2>1, <2>2, InitBInv DEF EInv
<1>2. EInv /\ [Next]_vars => EInv'
    BY NextBInv, NextOwner, NextReady DEF EInv
<1>3. EInv => ReadyBarrierIsEvaluated
    BY DEF EInv
<1> QED
    BY <1>1, <1>2, <1>3, PTL DEF Spec

(***************************************************************************)
(* A barrier that was counted ready is still ready when it is closed.      *)
(***************************************************************************)
Justified(signals) ==
    \/ \A s \in Signals : signals[s] # "PENDING"
    \/ policy.releaseOnFirstFailure /\ \E s \in Signals : signals[s] = "FAILED"
    \/ /\ policy.requiredSuccesses > 0
       /\ Cardinality({s \in Signals : signals[s] = "SUCCEEDED"}) >= policy.requiredSuccesses

\* Counting more of a larger set does not give less.
LEMMA CountGrows ==
    ASSUME NEW f, NEW g, NEW status, \A s \in Signals : f[s] = status => g[s] = status
    PROVE  /\ CountOf(f, status) \in Nat /\ CountOf(g, status) \in Nat
           /\ CountOf(f, status) <= CountOf(g, status)
<1> DEFINE F == {s \in Signals : f[s] = status}
           G == {s \in Signals : g[s] = status}
<1>1. IsFiniteSet(Signals)
    BY BarrierAssumption
<1>2. IsFiniteSet(F) /\ IsFiniteSet(G)
    BY <1>1, FS_Subset
<1>3. F \in SUBSET G
    OBVIOUS
<1>4. Cardinality(F) \in Nat /\ Cardinality(G) \in Nat /\ Cardinality(F) <= Cardinality(G)
    BY <1>2, <1>3, FS_Subset, FS_CardinalityType
<1> QED
    BY <1>4 DEF CountOf

\* A count is zero when, and only when, there is nothing to count.
LEMMA CountZero ==
    ASSUME NEW f, NEW status
    PROVE  CountOf(f, status) = 0 <=> \A s \in Signals : f[s] # status
<1>1. IsFiniteSet({s \in Signals : f[s] = status})
    BY BarrierAssumption, FS_Subset
<1> QED
    BY <1>1, FS_EmptySet DEF CountOf

\* A settled signal does not make a ready barrier wait again.
LEMMA SettlingKeepsReady ==
    ASSUME RunTypes, NEW f \in [Signals -> Status], NEW t \in Signals, NEW status \in Settled,
           f[t] \in {"PENDING", status}, ShouldRelease(f)
    PROVE  ShouldRelease([f EXCEPT ![t] = status])
<1> DEFINE g == [f EXCEPT ![t] = status]
<1>1. CountOf(f, "SUCCEEDED") <= CountOf(g, "SUCCEEDED")
      /\ CountOf(f, "SUCCEEDED") \in Nat /\ CountOf(g, "SUCCEEDED") \in Nat
  <2>1. \A s \in Signals : f[s] = "SUCCEEDED" => g[s] = "SUCCEEDED"
      BY DEF Settled
  <2> QED
      BY <2>1, CountGrows
<1>2. CountOf(f, "FAILED") <= CountOf(g, "FAILED")
      /\ CountOf(f, "FAILED") \in Nat /\ CountOf(g, "FAILED") \in Nat
  <2>1. \A s \in Signals : f[s] = "FAILED" => g[s] = "FAILED"
      BY DEF Settled
  <2> QED
      BY <2>1, CountGrows
<1>3. CountOf(f, "PENDING") = 0 => CountOf(g, "PENDING") = 0
  <2>1. \A s \in Signals : f[s] # "PENDING" => g[s] # "PENDING"
      BY DEF Settled
  <2> QED
      BY <2>1, CountZero
<1>4. policy.requiredSuccesses \in Nat
    BY BarrierAssumption DEF RunTypes
<1> HIDE DEF g
<1>5. ShouldRelease(g)
    BY <1>1, <1>2, <1>3, <1>4 DEF ShouldRelease
<1> QED
    BY <1>5 DEF g

\* What is ready is justified.
LEMMA ReadyIsJustified ==
    ASSUME RunTypes, NEW f, ShouldRelease(f)
    PROVE  Justified(f)
<1>1. CountOf(f, "FAILED") > 0 => \E s \in Signals : f[s] = "FAILED"
    BY CountZero
<1>2. CountOf(f, "PENDING") = 0 => \A s \in Signals : f[s] # "PENDING"
    BY CountZero
<1> QED
    BY <1>1, <1>2 DEF ShouldRelease, Justified, CountOf

\* A report on its way, and one that was written, is of a child that ended
EndedBeforeReport ==
    /\ \A c \in calls : c.signal \in Children => c.signal \in reported[c.barrier]
    /\ \A b \in Barriers, s \in Children : signal[b][s] \in Settled => s \in reported[b]

\* The reports of a child that ended once agree
ReportsAgree ==
    "retry" \notin faults => \A c \in calls : c.signal \in Children =>
        /\ \A d \in calls : d.barrier = c.barrier /\ d.signal = c.signal => d.status = c.status
        /\ signal[c.barrier][c.signal] \in {"none", "PENDING", c.status}

\* An evaluation that counted an open barrier ready finds it ready
CountedIsReady ==
    "retry" \notin faults => \A e \in Evaluators :
        pc[e] = "close" /\ barrier[on[e]] = "PENDING" => ShouldRelease(signal[on[e]])

JInv ==
    /\ BInv
    /\ EndedBeforeReport
    /\ ReportsAgree
    /\ CountedIsReady
    /\ ReleaseIsJustified

\* A step that is no call's leaves the calls alone, and takes signals away or asks for new ones.
LEMMA CallSteps ==
    ASSUME TypeOK, [Next]_vars
    PROVE  \/ \E b \in Barriers, s \in Signals, status \in Settled :
                  OpenLink(b, s, status) \/ ChildEnds(b, s, status)
           \/ \E c \in calls : RecordDecision(c) \/ ReceiveSignal(c) \/ Wake(c) \/ WakeFails(c)
           \/ /\ UNCHANGED <<calls, reported>>
              /\ \A b \in Barriers, s \in Signals : signal'[b][s] \in {signal[b][s], "none", "PENDING"}
<1> USE TypeGroups
<1> DEFINE Quiet == /\ UNCHANGED <<calls, reported>>
                    /\ \A b \in Barriers, s \in Signals : signal'[b][s] \in {signal[b][s], "none", "PENDING"}
<1>1. CASE Create
  <2>1. PICK asked \in SignalSets :
            signal' = [signal EXCEPT ![at + 1] = [s \in Signals |-> IF s \in asked THEN "PENDING" ELSE "none"]]
      BY <1>1 DEF Create
  <2> QED
      BY <1>1, <2>1 DEF Create, SignalTypes
<1>2. CASE EndRun
    BY <1>2 DEF EndRun, Nothing
<1>3. ASSUME \/ ScheduleDeadline \/ FirstEvaluation \/ SavePaused \/ DeliverUndelivered
             \/ StartResume \/ CreateFails
      PROVE  Quiet
    BY <1>3 DEF ScheduleDeadline, FirstEvaluation, SavePaused, DeliverUndelivered, StartResume,
                CreateFails
<1>4. ASSUME NEW h \in Handlers, CloseBarrier(h)
      PROVE  Quiet
    BY <1>4 DEF CloseBarrier, SignalTypes, Nothing
<1>5. ASSUME NEW h \in Handlers, \/ ClearEvaluationDedupKey(h) \/ ReadBarrier(h) \/ CountSignals(h)
                                 \/ ResumeRun(h) \/ Finish(h) \/ Crash(h) \/ Stall(h)
      PROVE  Quiet
    BY <1>5 DEF ClearEvaluationDedupKey, ReadBarrier, CountSignals, ResumeRun, Finish, Crash, Stall
<1>6. \A b \in Barriers : BarrierStep(b) => Quiet
    BY DEF BarrierStep, DeadlineFires, SweepOverdue, SweepUndelivered, TakeEvaluation
<1>7. CASE UNCHANGED vars
    BY <1>7 DEF vars
<1> QED
    BY <1>1, <1>2, <1>3, <1>4, <1>5, <1>6, <1>7 DEF Next, EngineStep, HandlerStep, CallStep, Handlers

\* A child has ended before its report is on its way.
LEMMA NextEnded ==
    ASSUME JInv, [Next]_vars
    PROVE  EndedBeforeReport'
<1> USE TypeGroups, BarrierAssumption DEF JInv, BInv, EndedBeforeReport
<1>1. ASSUME NEW b \in Barriers, NEW s \in Signals, NEW status \in Settled, OpenLink(b, s, status)
      PROVE  EndedBeforeReport'
    BY <1>1 DEF OpenLink, Write
<1>2. ASSUME NEW b \in Barriers, NEW s \in Signals, NEW status \in Settled, ChildEnds(b, s, status)
      PROVE  EndedBeforeReport'
  <2>1. /\ calls' = calls \cup {Write(b, s, status)}
        /\ reported' = [reported EXCEPT ![b] = @ \cup {s}]
        /\ signal' = signal
      BY <1>2 DEF ChildEnds
  <2>2. \A c \in calls : c.barrier \in Barriers
      BY DEF CallTypes, Call
  <2>3. \A a \in Barriers : reported[a] \subseteq reported'[a]
      BY <2>1 DEF CallTypes
  <2>4. s \in reported'[b]
      BY <2>1 DEF CallTypes
  <2> QED
      BY <2>1, <2>2, <2>3, <2>4 DEF Write
<1>3. ASSUME NEW c \in calls, RecordDecision(c)
      PROVE  EndedBeforeReport'
  <2>1. c.signal \in Approvals /\ c.barrier \in Barriers /\ reported' = reported
      BY <1>3 DEF RecordDecision, CallTypes, Call
  <2>2. \A d \in calls' : d.signal \in Children => d \in calls
      BY <1>3, <2>1 DEF RecordDecision, GoesOn, Dropped, CallTypes, Call
  <2>3. \A b \in Barriers, s \in Children : signal'[b][s] = signal[b][s]
      BY <1>3, <2>1 DEF RecordDecision, SetSignal, SignalTypes, Signals
  <2> QED
      BY <2>1, <2>2, <2>3
<1>4. ASSUME NEW c \in calls, ReceiveSignal(c)
      PROVE  EndedBeforeReport'
  <2>1. c.signal \in Children /\ c.barrier \in Barriers /\ reported' = reported
      BY <1>4 DEF ReceiveSignal, CallTypes, Call
  <2>2. \A d \in calls' : \E g \in calls : g.barrier = d.barrier /\ g.signal = d.signal
      BY <1>4 DEF ReceiveSignal, GoesOn, Dropped, CallTypes, Call
  <2>3. \A b \in Barriers, s \in Children : signal'[b][s] = signal[b][s] \/ (b = c.barrier /\ s = c.signal)
      BY <1>4, <2>1 DEF ReceiveSignal, SetSignal, SignalTypes, Signals
  <2> QED
      BY <2>1, <2>2, <2>3
<1>5. ASSUME NEW c \in calls, Wake(c) \/ WakeFails(c)
      PROVE  EndedBeforeReport'
  <2>1. \A d \in calls' : \E g \in calls : g.barrier = d.barrier /\ g.signal = d.signal
      BY <1>5 DEF Wake, WakeFails, Dropped, CallTypes, Call
  <2> QED
      BY <1>5, <2>1 DEF Wake, WakeFails
<1>6. CASE /\ UNCHANGED <<calls, reported>>
           /\ \A b \in Barriers, s \in Signals : signal'[b][s] \in {signal[b][s], "none", "PENDING"}
    BY <1>6 DEF Settled, Signals
<1> QED
    BY <1>1, <1>2, <1>3, <1>4, <1>5, <1>6, CallSteps

\* Reports of a child that ended once say the same, and so does what was written.
LEMMA NextAgree ==
    ASSUME JInv, [Next]_vars
    PROVE  ReportsAgree'
<1> USE TypeGroups, BarrierAssumption DEF JInv, BInv
<1> DEFINE Agree(c, d) == d.barrier = c.barrier /\ d.signal = c.signal => d.status = c.status
           Says1(c) == signal[c.barrier][c.signal] \in {"none", "PENDING", c.status}
           Says2(c) == signal'[c.barrier][c.signal] \in {"none", "PENDING", c.status}
<1> SUFFICES ASSUME "retry" \notin faults', NEW x \in calls', x.signal \in Children
             PROVE  (\A y \in calls' : Agree(x, y)) /\ Says2(x)
    BY DEF ReportsAgree
<1>0. \A c \in calls : c.signal \in Children => (\A d \in calls : Agree(c, d)) /\ Says1(c)
    BY FaultsGrow DEF ReportsAgree
<1>1. ASSUME NEW b \in Barriers, NEW s \in Signals, NEW status \in Settled, OpenLink(b, s, status)
      PROVE  (\A y \in calls' : Agree(x, y)) /\ Says2(x)
    BY <1>0, <1>1 DEF OpenLink, Write
<1>2. ASSUME NEW b \in Barriers, NEW s \in Signals, NEW status \in Settled, ChildEnds(b, s, status)
      PROVE  (\A y \in calls' : Agree(x, y)) /\ Says2(x)
  <2>1. /\ s \in Children /\ signal' = signal
        /\ calls' = calls \cup {Write(b, s, status)}
        /\ \A c \in calls : c.barrier # b \/ c.signal # s
      BY <1>2 DEF ChildEnds
  <2>2. s \notin reported[b]
      BY <1>2 DEF ChildEnds, Happens
  <2>3. signal[b][s] \in {"none", "PENDING"}
      BY <2>1, <2>2 DEF EndedBeforeReport, SignalTypes, Status
  <2> QED
      BY <1>0, <2>1, <2>3 DEF Write
<1>3. ASSUME NEW c \in calls, RecordDecision(c)
      PROVE  (\A y \in calls' : Agree(x, y)) /\ Says2(x)
  <2>1. c.signal \in Approvals /\ c.barrier \in Barriers
      BY <1>3 DEF RecordDecision, CallTypes, Call
  <2>2. \A d \in calls' : \/ d \in calls
                          \/ d.signal \in Approvals
      BY <1>3, <2>1 DEF RecordDecision, GoesOn, Dropped, CallTypes, Call
  <2>3. x \in calls /\ x.barrier \in Barriers
      BY <2>2 DEF CallTypes, Call
  <2>4. signal'[x.barrier][x.signal] = signal[x.barrier][x.signal]
      BY <1>3, <2>1, <2>3 DEF RecordDecision, SetSignal, SignalTypes, Signals
  <2> QED
      BY <1>0, <2>2, <2>3, <2>4
<1>4. ASSUME NEW c \in calls, ReceiveSignal(c)
      PROVE  (\A y \in calls' : Agree(x, y)) /\ Says2(x)
  <2>1. c.signal \in Children /\ c.barrier \in Barriers
      BY <1>4 DEF ReceiveSignal, CallTypes, Call
  <2>2. \A d \in calls' : \E g \in calls : g.barrier = d.barrier /\ g.signal = d.signal /\ g.status = d.status
      BY <1>4 DEF ReceiveSignal, GoesOn, Dropped, CallTypes, Call
  <2>3. PICK g \in calls : g.barrier = x.barrier /\ g.signal = x.signal /\ g.status = x.status
      BY <2>2
  <2>4. \A y \in calls' : Agree(x, y)
      BY <1>0, <2>2, <2>3
  <2>5. g.barrier \in Barriers /\ Says1(g) /\ Agree(g, c)
      BY <1>0, <2>3 DEF CallTypes, Call
  <2>6. Says2(x)
    <3>1. CASE signal' = signal
        BY <2>3, <2>5, <3>1
    <3>2. CASE signal' = [signal EXCEPT ![c.barrier][c.signal] = c.status]
      <4>1. CASE g.barrier = c.barrier /\ g.signal = c.signal
          BY <2>1, <2>3, <2>5, <3>2, <4>1 DEF SignalTypes, Signals
      <4>2. CASE ~(g.barrier = c.barrier /\ g.signal = c.signal)
          BY <2>1, <2>3, <2>5, <3>2, <4>2 DEF SignalTypes, Signals
      <4> QED
          BY <4>1, <4>2
    <3> QED
        BY <1>4, <3>1, <3>2 DEF ReceiveSignal, SetSignal
  <2> QED
      BY <2>4, <2>6
<1>5. ASSUME NEW c \in calls, Wake(c) \/ WakeFails(c)
      PROVE  (\A y \in calls' : Agree(x, y)) /\ Says2(x)
  <2>1. \A d \in calls' : \E g \in calls : g.barrier = d.barrier /\ g.signal = d.signal /\ g.status = d.status
      BY <1>5 DEF Wake, WakeFails, Dropped, CallTypes, Call
  <2>2. signal' = signal
      BY <1>5 DEF Wake, WakeFails
  <2> QED
      BY <1>0, <2>1, <2>2
<1>6. CASE /\ UNCHANGED <<calls, reported>>
           /\ \A b \in Barriers, s \in Signals : signal'[b][s] \in {signal[b][s], "none", "PENDING"}
  <2>1. x.barrier \in Barriers /\ x.signal \in Signals /\ x \in calls
      BY <1>6 DEF CallTypes, Call
  <2> QED
      BY <1>0, <1>6, <2>1
<1> QED
    BY <1>1, <1>2, <1>3, <1>4, <1>5, <1>6, CallSteps

\* The row and the signals of an open barrier change under a handler that counted it ready only
\* by a write that settles a signal.
LEMMA NextCounted ==
    ASSUME JInv, [Next]_vars
    PROVE  CountedIsReady'
<1> USE TypeGroups, BarrierAssumption DEF JInv, BInv
<1> SUFFICES ASSUME "retry" \notin faults', NEW e \in Evaluators,
                    pc'[e] = "close", barrier'[on'[e]] = "PENDING"
             PROVE  ShouldRelease(signal[on[e]])'
    BY DEF CountedIsReady
<1> DEFINE b == on'[e]
<1>0. "retry" \notin faults
    BY FaultsGrow
<1>1. b \in Barriers
    BY NextBusy DEF BusyWithBarrier, Handlers
<1>2. CASE Create
  <2>1. pc[e] = "close" /\ on'[e] = on[e]
      BY <1>2 DEF Create
  <2>2. barrier[b] # "none" /\ barrier[at + 1] = "none"
      BY <1>2, <2>1, NextBarrier DEF Create, BusyWithBarrier, NotYetCreated, EndedRunIsIdle, Handlers
  <2>3. barrier[b] = "PENDING" /\ signal'[b] = signal[b]
      BY <1>1, <1>2, <2>2 DEF Create, BarrierTypes, SignalTypes
  <2> QED
      BY <1>0, <1>1, <2>1, <2>3, SamePolicy, SameReadiness DEF CountedIsReady
<1>3. ASSUME NEW c \in calls, RecordDecision(c) \/ ReceiveSignal(c), signal' # signal, c.barrier = b
      PROVE  ShouldRelease(signal[on[e]])'
  <2>1. UNCHANGED <<pc, on, barrier, policy>> /\ signal' = [signal EXCEPT ![b][c.signal] = c.status]
      BY <1>3 DEF RecordDecision, ReceiveSignal, SetSignal
  <2>2. ShouldRelease(signal[b])
      BY <1>0, <2>1 DEF CountedIsReady
  <2>3. c.signal \in Signals /\ c.status \in Settled
      BY DEF CallTypes, Call
  <2>4. signal[b][c.signal] \in {"PENDING", c.status}
      BY <1>0, <1>3 DEF RecordDecision, ReceiveSignal, ReportsAgree
  <2>5. signal[b] \in [Signals -> Status]
      BY <1>1 DEF SignalTypes
  <2>6. ShouldRelease([signal[b] EXCEPT ![c.signal] = c.status])
      BY <2>2, <2>3, <2>4, <2>5, SettlingKeepsReady
  <2>7. signal'[b] = [signal[b] EXCEPT ![c.signal] = c.status]
      BY <1>1, <2>1 DEF SignalTypes
  <2> QED
      BY <2>1, <2>6, <2>7 DEF ShouldRelease, CountOf
<1>4. CASE ~Create /\ \A c \in calls : (RecordDecision(c) \/ ReceiveSignal(c)) => signal' = signal \/ c.barrier # b
  <2>1. barrier[b] = "PENDING" /\ signal'[b] = signal[b]
      BY <1>1, <1>4, OpenSignalsStay
  <2>2. CASE pc[e] = "close" /\ on[e] = b
      BY <1>0, <1>1, <2>1, <2>2, SamePolicy, SameReadiness DEF CountedIsReady
  <2>3. CASE ~(pc[e] = "close" /\ on[e] = b)
    <3>1. CountSignals(e)
      <4>1. ASSUME NEW h \in Handlers, HandlerStep(h)
            PROVE  CountSignals(e)
        <5>1. h = e
            BY <2>3, <4>1, HandlerMoves DEF Handlers
        <5> QED
            BY <2>3, <4>1, <5>1 DEF HandlerStep, ClearEvaluationDedupKey, ReadBarrier, CloseBarrier,
                 ResumeRun, Finish, Goto, HandlerTypes, Handlers
      <4>2. \A h \in Handlers : ~Crash(h)
          BY <2>3 DEF Crash, HandlerTypes, Handlers
      <4>3. \A x \in Evaluators : ~Stall(x)
          BY <2>3 DEF Stall
      <4>4. \A a \in Barriers : ~DeadlineFires(a) /\ ~SweepUndelivered(a)
          BY <2>3 DEF DeadlineFires, SweepUndelivered, HandlerTypes, Handlers
      <4>5. \A a \in Barriers, x \in Evaluators : ~TakeEvaluation(x, a)
          BY <2>3 DEF TakeEvaluation, HandlerTypes, Handlers
      <4>6. ~FirstEvaluation /\ ~UNCHANGED <<key, extra, pc, on>> /\ \A c \in calls : ~Wake(c)
          BY <2>3 DEF FirstEvaluation, Wake
      <4> QED
          BY <4>1, <4>2, <4>3, <4>4, <4>5, <4>6, QueueSteps
    <3>2. on[e] = b /\ ShouldRelease(signal[b])
        BY <3>1 DEF CountSignals, Goto, HandlerTypes, Handlers
    <3> QED
        BY <1>1, <2>1, <3>1, <3>2, SamePolicy, SameReadiness DEF CountSignals, Goto
  <2> QED
      BY <2>2, <2>3
<1> QED
    BY <1>2, <1>3, <1>4

\* The summary is taken when the barrier closes, and stays.
LEMMA NextJustified ==
    ASSUME JInv, [Next]_vars
    PROVE  ReleaseIsJustified'
<1> USE TypeGroups DEF JInv, BInv
<1> SUFFICES ASSUME "retry" \notin faults', NEW b \in Barriers,
                    barrier'[b] \in {"COMPLETED", "CONSUMED"}, ~timedOut'[b]
             PROVE  Justified(summary[b])'
    BY DEF ReleaseIsJustified, Justified, Closed
<1>0. policy' = policy /\ "retry" \notin faults
    BY SamePolicy, FaultsGrow
<1>1. CASE /\ barrier[b] \in {"COMPLETED", "CONSUMED"}
           /\ summary'[b] = summary[b] /\ timedOut'[b] = timedOut[b]
  <2>1. Justified(summary[b])
      BY <1>0, <1>1 DEF ReleaseIsJustified, Justified, Closed
  <2> QED
      BY <1>0, <1>1, <2>1 DEF Justified
<1>2. ASSUME NEW h \in Handlers, CloseBarrier(h)
      PROVE  Justified(summary[b])'
  <2>1. CASE on[h] = b /\ barrier[b] = "PENDING"
    <3>1. summary'[b] = signal[b] /\ timedOut'[b] = (h = Deadline)
        BY <1>2, <2>1 DEF CloseBarrier, SummaryTypes
    <3>2. h \in Evaluators
        BY <3>1 DEF Handlers
    <3>3. ShouldRelease(signal[b])
        BY <1>0, <1>2, <2>1, <3>2 DEF CloseBarrier, CountedIsReady
    <3>4. Justified(signal[b])
        BY <3>3, ReadyIsJustified
    <3> QED
        BY <1>0, <3>1, <3>4 DEF Justified
  <2>2. CASE ~(on[h] = b /\ barrier[b] = "PENDING")
      BY <1>1, <1>2, <2>2 DEF CloseBarrier, BarrierTypes, SummaryTypes
  <2> QED
      BY <2>1, <2>2
<1>3. CASE Create
    BY <1>1, <1>3 DEF Create, BarrierTypes
<1>4. CASE DeliverUndelivered \/ \E h \in Handlers : ResumeRun(h)
  <2>1. UNCHANGED <<summary, timedOut>>
      BY <1>4 DEF DeliverUndelivered, ResumeRun
  <2> QED
      BY <1>1, <1>4, <2>1, ClosedIsDelivered DEF BarrierTypes
<1>5. ASSUME NEW c \in calls, RecordDecision(c) \/ ReceiveSignal(c)
      PROVE  UNCHANGED <<barrier, summary, timedOut>>
    BY <1>5 DEF RecordDecision, ReceiveSignal
<1>6. ~EndRun
    BY DEF EndRun
<1> QED
    BY <1>1, <1>2, <1>3, <1>4, <1>5, <1>6, RowSteps

\* Unless a child was retried, a barrier that closed before its deadline satisfied its policy
\* when it closed, although the signals are counted before the barrier is locked: for every
\* policy, number of signals and number of concurrent evaluations.
THEOREM ReleaseJustified == Spec => []ReleaseIsJustified
<1>1. Init => JInv
  <2>1. Init => EndedBeforeReport /\ ReportsAgree
      BY DEF Init, EndedBeforeReport, ReportsAgree, Nothing, Settled, Signals
  <2>2. Init => CountedIsReady
      BY DEF Init, CountedIsReady, Handlers
  <2>3. Init => ReleaseIsJustified
      BY DEF Init, ReleaseIsJustified, Closed
  <2> QED
      BY <2>1, <2>2, <2>3, InitBInv DEF JInv
<1>2. JInv /\ [Next]_vars => JInv'
    BY NextBInv, NextEnded, NextAgree, NextCounted, NextJustified DEF JInv
<1>3. JInv => ReleaseIsJustified
    BY DEF JInv
<1> QED
    BY <1>1, <1>2, <1>3, PTL DEF Spec

=============================================================================
