------------------------- MODULE JobDispatch_proofs -------------------------
(***************************************************************************)
(* Proofs about JobDispatch, for every number of jobs, workers,            *)
(* connections and tokens and whatever faults come together: a slot of the *)
(* pool has a job that will give it back, and a worker that executes a job *)
(* over an open connection keeps it.                                       *)
(***************************************************************************)
EXTENDS JobDispatch, TLAPS

USE DEF queueVars, limitVars, appVars, workerVars

(***************************************************************************)
(* Types, as far as the proofs need them.                                  *)
(***************************************************************************)
QueueTypes ==
    /\ queue \in [Jobs -> {"waiting", "active", "delayed", "completed", "failed"}]
    /\ lock \in [Jobs -> Tokens \cup {NoToken}]
    /\ stalls \in [Jobs -> Nat]

SlotTypes == slot \in [FlowJobs -> Tokens \cup {NoToken}]

LoopTypes ==
    loop \in [at : {"idle", "check", "reject", "discard", "hand", "return"},
              held : OneOrNone(Delivery)]

AppTypes ==
    /\ open \subseteq Connections
    /\ assigned \in [Jobs -> OneOrNone([conn : Connections, token : Tokens])]
    /\ keys \in [Connections -> SUBSET Jobs]
    /\ tasks \subseteq Task

WorkerTypes ==
    /\ conn \in [Workers -> 0..MaxConnections]
    /\ made \in 0..MaxConnections
    /\ work \in [Workers -> [at : {"idle", "polling", "running"}, held : OneOrNone(Delivery)]]
    /\ killed \subseteq Workers \X Delivery

Types == QueueTypes /\ SlotTypes /\ LoopTypes /\ AppTypes /\ WorkerTypes

(***************************************************************************)
(* The invariants.                                                         *)
(***************************************************************************)
\* The loop holds a delivery whose job is active under its token, that nobody else knows, and
\* that has no slot when it is rejected; only polls are discarded.
LoopHolds ==
    \A d \in loop.held : loop.at \in {"check", "reject", "discard", "hand"} =>
        /\ queue[d.job] = "active" /\ lock[d.job] = d.token
        /\ \A k \in tasks : k.held # d
        /\ \A a \in assigned[d.job] : a.token # d.token
        /\ loop.at = "reject" /\ d.job \in FlowJobs => slot[d.job] = NoToken
        /\ loop.at = "discard" => d.job \in PollJobs

\* Only an active job is locked
LockedIsActive == \A j \in Jobs : lock[j] # NoToken => queue[j] = "active"

\* A delivery is with the loop, with one worker, or killed
OnePlace ==
    /\ \A d \in loop.held, w \in Workers : d \notin work[w].held /\ <<w, d>> \notin killed
    /\ \A w \in Workers, v \in Workers : \A d \in work[w].held :
           (d \in work[v].held => v = w) /\ <<v, d>> \notin killed

\* A worker executes what was assigned to its present connection
AssignedToItsConnection ==
    \A w \in Workers : \A d \in work[w].held : \A a \in assigned[d.job] :
        a.token = d.token => a.conn = <<w, conn[w]>>

\* What is returned is assigned to nobody
ReturnedIsUnassigned ==
    \A k \in tasks : k.kind = "return" => \A a \in assigned[k.held.job] : a.token # k.held.token

\* Nothing is open or assigned that was not made
MadeBefore ==
    /\ \A c \in open : c[2] <= made
    /\ \A j \in Jobs : \A a \in assigned[j] : a.conn[2] <= made
    /\ \A c \in Connections : keys[c] # {} => c[2] <= made

\* A worker without a connection does nothing
OfflineIdle == \A w \in Workers : conn[w] = 0 => work[w].held = {}

\* Unless a lock lapsed, what is assigned to an open connection is locked for it ...
AssignedIsLocked ==
    "lapse" \notin faults =>
        \A j \in Jobs : \A a \in assigned[j] : a.conn \in open => lock[j] = a.token

\* ... and the keys of an open connection are of jobs assigned to it
KeysMatch ==
    "lapse" \notin faults =>
        \A c \in open : \A j \in keys[c] : \E a \in assigned[j] : a.conn = c

\* A live execution is neither reported nor returned, and holds its job
LiveIsUntouched ==
    "lapse" \notin faults =>
        \A w \in Workers : Online(w) => \A d \in work[w].held :
            lock[d.job] = d.token /\ \A k \in tasks : k.held # d

Inv ==
    /\ Types
    /\ LoopHolds
    /\ LockedIsActive
    /\ OnePlace
    /\ AssignedToItsConnection
    /\ ReturnedIsUnassigned
    /\ MadeBefore
    /\ OfflineIdle
    /\ AssignedIsLocked
    /\ KeysMatch
    /\ LiveIsUntouched
    /\ SlotIsHeldForAJob

(***************************************************************************)
(* Which steps touch what.                                                 *)
(***************************************************************************)
\* Every step is one of these.
LEMMA NextSteps ==
    ASSUME [Next]_vars
    PROVE  \/ \E w \in Workers : WorkerStep(w)
           \/ \E d \in loop.held : LoopStep(d) \/ DequeueFails(d)
           \/ \E k \in tasks : TaskStep(k)
           \/ \E c \in Connections : Disconnect(c)
           \/ \E j \in Jobs : QueueStep(j)
           \/ \E j \in FlowJobs : SlotExpires(j)
           \/ PollingLockExpires
           \/ Disable
           \/ AppDies
           \/ UNCHANGED vars
BY DEF Next

\* Faults are never undone.
LEMMA FaultsGrow ==
    ASSUME [Next]_vars
    PROVE  faults \subseteq faults'
<1>1. ASSUME NEW w \in Workers, WorkerStep(w) PROVE faults \subseteq faults'
    BY <1>1 DEF WorkerStep, Connect, Poll, PollTimesOut, Drop, Finish, LateReport, LateReportIsLost,
         Happens, Breaks
<1>2. ASSUME NEW d \in loop.held, LoopStep(d) \/ DequeueFails(d) PROVE faults \subseteq faults'
    BY <1>2 DEF LoopStep, DequeueFails, CheckFlow, CheckPoll, Reject, Discard, HandOver, Orphan,
         LoopGoesOn, Happens
<1>3. ASSUME NEW k \in tasks, TaskStep(k) PROVE faults \subseteq faults'
    BY <1>3 DEF TaskStep, ReportOfGone, Complete, Return, ReleaseSlot, Promote, ReadPollingLock,
         DeletePollingLock, CleanupFails, Happens
<1>4. ASSUME NEW c \in Connections, Disconnect(c) PROVE faults \subseteq faults'
    BY <1>4 DEF Disconnect, Breaks
<1>5. ASSUME NEW j \in Jobs, QueueStep(j) PROVE faults \subseteq faults'
    BY <1>5 DEF QueueStep, Dequeue, FailDeferred, Due, Lapse, StalledScan, Happens
<1>6. ASSUME NEW j \in FlowJobs, SlotExpires(j) PROVE faults \subseteq faults'
    BY <1>6 DEF SlotExpires
<1>7. CASE PollingLockExpires \/ Disable \/ AppDies \/ UNCHANGED vars
    BY <1>7 DEF PollingLockExpires, Disable, AppDies, Happens, vars
<1> QED
    BY <1>1, <1>2, <1>3, <1>4, <1>5, <1>6, <1>7, NextSteps

\* The steps that move a job, lock it or unlock it.
LEMMA LockSteps ==
    ASSUME [Next]_vars
    PROVE  \/ UNCHANGED <<queue, lock, stalls>>
           \/ \E j \in Jobs : QueueStep(j)
           \/ \E d \in loop.held : Reject(d) \/ Discard(d)
           \/ \E k \in tasks : Complete(k) \/ Return(k) \/ Promote(k)
<1>1. ASSUME NEW w \in Workers, WorkerStep(w) PROVE UNCHANGED <<queue, lock, stalls>>
    BY <1>1 DEF WorkerStep, Connect, Poll, PollTimesOut, Drop, Finish, LateReport, LateReportIsLost
<1>2. ASSUME NEW d \in loop.held, LoopStep(d) \/ DequeueFails(d), ~Reject(d), ~Discard(d)
      PROVE  UNCHANGED <<queue, lock, stalls>>
    BY <1>2 DEF LoopStep, DequeueFails, CheckFlow, CheckPoll, HandOver, Orphan, LoopGoesOn
<1>3. ASSUME NEW k \in tasks, TaskStep(k), ~Complete(k), ~Return(k), ~Promote(k)
      PROVE  UNCHANGED <<queue, lock, stalls>>
    BY <1>3 DEF TaskStep, ReportOfGone, ReleaseSlot, ReadPollingLock,
         DeletePollingLock, CleanupFails
<1>4. ASSUME NEW c \in Connections, Disconnect(c) PROVE UNCHANGED <<queue, lock, stalls>>
    BY <1>4 DEF Disconnect
<1>5. ASSUME NEW j \in FlowJobs, SlotExpires(j) PROVE UNCHANGED <<queue, lock, stalls>>
    BY <1>5 DEF SlotExpires
<1>6. CASE PollingLockExpires \/ Disable \/ AppDies \/ UNCHANGED vars
    BY <1>6 DEF PollingLockExpires, Disable, AppDies, vars
<1> QED
    BY <1>1, <1>2, <1>3, <1>4, <1>5, <1>6, NextSteps

\* The steps that take a slot or give it back.
LEMMA SlotSteps ==
    ASSUME [Next]_vars
    PROVE  \/ UNCHANGED slot
           \/ \E d \in loop.held : CheckFlow(d)
           \/ \E k \in tasks : ReleaseSlot(k)
           \/ \E j \in FlowJobs : SlotExpires(j)
<1>1. ASSUME NEW w \in Workers, WorkerStep(w) PROVE UNCHANGED slot
    BY <1>1 DEF WorkerStep, Connect, Poll, PollTimesOut, Drop, Finish, LateReport, LateReportIsLost
<1>2. ASSUME NEW d \in loop.held, LoopStep(d) \/ DequeueFails(d), ~CheckFlow(d)
      PROVE  UNCHANGED slot
    BY <1>2 DEF LoopStep, DequeueFails, CheckPoll, Reject, Discard, HandOver, Orphan, LoopGoesOn
<1>3. ASSUME NEW k \in tasks, TaskStep(k), ~ReleaseSlot(k) PROVE UNCHANGED slot
    BY <1>3 DEF TaskStep, ReportOfGone, Complete, Return, Promote, ReadPollingLock,
         DeletePollingLock, CleanupFails
<1>4. ASSUME NEW c \in Connections, Disconnect(c) PROVE UNCHANGED slot
    BY <1>4 DEF Disconnect
<1>5. ASSUME NEW j \in Jobs, QueueStep(j) PROVE UNCHANGED slot
    BY <1>5 DEF QueueStep, Dequeue, FailDeferred, Due, Lapse, StalledScan
<1>6. CASE PollingLockExpires \/ Disable \/ AppDies \/ UNCHANGED vars
    BY <1>6 DEF PollingLockExpires, Disable, AppDies, vars
<1> QED
    BY <1>1, <1>2, <1>3, <1>4, <1>5, <1>6, NextSteps

\* The steps of the loop.
LEMMA LoopSteps ==
    ASSUME [Next]_vars
    PROVE  \/ UNCHANGED loop
           \/ \E j \in Jobs : Dequeue(j)
           \/ \E d \in loop.held : LoopStep(d)
           \/ loop' = Idle
<1>1. ASSUME NEW w \in Workers, WorkerStep(w) PROVE UNCHANGED loop
    BY <1>1 DEF WorkerStep, Connect, Poll, PollTimesOut, Drop, Finish, LateReport, LateReportIsLost
<1>2. ASSUME NEW d \in loop.held, DequeueFails(d) PROVE loop' = Idle
    BY <1>2 DEF DequeueFails
<1>3. ASSUME NEW k \in tasks, TaskStep(k) PROVE UNCHANGED loop
    BY <1>3 DEF TaskStep, ReportOfGone, Complete, Return, ReleaseSlot, Promote, ReadPollingLock,
         DeletePollingLock, CleanupFails
<1>4. ASSUME NEW c \in Connections, Disconnect(c) PROVE UNCHANGED loop
    BY <1>4 DEF Disconnect
<1>5. ASSUME NEW j \in Jobs, QueueStep(j), ~Dequeue(j) PROVE UNCHANGED loop
    BY <1>5 DEF QueueStep, FailDeferred, Due, Lapse, StalledScan
<1>6. ASSUME NEW j \in FlowJobs, SlotExpires(j) PROVE UNCHANGED loop
    BY <1>6 DEF SlotExpires
<1>8. CASE AppDies
    BY <1>8 DEF AppDies
<1>7. CASE PollingLockExpires \/ Disable \/ UNCHANGED vars
    BY <1>7 DEF PollingLockExpires, Disable, vars
<1> QED
    BY <1>1, <1>2, <1>3, <1>4, <1>5, <1>6, <1>7, <1>8, NextSteps

\* The steps that begin, continue or end a report or a return.
LEMMA TaskSteps ==
    ASSUME [Next]_vars
    PROVE  \/ UNCHANGED tasks
           \/ \E d \in loop.held : Orphan(d)
           \/ \E k \in tasks : TaskStep(k)
           \/ \E c \in Connections : Disconnect(c)
           \/ \E w \in Workers : \E d \in work[w].held, kind \in {"ok", "fail"} : Finish(w, d, kind)
           \/ \E w \in Workers : \E x \in killed : LateReport(w, x[2])
           \/ AppDies
<1>1. ASSUME NEW w \in Workers, WorkerStep(w),
             ~\E d \in work[w].held, kind \in {"ok", "fail"} : Finish(w, d, kind),
             ~\E x \in killed : LateReport(w, x[2])
      PROVE  UNCHANGED tasks
    BY <1>1 DEF WorkerStep, Connect, Poll, PollTimesOut, Drop, LateReportIsLost
<1>2. ASSUME NEW d \in loop.held, LoopStep(d) \/ DequeueFails(d), ~Orphan(d)
      PROVE  UNCHANGED tasks
    BY <1>2 DEF LoopStep, DequeueFails, CheckFlow, CheckPoll, Reject, Discard, HandOver, LoopGoesOn
<1>3. ASSUME NEW j \in Jobs, QueueStep(j) PROVE UNCHANGED tasks
    BY <1>3 DEF QueueStep, Dequeue, FailDeferred, Due, Lapse, StalledScan
<1>4. ASSUME NEW j \in FlowJobs, SlotExpires(j) PROVE UNCHANGED tasks
    BY <1>4 DEF SlotExpires
<1>5. CASE PollingLockExpires \/ Disable \/ UNCHANGED vars
    BY <1>5 DEF PollingLockExpires, Disable, vars
<1> QED
    BY <1>1, <1>2, <1>3, <1>4, <1>5, NextSteps

\* The steps that assign a job or end an assignment.
LEMMA AssignedSteps ==
    ASSUME [Next]_vars
    PROVE  \/ UNCHANGED <<assigned, keys>>
           \/ \E d \in loop.held : HandOver(d)
           \/ \E k \in tasks : Complete(k)
           \/ \E c \in Connections : Disconnect(c)
           \/ AppDies
<1>1. ASSUME NEW w \in Workers, WorkerStep(w) PROVE UNCHANGED <<assigned, keys>>
    BY <1>1 DEF WorkerStep, Connect, Poll, PollTimesOut, Drop, Finish, LateReport, LateReportIsLost
<1>2. ASSUME NEW d \in loop.held, LoopStep(d) \/ DequeueFails(d), ~HandOver(d)
      PROVE  UNCHANGED <<assigned, keys>>
    BY <1>2 DEF LoopStep, DequeueFails, CheckFlow, CheckPoll, Reject, Discard, Orphan, LoopGoesOn
<1>3. ASSUME NEW k \in tasks, TaskStep(k), ~Complete(k) PROVE UNCHANGED <<assigned, keys>>
    BY <1>3 DEF TaskStep, ReportOfGone, Return, ReleaseSlot, Promote, ReadPollingLock,
         DeletePollingLock, CleanupFails
<1>4. ASSUME NEW j \in Jobs, QueueStep(j) PROVE UNCHANGED <<assigned, keys>>
    BY <1>4 DEF QueueStep, Dequeue, FailDeferred, Due, Lapse, StalledScan
<1>5. ASSUME NEW j \in FlowJobs, SlotExpires(j) PROVE UNCHANGED <<assigned, keys>>
    BY <1>5 DEF SlotExpires
<1>6. CASE PollingLockExpires \/ Disable \/ UNCHANGED vars
    BY <1>6 DEF PollingLockExpires, Disable, vars
<1> QED
    BY <1>1, <1>2, <1>3, <1>4, <1>5, <1>6, NextSteps

\* The steps of the workers and their connections.
LEMMA ConnectionSteps ==
    ASSUME [Next]_vars
    PROVE  \/ UNCHANGED <<open, conn, made, work, killed>>
           \/ \E w \in Workers : WorkerStep(w)
           \/ \E d \in loop.held : HandOver(d)
           \/ \E c \in Connections : Disconnect(c)
           \/ AppDies
<1>1. ASSUME NEW d \in loop.held, LoopStep(d) \/ DequeueFails(d), ~HandOver(d)
      PROVE  UNCHANGED <<open, conn, made, work, killed>>
    BY <1>1 DEF LoopStep, DequeueFails, CheckFlow, CheckPoll, Reject, Discard, Orphan, LoopGoesOn
<1>2. ASSUME NEW k \in tasks, TaskStep(k) PROVE UNCHANGED <<open, conn, made, work, killed>>
    BY <1>2 DEF TaskStep, ReportOfGone, Complete, Return, ReleaseSlot, Promote, ReadPollingLock,
         DeletePollingLock, CleanupFails
<1>3. ASSUME NEW j \in Jobs, QueueStep(j) PROVE UNCHANGED <<open, conn, made, work, killed>>
    BY <1>3 DEF QueueStep, Dequeue, FailDeferred, Due, Lapse, StalledScan
<1>4. ASSUME NEW j \in FlowJobs, SlotExpires(j) PROVE UNCHANGED <<open, conn, made, work, killed>>
    BY <1>4 DEF SlotExpires
<1>5. CASE PollingLockExpires \/ Disable \/ UNCHANGED vars
    BY <1>5 DEF PollingLockExpires, Disable, vars
<1> QED
    BY <1>1, <1>2, <1>3, <1>4, <1>5, NextSteps

(***************************************************************************)
(* Types.                                                                  *)
(***************************************************************************)
\* The first state is of the declared types.
LEMMA InitTypes == Init => Types
<1> SUFFICES ASSUME Init PROVE Types OBVIOUS
<1>1. QueueTypes /\ SlotTypes
    BY DEF Init, QueueTypes, SlotTypes, Jobs
<1>2. LoopTypes
    BY DEF Init, LoopTypes, Idle, OneOrNone
<1>3. AppTypes
    BY DEF Init, AppTypes, OneOrNone
<1>4. WorkerTypes
    BY JobDispatchAssumption DEF Init, WorkerTypes, Idle, OneOrNone
<1> QED
    BY <1>1, <1>2, <1>3, <1>4 DEF Types

\* What the loop holds is a delivery, and there is one.
LEMMA LoopHeld ==
    ASSUME LoopTypes, NEW d \in loop.held
    PROVE  d \in Delivery /\ loop.held = {d}
BY DEF LoopTypes, OneOrNone

\* What a worker executes is a delivery, and there is one.
LEMMA WorkHeld ==
    ASSUME WorkerTypes, NEW w \in Workers, NEW d \in work[w].held
    PROVE  d \in Delivery /\ work[w].held = {d}
BY DEF WorkerTypes, OneOrNone

\* A job's state and its lock keep their types.
LEMMA NextQueueTypes ==
    ASSUME Types, [Next]_vars
    PROVE  QueueTypes'
<1> USE DEF Types
<1>1. ASSUME NEW j \in Jobs, QueueStep(j)
      PROVE  QueueTypes'
  <2>1. CASE Dequeue(j)
      BY <2>1 DEF Dequeue, QueueTypes
  <2>2. CASE FailDeferred(j) \/ Due(j) \/ Lapse(j) \/ StalledScan(j)
      BY <2>2 DEF FailDeferred, Due, Lapse, StalledScan, QueueTypes
  <2> QED
      BY <1>1, <2>1, <2>2 DEF QueueStep
<1>2. ASSUME NEW d \in loop.held, Reject(d) \/ Discard(d)
      PROVE  QueueTypes'
    BY <1>2 DEF Reject, Discard, QueueTypes
<1>3. ASSUME NEW k \in tasks, Complete(k) \/ Return(k) \/ Promote(k)
      PROVE  QueueTypes'
  <2>1. CASE Complete(k)
      BY <2>1 DEF Complete, MoveTo, QueueTypes
  <2>2. CASE Return(k)
      BY <2>2 DEF Return, MoveTo, QueueTypes
  <2>3. CASE Promote(k)
      BY <2>3 DEF Promote, QueueTypes
  <2> QED
      BY <1>3, <2>1, <2>2, <2>3
<1> QED
    BY <1>1, <1>2, <1>3, LockSteps DEF QueueTypes

\* The slots keep their type.
LEMMA NextSlotTypes ==
    ASSUME Types, [Next]_vars
    PROVE  SlotTypes'
<1> USE DEF Types
<1>1. ASSUME NEW d \in loop.held, CheckFlow(d) PROVE SlotTypes'
  <2>1. d \in Delivery
      BY LoopHeld
  <2> QED
      BY <1>1, <2>1 DEF CheckFlow, AcquireSlot, SlotTypes, Delivery
<1>2. ASSUME NEW k \in tasks, ReleaseSlot(k) PROVE SlotTypes'
    BY <1>2 DEF ReleaseSlot, SlotTypes
<1>3. ASSUME NEW j \in FlowJobs, SlotExpires(j) PROVE SlotTypes'
    BY <1>3 DEF SlotExpires, SlotTypes
<1> QED
    BY <1>1, <1>2, <1>3, SlotSteps DEF SlotTypes

\* The loop holds a delivery or none.
LEMMA NextLoopTypes ==
    ASSUME Types, [Next]_vars
    PROVE  LoopTypes'
<1> USE DEF Types
<1>1. ASSUME NEW at \in {"idle", "check", "reject", "discard", "hand", "return"}, NEW d \in Delivery,
             loop' = At(at, d)
      PROVE  LoopTypes'
    BY <1>1 DEF At, LoopTypes, OneOrNone
<1>2. CASE loop' = Idle
    BY <1>2 DEF Idle, LoopTypes, OneOrNone
<1>3. ASSUME NEW j \in Jobs, Dequeue(j) PROVE LoopTypes'
  <2>1. PICK t \in Tokens : loop' = At("check", [job |-> j, token |-> t])
      BY <1>3 DEF Dequeue
  <2>2. [job |-> j, token |-> t] \in Delivery
      BY DEF Delivery
  <2> QED
      BY <1>1, <2>1, <2>2
<1>4. ASSUME NEW d \in loop.held, LoopStep(d) PROVE LoopTypes'
  <2>1. d \in Delivery
      BY LoopHeld
  <2>2. \/ loop' = Idle
        \/ \E at \in {"idle", "check", "reject", "discard", "hand", "return"} : loop' = At(at, d)
    <3>1. CASE CheckFlow(d)
        BY <3>1 DEF CheckFlow, AcquireSlot
    <3>2. CASE CheckPoll(d)
        BY <3>2 DEF CheckPoll
    <3>3. CASE Reject(d) \/ Discard(d) \/ HandOver(d) \/ Orphan(d) \/ LoopGoesOn(d)
        BY <3>3 DEF Reject, Discard, HandOver, Orphan, LoopGoesOn
    <3> QED
        BY <1>4, <3>1, <3>2, <3>3 DEF LoopStep
  <2> QED
      BY <1>1, <1>2, <2>1, <2>2
<1> QED
    BY <1>2, <1>3, <1>4, LoopSteps DEF LoopTypes

\* The reports and returns under way are such, and what is assigned is assigned to connections.
LEMMA NextAppTypes ==
    ASSUME Types, [Next]_vars
    PROVE  AppTypes'
<1> USE DEF Types
<1>1. open' \subseteq Connections
  <2>1. ASSUME NEW w \in Workers, WorkerStep(w) PROVE open' \subseteq Connections
    <3>1. CASE Connect(w)
        BY <3>1, JobDispatchAssumption DEF Connect, AppTypes, WorkerTypes, Connections
    <3>2. CASE ~Connect(w)
      <4>1. UNCHANGED open
          BY <2>1, <3>2 DEF WorkerStep, Poll, PollTimesOut, Drop, Finish, LateReport, LateReportIsLost
      <4> QED
          BY <4>1 DEF AppTypes
    <3> QED
        BY <3>1, <3>2
  <2>2. ASSUME NEW d \in loop.held, HandOver(d) PROVE open' \subseteq Connections
      BY <2>2 DEF HandOver, AppTypes
  <2>3. ASSUME NEW c \in Connections, Disconnect(c) PROVE open' \subseteq Connections
      BY <2>3 DEF Disconnect, AppTypes
  <2>4. ASSUME AppDies PROVE open' \subseteq Connections
      BY <2>4 DEF AppDies
  <2> QED
      BY <2>1, <2>2, <2>3, <2>4, ConnectionSteps DEF AppTypes
<1> DEFINE TrackerTypes ==
        /\ assigned \in [Jobs -> OneOrNone([conn : Connections, token : Tokens])]
        /\ keys \in [Connections -> SUBSET Jobs]
<1>2. TrackerTypes'
  <2>1. ASSUME NEW d \in loop.held, HandOver(d) PROVE TrackerTypes'
    <3>1. d \in Delivery
        BY LoopHeld
    <3>2. PICK c \in open : /\ assigned' = [assigned EXCEPT ![d.job] = {[conn |-> c, token |-> d.token]}]
                            /\ keys' = [keys EXCEPT ![c] = @ \cup {d.job}]
        BY <2>1 DEF HandOver, FirstConnected
    <3>3. c \in Connections /\ d.job \in Jobs /\ d.token \in Tokens
        BY <3>1 DEF AppTypes, Delivery
    <3> QED
        BY <3>2, <3>3 DEF AppTypes, OneOrNone
  <2>2. ASSUME NEW k \in tasks, Complete(k) PROVE TrackerTypes'
      BY <2>2 DEF Complete, Clear, AppTypes, OneOrNone
  <2>3. ASSUME NEW c \in Connections, Disconnect(c) PROVE TrackerTypes'
      BY <2>3 DEF Disconnect, AppTypes, OneOrNone
  <2>4. ASSUME AppDies PROVE TrackerTypes'
      BY <2>4 DEF AppDies, OneOrNone
  <2> QED
      BY <2>1, <2>2, <2>3, <2>4, AssignedSteps DEF AppTypes
<1>3. tasks' \subseteq Task
  <2>1. ASSUME NEW d \in Delivery, NEW kind \in {"ok", "fail", "return"},
               NEW step \in {"move", "release", "delete", "promote"}
        PROVE  [held |-> d, kind |-> kind, step |-> step] \in Task
      BY DEF Task
  <2>2. ASSUME NEW d \in loop.held, Orphan(d) PROVE tasks' \subseteq Task
      BY <2>1, <2>2, LoopHeld DEF Orphan, AppTypes
  <2>3. ASSUME NEW k \in tasks, TaskStep(k) PROVE tasks' \subseteq Task
    <3>1. ASSUME NEW step \in {"move", "release", "delete", "promote"}, GoesOn(k, step)
          PROVE  tasks' \subseteq Task
        BY <3>1 DEF GoesOn, AppTypes, Task
    <3>2. CASE Ends(k)
        BY <3>2 DEF Ends, AppTypes
    <3>3. Ends(k) \/ \E step \in {"move", "release", "delete", "promote"} : GoesOn(k, step)
        BY <2>3 DEF TaskStep, ReportOfGone, Complete, Return, ReleaseSlot, Promote, ReadPollingLock,
             DeletePollingLock, CleanupFails
    <3> QED
        BY <3>1, <3>2, <3>3
  <2>4. ASSUME NEW c \in Connections, Disconnect(c) PROVE tasks' \subseteq Task
      BY <2>1, <2>4 DEF Disconnect, TakenBy, AppTypes
  <2>5. ASSUME NEW w \in Workers, NEW d \in work[w].held, NEW kind \in {"ok", "fail"}, Finish(w, d, kind)
        PROVE  tasks' \subseteq Task
    <3>1. d \in Delivery
        BY WorkHeld
    <3>2. [held |-> d, kind |-> kind, step |-> "move"] \in Task
        BY <2>1, <3>1
    <3> QED
        BY <2>5, <3>2 DEF Finish, AppTypes
  <2>6. ASSUME NEW w \in Workers, NEW x \in killed, LateReport(w, x[2]) PROVE tasks' \subseteq Task
    <3>1. x[2] \in Delivery
        BY DEF WorkerTypes
    <3> QED
        BY <2>1, <2>6, <3>1 DEF LateReport, AppTypes
  <2>7. ASSUME AppDies PROVE tasks' \subseteq Task
      BY <2>7 DEF AppDies
  <2> QED
      BY <2>2, <2>3, <2>4, <2>5, <2>6, <2>7, TaskSteps DEF AppTypes
<1> QED
    BY <1>1, <1>2, <1>3 DEF AppTypes

\* A worker does nothing, polls, or executes a delivery.
LEMMA NextWorkerTypes ==
    ASSUME Types, [Next]_vars
    PROVE  WorkerTypes'
<1> USE DEF Types
<1>1. Idle \in [at : {"idle", "polling", "running"}, held : OneOrNone(Delivery)]
    BY DEF Idle, OneOrNone
<1>2. ASSUME NEW w \in Workers, WorkerStep(w) PROVE WorkerTypes'
  <2>1. CASE Connect(w)
      BY <2>1, JobDispatchAssumption DEF Connect, WorkerTypes
  <2>2. CASE Poll(w)
    <3>1. [at |-> "polling", held |-> {}] \in [at : {"idle", "polling", "running"}, held : OneOrNone(Delivery)]
        BY DEF OneOrNone
    <3> QED
        BY <2>2, <3>1 DEF Poll, WorkerTypes
  <2>3. CASE PollTimesOut(w)
      BY <1>1, <2>3 DEF PollTimesOut, WorkerTypes
  <2>4. CASE Drop(w)
    <3>1. killed' \subseteq Workers \X Delivery
        BY <2>4, WorkHeld DEF Drop, WorkerTypes
    <3>2. 0 \in 0..MaxConnections
        BY JobDispatchAssumption
    <3> QED
        BY <1>1, <2>4, <3>1, <3>2 DEF Drop, WorkerTypes
  <2>5. ASSUME NEW d \in work[w].held, NEW kind \in {"ok", "fail"}, Finish(w, d, kind) PROVE WorkerTypes'
      BY <1>1, <2>5 DEF Finish, WorkerTypes
  <2>6. ASSUME NEW x \in killed, LateReport(w, x[2]) \/ LateReportIsLost(w, x[2]) PROVE WorkerTypes'
      BY <2>6 DEF LateReport, LateReportIsLost, WorkerTypes
  <2> QED
      BY <1>2, <2>1, <2>2, <2>3, <2>4, <2>5, <2>6 DEF WorkerStep
<1>3. ASSUME NEW d \in loop.held, HandOver(d) PROVE WorkerTypes'
  <2>1. At("running", d) \in [at : {"idle", "polling", "running"}, held : OneOrNone(Delivery)]
    <3>1. d \in Delivery
        BY LoopHeld
    <3>2. {d} \in OneOrNone(Delivery)
        BY <3>1 DEF OneOrNone
    <3> QED
        BY <3>2 DEF At
  <2>2. \/ work' = work
        \/ \E v \in Workers : work' = [work EXCEPT ![v] = At("running", d)]
    <3>1. PICK i \in FirstConnected :
              work' = IF conn[waiters[i][1]] = waiters[i][2]
                      THEN [work EXCEPT ![waiters[i][1]] = At("running", d)] ELSE work
        BY <1>3 DEF HandOver
    <3>2. waiters[i][1] \in Workers
        BY <3>1 DEF FirstConnected, AppTypes, Connections
    <3> QED
        BY <3>1, <3>2
  <2>3. UNCHANGED <<conn, made, killed>>
      BY <1>3 DEF HandOver
  <2> QED
      BY <2>1, <2>2, <2>3 DEF WorkerTypes
<1>4. ASSUME NEW c \in Connections, Disconnect(c) PROVE WorkerTypes'
    BY <1>4 DEF Disconnect, WorkerTypes
<1>5. ASSUME AppDies PROVE WorkerTypes'
    BY <1>5 DEF AppDies, WorkerTypes
<1> QED
    BY <1>2, <1>3, <1>4, <1>5, ConnectionSteps DEF WorkerTypes

\* Every step keeps the types.
LEMMA NextTypes ==
    ASSUME Types, [Next]_vars
    PROVE  Types'
BY NextQueueTypes, NextSlotTypes, NextLoopTypes, NextAppTypes, NextWorkerTypes DEF Types

(***************************************************************************)
(* The first state, and what a fresh token and the steps of tasks mean.    *)
(***************************************************************************)
\* Nothing is held, assigned or locked in the first state.
LEMMA InitInv == Init => Inv
<1> SUFFICES ASSUME Init PROVE Inv OBVIOUS
<1>1. Types
    BY InitTypes
<1>2. LoopHolds /\ LockedIsActive /\ OnePlace /\ OfflineIdle
    BY DEF Init, LoopHolds, LockedIsActive, OnePlace, OfflineIdle, Idle
<1>3. AssignedToItsConnection /\ ReturnedIsUnassigned /\ MadeBefore /\ AssignedIsLocked /\ KeysMatch
    BY DEF Init, AssignedToItsConnection, ReturnedIsUnassigned, MadeBefore, AssignedIsLocked,
         KeysMatch, Idle
<1>4. LiveIsUntouched /\ SlotIsHeldForAJob
    BY DEF Init, LiveIsUntouched, SlotIsHeldForAJob, Slots, Idle
<1> QED
    BY <1>1, <1>2, <1>3, <1>4 DEF Inv

\* A token that is not in use for a job makes a delivery that nobody knows.
LEMMA Freshness ==
    ASSUME NEW j \in Jobs, NEW t \in Tokens \ InUse(j)
    PROVE  /\ \A k \in tasks : k.held # [job |-> j, token |-> t]
           /\ \A a \in assigned[j] : a.token # t
           /\ \A w \in Workers : [job |-> j, token |-> t] \notin work[w].held
           /\ \A w \in Workers : <<w, [job |-> j, token |-> t]>> \notin killed
<1> DEFINE d == [job |-> j, token |-> t]
<1>1. d.job = j /\ d.token = t
    OBVIOUS
<1> HIDE DEF d
<1>2. ASSUME NEW k \in tasks, k.held = d PROVE FALSE
    BY <1>1, <1>2 DEF InUse
<1>3. ASSUME NEW a \in assigned[j], a.token = t PROVE FALSE
    BY <1>3 DEF InUse
<1>4. ASSUME NEW w \in Workers, d \in work[w].held PROVE FALSE
    BY <1>1, <1>4 DEF InUse
<1>5. ASSUME NEW w \in Workers, <<w, d>> \in killed PROVE FALSE
    BY <1>1, <1>5 DEF InUse
<1> QED
    BY <1>2, <1>3, <1>4, <1>5 DEF d

\* Two deliveries of a job under one token are one.
LEMMA SameDelivery ==
    ASSUME NEW d \in Delivery, NEW e \in Delivery, d.job = e.job, d.token = e.token
    PROVE  d = e
BY DEF Delivery

\* A step of a task keeps the others and begins none.
LEMMA TaskHeld ==
    ASSUME Types, NEW k \in tasks, TaskStep(k)
    PROVE  /\ \A l \in tasks' : \E m \in tasks : m.held = l.held /\ m.kind = l.kind
           /\ tasks \ {k} \subseteq tasks'
<1>1. ASSUME NEW step \in {"move", "release", "delete", "promote"}, GoesOn(k, step)
      PROVE  /\ \A l \in tasks' : \E m \in tasks : m.held = l.held /\ m.kind = l.kind
             /\ tasks \ {k} \subseteq tasks'
    BY <1>1 DEF GoesOn, Types, AppTypes, Task
<1>2. CASE Ends(k)
    BY <1>2 DEF Ends
<1>3. Ends(k) \/ \E step \in {"move", "release", "delete", "promote"} : GoesOn(k, step)
    BY DEF TaskStep, ReportOfGone, Complete, Return, ReleaseSlot, Promote, ReadPollingLock,
         DeletePollingLock, CleanupFails
<1> QED
    BY <1>1, <1>2, <1>3

\* Only an active job is locked: a job leaves "active" with its lock or without one.
LEMMA NextLockedIsActive ==
    ASSUME Inv, [Next]_vars
    PROVE  LockedIsActive'
<1> USE DEF Inv, Types
<1>1. ASSUME NEW j \in Jobs, QueueStep(j) PROVE LockedIsActive'
  <2>1. CASE Dequeue(j)
      BY <2>1 DEF Dequeue, QueueTypes, LockedIsActive
  <2>2. CASE FailDeferred(j) \/ Due(j)
      BY <2>2 DEF FailDeferred, Due, QueueTypes, LockedIsActive
  <2>3. CASE Lapse(j) \/ StalledScan(j)
      BY <2>3 DEF Lapse, StalledScan, QueueTypes, LockedIsActive
  <2> QED
      BY <1>1, <2>1, <2>2, <2>3 DEF QueueStep
<1>2. ASSUME NEW d \in loop.held, Reject(d) \/ Discard(d) PROVE LockedIsActive'
    BY <1>2, LoopHeld DEF Reject, Discard, QueueTypes, LockedIsActive, Delivery
<1>3. ASSUME NEW k \in tasks, Complete(k) \/ Return(k) \/ Promote(k) PROVE LockedIsActive'
  <2>1. k.held.job \in Jobs
      BY DEF AppTypes, Task, Delivery
  <2>2. CASE Complete(k)
      BY <2>1, <2>2 DEF Complete, MoveTo, QueueTypes, LockedIsActive
  <2>3. CASE Return(k)
      BY <2>1, <2>3 DEF Return, MoveTo, QueueTypes, LockedIsActive
  <2>4. CASE Promote(k)
      BY <2>4 DEF Promote, QueueTypes, LockedIsActive
  <2> QED
      BY <1>3, <2>2, <2>3, <2>4
<1> QED
    BY <1>1, <1>2, <1>3, LockSteps DEF LockedIsActive

\* What the loop holds stays active and locked for it, unknown to everybody else, until the
\* loop gives it away.
LEMMA NextLoopHolds ==
    ASSUME Inv, [Next]_vars
    PROVE  LoopHolds'
<1> USE DEF Inv, Types
<1>1. CASE UNCHANGED loop
  <2> SUFFICES ASSUME NEW d \in loop.held, loop.at \in {"check", "reject", "discard", "hand"}
               PROVE  /\ queue'[d.job] = "active" /\ lock'[d.job] = d.token
                      /\ \A k \in tasks' : k.held # d
                      /\ \A a \in assigned'[d.job] : a.token # d.token
                      /\ loop.at = "reject" /\ d.job \in FlowJobs => slot'[d.job] = NoToken
                      /\ loop.at = "discard" => d.job \in PollJobs
      BY <1>1 DEF LoopHolds
  <2>1. /\ d \in Delivery /\ loop.held = {d}
        /\ d.job \in Jobs /\ d.token \in Tokens /\ d.token # NoToken
      BY LoopHeld DEF Delivery, Tokens, NoToken
  <2>2. /\ queue[d.job] = "active" /\ lock[d.job] = d.token
        /\ \A k \in tasks : k.held # d
        /\ \A a \in assigned[d.job] : a.token # d.token
        /\ loop.at = "reject" /\ d.job \in FlowJobs => slot[d.job] = NoToken
        /\ loop.at = "discard" => d.job \in PollJobs
      BY DEF LoopHolds
  <2>3. loop # Idle /\ loop.at # "return"
      BY <2>1 DEF Idle
  <2>4. queue'[d.job] = "active" /\ lock'[d.job] = d.token
    <3>1. ASSUME NEW j \in Jobs, QueueStep(j) PROVE queue'[d.job] = "active" /\ lock'[d.job] = d.token
      <4>1. CASE Dequeue(j) \/ FailDeferred(j)
          BY <2>3, <4>1 DEF Dequeue, FailDeferred
      <4>2. CASE Due(j)
          BY <2>1, <2>2, <4>2 DEF Due, QueueTypes
      <4>3. CASE Lapse(j)
        <5>1. lock[j] # d.token \/ j # d.job
          <6> SUFFICES ASSUME lock[j] = d.token, j = d.job PROVE FALSE OBVIOUS
          <6>1. [job |-> j, token |-> lock[j]] = d
              BY <2>1 DEF Delivery
          <6>2. Attended(d)
              BY DEF Attended
          <6>3. \A w \in Workers : ~Runs(w, d)
              BY DEF Runs, OnePlace
          <6> QED
              BY <4>3, <6>1, <6>2, <6>3 DEF Lapse
        <5> QED
            BY <2>1, <2>2, <4>3, <5>1 DEF Lapse, QueueTypes
      <4>4. CASE StalledScan(j)
          BY <2>1, <2>2, <4>4 DEF StalledScan, QueueTypes
      <4> QED
          BY <3>1, <4>1, <4>2, <4>3, <4>4 DEF QueueStep
    <3>2. ASSUME NEW e \in loop.held, Reject(e) \/ Discard(e) PROVE FALSE
        BY <1>1, <2>3, <3>2 DEF Reject, Discard
    <3>3. ASSUME NEW k \in tasks, Complete(k) \/ Return(k) \/ Promote(k) PROVE queue'[d.job] = "active" /\ lock'[d.job] = d.token
      <4>1. k.held \in Delivery /\ k.held.job \in Jobs
          BY DEF AppTypes, Task, Delivery
      <4>2. k.held.job = d.job => k.held.token # d.token
          BY <2>1, <2>2, <4>1, SameDelivery
      <4>3. CASE Complete(k)
          BY <2>1, <2>2, <4>1, <4>2, <4>3 DEF Complete, MoveTo, QueueTypes
      <4>4. CASE Return(k)
          BY <2>1, <2>2, <4>1, <4>2, <4>4 DEF Return, MoveTo, QueueTypes
      <4>5. CASE Promote(k)
          BY <2>1, <2>2, <4>5 DEF Promote, QueueTypes
      <4> QED
          BY <3>3, <4>3, <4>4, <4>5
    <3> QED
        BY <2>2, <3>1, <3>2, <3>3, LockSteps
  <2>5. \A k \in tasks' : k.held # d
    <3>1. ASSUME NEW e \in loop.held, Orphan(e) PROVE FALSE
        BY <1>1, <2>3, <3>1 DEF Orphan, At
    <3>2. ASSUME NEW k \in tasks, TaskStep(k) PROVE \A l \in tasks' : l.held # d
        BY <2>2, <3>2, TaskHeld
    <3>3. ASSUME NEW c \in Connections, Disconnect(c) PROVE \A l \in tasks' : l.held # d
      <4>1. d \notin TakenBy(c)
          BY <2>2 DEF TakenBy
      <4> QED
          BY <2>2, <3>3, <4>1 DEF Disconnect
    <3>4. ASSUME NEW w \in Workers, NEW e \in work[w].held, NEW kind \in {"ok", "fail"}, Finish(w, e, kind)
          PROVE  \A l \in tasks' : l.held # d
      <4>1. e # d
          BY DEF OnePlace
      <4> QED
          BY <2>2, <3>4, <4>1 DEF Finish
    <3>5. ASSUME NEW w \in Workers, NEW x \in killed, LateReport(w, x[2])
          PROVE  \A l \in tasks' : l.held # d
      <4>1. x[2] # d
          BY <3>5 DEF LateReport, OnePlace
      <4> QED
          BY <2>2, <3>5, <4>1 DEF LateReport
    <3>6. ASSUME AppDies PROVE FALSE
        BY <3>6, <1>1, <2>3 DEF AppDies
    <3> QED
        BY <2>2, <3>1, <3>2, <3>3, <3>4, <3>5, <3>6, TaskSteps
  <2>6. \A a \in assigned'[d.job] : a.token # d.token
    <3>1. ASSUME NEW e \in loop.held, HandOver(e) PROVE FALSE
        BY <1>1, <2>3, <3>1 DEF HandOver
    <3>2. ASSUME NEW k \in tasks, Complete(k) PROVE assigned'[d.job] \subseteq assigned[d.job]
        BY <2>1, <3>2 DEF Complete, Clear, AppTypes
    <3>3. ASSUME NEW c \in Connections, Disconnect(c) PROVE assigned'[d.job] \subseteq assigned[d.job]
        BY <2>1, <3>3 DEF Disconnect, AppTypes
    <3>4. ASSUME AppDies PROVE assigned'[d.job] \subseteq assigned[d.job]
        BY <3>4, <2>1 DEF AppDies
    <3> QED
        BY <2>2, <3>1, <3>2, <3>3, <3>4, AssignedSteps
  <2>7. ASSUME loop.at = "reject", d.job \in FlowJobs PROVE slot'[d.job] = NoToken
    <3>1. ASSUME NEW e \in loop.held, CheckFlow(e) PROVE FALSE
        BY <2>7, <3>1 DEF CheckFlow, Holds
    <3>2. ASSUME NEW k \in tasks, ReleaseSlot(k) PROVE slot'[d.job] = NoToken
        BY <2>2, <2>7, <3>2 DEF ReleaseSlot, SlotTypes
    <3>3. ASSUME NEW j \in FlowJobs, SlotExpires(j) PROVE slot'[d.job] = NoToken
        BY <2>2, <2>7, <3>3 DEF SlotExpires, SlotTypes
    <3> QED
        BY <2>2, <2>7, <3>1, <3>2, <3>3, SlotSteps
  <2> QED
      BY <2>2, <2>4, <2>5, <2>6, <2>7
<1>2. CASE loop' = Idle
    BY <1>2 DEF Idle, LoopHolds
<1>3. ASSUME NEW j \in Jobs, Dequeue(j) PROVE LoopHolds'
  <2>1. PICK t \in Tokens \ InUse(j) : /\ lock' = [lock EXCEPT ![j] = t]
                                       /\ loop' = At("check", [job |-> j, token |-> t])
      BY <1>3 DEF Dequeue
  <2>2. /\ queue'[j] = "active" /\ lock'[j] = t
        /\ \A k \in tasks' : k.held # [job |-> j, token |-> t]
        /\ \A a \in assigned'[j] : a.token # t
      BY <1>3, <2>1, Freshness DEF Dequeue, QueueTypes
  <2> QED
      BY <2>1, <2>2 DEF LoopHolds, At
<1>4. ASSUME NEW d \in loop.held, LoopStep(d) PROVE LoopHolds'
  <2>1. d \in Delivery /\ loop.held = {d} /\ d.job \in Jobs
      BY LoopHeld DEF Delivery
  <2>2. CASE CheckFlow(d)
    <3>1. /\ queue'[d.job] = "active" /\ lock'[d.job] = d.token
          /\ \A k \in tasks' : k.held # d
          /\ \A a \in assigned'[d.job] : a.token # d.token
        BY <2>2 DEF CheckFlow, Holds, LoopHolds
    <3>2. \/ loop' = At("hand", d)
          \/ loop' = At("reject", d) /\ slot'[d.job] = NoToken
        BY <2>2 DEF CheckFlow, AcquireSlot
    <3> QED
        BY <3>1, <3>2 DEF LoopHolds, At
  <2>3. CASE CheckPoll(d)
    <3>1. /\ queue'[d.job] = "active" /\ lock'[d.job] = d.token
          /\ \A k \in tasks' : k.held # d
          /\ \A a \in assigned'[d.job] : a.token # d.token
        BY <2>3 DEF CheckPoll, Holds, LoopHolds
    <3>2. \E at \in {"hand", "reject", "discard"} : loop' = At(at, d)
        BY <2>3 DEF CheckPoll
    <3>3. d.job \in PollJobs /\ d.job \notin FlowJobs
        BY <2>3, JobDispatchAssumption DEF CheckPoll
    <3> QED
        BY <3>1, <3>2, <3>3 DEF LoopHolds, At
  <2>4. CASE Orphan(d)
      BY <2>4 DEF Orphan, LoopHolds, At
  <2>5. CASE Reject(d) \/ Discard(d) \/ HandOver(d) \/ LoopGoesOn(d)
      BY <1>2, <2>5 DEF Reject, Discard, HandOver, LoopGoesOn
  <2> QED
      BY <1>4, <2>2, <2>3, <2>4, <2>5 DEF LoopStep
<1> QED
    BY <1>1, <1>2, <1>3, <1>4, LoopSteps

\* A worker's own step leaves what the others execute, and begins no execution.
LEMMA WorkShrinks ==
    ASSUME Types, NEW w \in Workers, WorkerStep(w)
    PROVE  \A v \in Workers : work'[v].held \subseteq work[v].held
<1>1. \/ work' = work
      \/ work' = [work EXCEPT ![w] = Idle]
      \/ work' = [work EXCEPT ![w] = [at |-> "polling", held |-> {}]]
    BY DEF WorkerStep, Connect, Poll, PollTimesOut, Drop, Finish, LateReport, LateReportIsLost
<1> QED
    BY <1>1 DEF Idle, Types, WorkerTypes

\* A delivery moves from the loop to one worker, and from a worker to what a disconnect killed.
LEMMA NextOnePlace ==
    ASSUME Inv, [Next]_vars
    PROVE  OnePlace'
<1> USE DEF Inv, Types
<1>1. ASSUME loop'.held \subseteq loop.held, UNCHANGED <<work, killed>> PROVE OnePlace'
    BY <1>1 DEF OnePlace
<1>2. loop'.held \subseteq loop.held \/ \E j \in Jobs : Dequeue(j)
  <2>1. ASSUME NEW d \in loop.held, LoopStep(d) PROVE loop'.held \subseteq {d}
    <3>1. loop' = Idle \/ \E at \in {"hand", "reject", "discard", "return"} : loop' = At(at, d)
        BY <2>1 DEF LoopStep, CheckFlow, AcquireSlot, CheckPoll, Reject, Discard, HandOver, Orphan,
             LoopGoesOn
    <3> QED
        BY <3>1 DEF Idle, At
  <2> QED
      BY <2>1, LoopSteps DEF Idle
<1>3. ASSUME NEW w \in Workers, WorkerStep(w) PROVE OnePlace'
  <2>1. UNCHANGED loop
      BY <1>3 DEF WorkerStep, Connect, Poll, PollTimesOut, Drop, Finish, LateReport, LateReportIsLost
  <2>2. CASE Drop(w)
    <3>1. work'[w].held = {} /\ \A v \in Workers \ {w} : work'[v] = work[v]
        BY <2>2 DEF Drop, WorkerTypes, Idle
    <3>2. \A v \in Workers : \A d : <<v, d>> \in killed' => <<v, d>> \in killed \/ (v = w /\ d \in work[w].held)
        BY <2>2 DEF Drop
    <3> QED
        BY <2>1, <3>1, <3>2 DEF OnePlace
  <2>3. CASE Connect(w)
      BY <1>1, <2>3 DEF Connect
  <2>4. CASE ~Drop(w) /\ ~Connect(w)
    <3>1. killed' \subseteq killed
        BY <1>3, <2>4 DEF WorkerStep, Poll, PollTimesOut, Finish, LateReport, LateReportIsLost
    <3>2. \A v \in Workers : work'[v].held \subseteq work[v].held
        BY <1>3, WorkShrinks
    <3> QED
        BY <2>1, <3>1, <3>2 DEF OnePlace
  <2> QED
      BY <2>2, <2>3, <2>4
<1>4. ASSUME NEW d \in loop.held, HandOver(d) PROVE OnePlace'
  <2>1. loop'.held = {}
      BY <1>4 DEF HandOver, Idle
  <2>2. UNCHANGED killed /\ \E v \in Workers : \/ work' = work
                                              \/ work' = [work EXCEPT ![v] = At("running", d)]
    <3>1. PICK c \in open : work' = IF conn[c[1]] = c[2] THEN [work EXCEPT ![c[1]] = At("running", d)]
                                                         ELSE work
        BY <1>4 DEF HandOver, FirstConnected
    <3>2. c[1] \in Workers
        BY DEF AppTypes, Connections
    <3> QED
        BY <1>4, <3>1, <3>2 DEF HandOver
  <2> QED
    <3>1. PICK v \in Workers : work' = work \/ work' = [work EXCEPT ![v] = At("running", d)]
        BY <2>2
    <3>3. \A w \in Workers : \/ work'[w].held = work[w].held
                             \/ w = v /\ work'[w].held = {d}
      <4>1. At("running", d).held = {d}
          BY DEF At
      <4>2. \A w \in Workers : work'[w] = work[w] \/ (w = v /\ work'[w] = At("running", d))
          BY <3>1 DEF WorkerTypes
      <4> QED
          BY <4>1, <4>2
    <3>2. \A w \in Workers : d \notin work[w].held /\ <<w, d>> \notin killed
        BY DEF OnePlace
    <3> QED
      <4> SUFFICES ASSUME NEW w \in Workers, NEW u \in Workers, NEW e \in work'[w].held
                   PROVE  (e \in work'[u].held => u = w) /\ <<u, e>> \notin killed'
          BY <2>1 DEF OnePlace
      <4>1. CASE e = d
          BY <2>2, <3>2, <3>3, <4>1
      <4>2. CASE e # d
        <5>1. e \in work[w].held /\ (e \in work'[u].held => e \in work[u].held)
            BY <3>3, <4>2
        <5> QED
            BY <2>2, <5>1 DEF OnePlace
      <4> QED
          BY <4>1, <4>2
<1>5. ASSUME NEW c \in Connections, Disconnect(c) PROVE OnePlace'
    BY <1>1, <1>5 DEF Disconnect
<1>6. ASSUME NEW j \in Jobs, Dequeue(j) PROVE OnePlace'
  <2>1. PICK t \in Tokens \ InUse(j) : loop' = At("check", [job |-> j, token |-> t])
      BY <1>6 DEF Dequeue
  <2>2. UNCHANGED <<work, killed>>
      BY <1>6 DEF Dequeue
  <2> QED
      BY <2>1, <2>2, Freshness DEF OnePlace, At
<1>7. ASSUME AppDies PROVE OnePlace'
    BY <1>7, <1>1 DEF AppDies, Idle
<1> QED
    BY <1>1, <1>2, <1>3, <1>4, <1>5, <1>6, <1>7, ConnectionSteps

\* A worker executes over the connection it was handed the job on: it kills what it executes
\* when it leaves that connection.
LEMMA NextAssignedToItsConnection ==
    ASSUME Inv, [Next]_vars
    PROVE  AssignedToItsConnection'
<1> USE DEF Inv, Types
<1>1. ASSUME \A j \in Jobs : assigned'[j] \subseteq assigned[j],
             \A w \in Workers : work'[w].held \subseteq work[w].held,
             \A w \in Workers : work'[w].held # {} => conn'[w] = conn[w]
      PROVE  AssignedToItsConnection'
    BY <1>1, WorkHeld DEF AssignedToItsConnection, Delivery
<1>2. ASSUME NEW w \in Workers, WorkerStep(w) PROVE AssignedToItsConnection'
  <2>1. UNCHANGED assigned
      BY <1>2 DEF WorkerStep, Connect, Poll, PollTimesOut, Drop, Finish, LateReport, LateReportIsLost
  <2>2. \A v \in Workers : work'[v].held \subseteq work[v].held
      BY <1>2, WorkShrinks
  <2>3. \A v \in Workers : work'[v].held # {} => conn'[v] = conn[v]
    <3>1. CASE Connect(w)
        BY <3>1 DEF Connect, OfflineIdle, WorkerTypes
    <3>2. CASE Drop(w)
        BY <3>2 DEF Drop, WorkerTypes, Idle
    <3>3. CASE ~Connect(w) /\ ~Drop(w)
        BY <1>2, <3>3 DEF WorkerStep, Poll, PollTimesOut, Finish, LateReport, LateReportIsLost
    <3> QED
        BY <3>1, <3>2, <3>3
  <2> QED
      BY <1>1, <2>1, <2>2, <2>3
<1>3. ASSUME NEW d \in loop.held, HandOver(d) PROVE AssignedToItsConnection'
  <2>1. PICK c \in open : /\ assigned' = [assigned EXCEPT ![d.job] = {[conn |-> c, token |-> d.token]}]
                          /\ work' = IF conn[c[1]] = c[2] THEN [work EXCEPT ![c[1]] = At("running", d)]
                                                          ELSE work
      BY <1>3 DEF HandOver, FirstConnected
  <2>2. c[1] \in Workers /\ c = <<c[1], c[2]>>
      BY DEF AppTypes, Connections
  <2>3. d \in Delivery /\ UNCHANGED conn
      BY <1>3, LoopHeld DEF HandOver
  <2> SUFFICES ASSUME NEW w \in Workers, NEW e \in work'[w].held, NEW a \in assigned'[e.job],
                      a.token = e.token
               PROVE  a.conn = <<w, conn[w]>>
      BY <2>3 DEF AssignedToItsConnection
  <2>4. CASE e = d
    <3>1. a.conn = c
        BY <2>1, <2>3, <2>4 DEF AppTypes, Delivery
    <3>2. d \notin work[w].held
        BY DEF OnePlace
    <3>3. w = c[1] /\ conn[c[1]] = c[2]
        BY <2>1, <2>2, <2>4, <3>2 DEF WorkerTypes
    <3> QED
        BY <2>2, <3>1, <3>3
  <2>5. CASE e # d
    <3>1. e \in work[w].held
        BY <2>1, <2>2, <2>5 DEF WorkerTypes, At
    <3>2. e \in Delivery
        BY <3>1, WorkHeld
    <3>3. CASE e.job = d.job
      <4>1. a.token = d.token
          BY <2>1, <2>3, <3>3 DEF AppTypes, Delivery
      <4> QED
          BY <2>3, <2>5, <3>2, <3>3, <4>1, SameDelivery
    <3>4. CASE e.job # d.job
        BY <2>1, <2>3, <3>1, <3>2, <3>4 DEF AppTypes, AssignedToItsConnection
    <3> QED
        BY <3>3, <3>4
  <2> QED
      BY <2>4, <2>5
<1>4. ASSUME NEW k \in tasks, Complete(k) PROVE AssignedToItsConnection'
  <2>1. UNCHANGED <<work, conn>> /\ \A j \in Jobs : assigned'[j] \subseteq assigned[j]
      BY <1>4 DEF Complete, Clear, AppTypes
  <2> QED
      BY <1>1, <2>1
<1>5. ASSUME NEW c \in Connections, Disconnect(c) PROVE AssignedToItsConnection'
  <2>1. UNCHANGED <<work, conn>> /\ \A j \in Jobs : assigned'[j] \subseteq assigned[j]
      BY <1>5 DEF Disconnect
  <2> QED
      BY <1>1, <2>1
<1>6. CASE UNCHANGED <<assigned, work, conn>>
    BY <1>1, <1>6
<1>7. ASSUME AppDies PROVE AssignedToItsConnection'
    BY <1>7, <1>1 DEF AppDies
<1> QED
    BY <1>2, <1>3, <1>4, <1>5, <1>6, <1>7, AssignedSteps, ConnectionSteps

\* What is returned was not assigned, or is no longer.
LEMMA NextReturnedIsUnassigned ==
    ASSUME Inv, [Next]_vars
    PROVE  ReturnedIsUnassigned'
<1> USE DEF Inv, Types
<1> SUFFICES ASSUME NEW l \in tasks', l.kind = "return", NEW a \in assigned'[l.held.job],
                    a.token = l.held.token
             PROVE  FALSE
    BY DEF ReturnedIsUnassigned
<1>1. l.held \in Delivery /\ l.held.job \in Jobs
    BY NextAppTypes DEF AppTypes, Task, Delivery
<1>2. (\E m \in tasks : m.held = l.held /\ m.kind = "return")
      \/ (l.held \in loop.held /\ Orphan(l.held))
      \/ \E c \in Connections : Disconnect(c) /\ l.held \in TakenBy(c)
  <2>1. ASSUME NEW d \in loop.held, Orphan(d) PROVE l \in tasks \/ l.held = d
      BY <2>1 DEF Orphan
  <2>2. ASSUME NEW k \in tasks, TaskStep(k) PROVE \E m \in tasks : m.held = l.held /\ m.kind = "return"
      BY <2>2, TaskHeld
  <2>3. ASSUME NEW c \in Connections, Disconnect(c) PROVE l \in tasks \/ l.held \in TakenBy(c)
      BY <2>3 DEF Disconnect
  <2>4. ASSUME NEW w \in Workers, NEW d \in work[w].held, NEW kind \in {"ok", "fail"}, Finish(w, d, kind)
        PROVE  l \in tasks
      BY <2>4 DEF Finish
  <2>5. ASSUME NEW w \in Workers, NEW x \in killed, LateReport(w, x[2]) PROVE l \in tasks
      BY <2>5 DEF LateReport
  <2>6. ASSUME AppDies PROVE FALSE
      BY <2>6 DEF AppDies
  <2> QED
      BY <2>1, <2>2, <2>3, <2>4, <2>5, <2>6, TaskSteps
<1>3. a \in assigned[l.held.job] \/ \E d \in loop.held : HandOver(d) /\ l.held.job = d.job /\ a.token = d.token
  <2>1. ASSUME NEW d \in loop.held, HandOver(d)
        PROVE  a \in assigned[l.held.job] \/ (l.held.job = d.job /\ a.token = d.token)
    <3>1. PICK c \in open : assigned' = [assigned EXCEPT ![d.job] = {[conn |-> c, token |-> d.token]}]
        BY <2>1 DEF HandOver, FirstConnected
    <3> QED
        BY <1>1, <3>1 DEF AppTypes
  <2>2. ASSUME NEW k \in tasks, Complete(k) PROVE a \in assigned[l.held.job]
      BY <1>1, <2>2 DEF Complete, Clear, AppTypes
  <2>3. ASSUME NEW c \in Connections, Disconnect(c) PROVE a \in assigned[l.held.job]
      BY <1>1, <2>3 DEF Disconnect, AppTypes
  <2>4. ASSUME AppDies PROVE FALSE
      BY <2>4, <1>1 DEF AppDies
  <2> QED
      BY <2>1, <2>2, <2>3, <2>4, AssignedSteps
<1>4. ASSUME NEW d \in loop.held, HandOver(d), l.held.job = d.job, a.token = d.token PROVE FALSE
  <2>1. l.held = d
      BY <1>1, <1>4, LoopHeld, SameDelivery
  <2>2. l \in tasks
      BY <1>4 DEF HandOver
  <2> QED
      BY <1>4, <2>1, <2>2 DEF HandOver, Holds, LoopHolds
<1>5. CASE a \in assigned[l.held.job]
  <2>1. ASSUME NEW m \in tasks, m.held = l.held, m.kind = "return" PROVE FALSE
      BY <1>5, <2>1 DEF ReturnedIsUnassigned
  <2>2. ASSUME l.held \in loop.held, Orphan(l.held) PROVE FALSE
      BY <1>5, <2>2 DEF Orphan, Holds, LoopHolds
  <2>3. ASSUME NEW c \in Connections, Disconnect(c), l.held \in TakenBy(c) PROVE FALSE
      BY <1>1, <2>3 DEF Disconnect, TakenBy
  <2> QED
      BY <1>2, <2>1, <2>2, <2>3
<1> QED
    BY <1>3, <1>4, <1>5

\* A connection that is open or has keys was made, and so was one a job is assigned to.
LEMMA NextMadeBefore ==
    ASSUME Inv, [Next]_vars
    PROVE  MadeBefore'
<1> USE DEF Inv, Types
<1>1. ASSUME NEW w \in Workers, WorkerStep(w) PROVE MadeBefore'
  <2>1. UNCHANGED <<assigned, keys>>
      BY <1>1 DEF WorkerStep, Connect, Poll, PollTimesOut, Drop, Finish, LateReport, LateReportIsLost
  <2>2. CASE Connect(w)
    <3>1. /\ made \in Nat /\ made' = made + 1
          /\ open' = open \cup {<<w, made'>>}
        BY <2>2, JobDispatchAssumption DEF Connect, WorkerTypes
    <3>2. \A c \in open' : c[2] <= made'
      <4>1. \A c \in open : c[2] \in Nat
          BY DEF AppTypes, Connections
      <4> QED
          BY <3>1, <4>1 DEF MadeBefore
    <3>3. \A c \in Connections : c[2] \in Nat
        BY DEF Connections
    <3>4. \A j \in Jobs : \A a \in assigned[j] : a.conn \in Connections
        BY DEF AppTypes, OneOrNone
    <3>5. \A n \in Nat : n <= made => n <= made'
        BY <3>1
    <3> QED
        BY <2>1, <3>2, <3>3, <3>4, <3>5 DEF MadeBefore
  <2>3. CASE ~Connect(w)
    <3>1. UNCHANGED <<open, made>>
        BY <1>1, <2>3 DEF WorkerStep, Poll, PollTimesOut, Drop, Finish, LateReport, LateReportIsLost
    <3> QED
        BY <2>1, <3>1 DEF MadeBefore
  <2> QED
      BY <2>2, <2>3
<1>2. ASSUME NEW d \in loop.held, HandOver(d) PROVE MadeBefore'
  <2>1. PICK c \in open : /\ assigned' = [assigned EXCEPT ![d.job] = {[conn |-> c, token |-> d.token]}]
                          /\ keys' = [keys EXCEPT ![c] = @ \cup {d.job}]
      BY <1>2 DEF HandOver, FirstConnected
  <2>2. UNCHANGED <<open, made>> /\ c \in Connections /\ c[2] <= made
      BY <1>2 DEF HandOver, MadeBefore, AppTypes
  <2>3. \A j \in Jobs : \A a \in assigned'[j] : a.conn = c \/ a \in assigned[j]
      BY <2>1 DEF AppTypes
  <2>4. \A e \in Connections : keys'[e] # {} => e = c \/ keys[e] # {}
      BY <2>1 DEF AppTypes
  <2> QED
      BY <2>2, <2>3, <2>4 DEF MadeBefore
<1>3. ASSUME NEW k \in tasks, Complete(k) PROVE MadeBefore'
  <2>1. /\ UNCHANGED <<open, made>>
        /\ \A j \in Jobs : assigned'[j] \subseteq assigned[j]
        /\ \A e \in Connections : keys'[e] \subseteq keys[e]
      BY <1>3 DEF Complete, Clear, AppTypes
  <2> QED
      BY <2>1 DEF MadeBefore
<1>4. ASSUME NEW c \in Connections, Disconnect(c) PROVE MadeBefore'
  <2>1. /\ UNCHANGED made /\ open' \subseteq open
        /\ \A j \in Jobs : assigned'[j] \subseteq assigned[j]
        /\ \A e \in Connections : keys'[e] \subseteq keys[e]
      BY <1>4 DEF Disconnect, AppTypes
  <2> QED
      BY <2>1 DEF MadeBefore
<1>5. CASE UNCHANGED <<assigned, keys, open, made>>
    BY <1>5 DEF MadeBefore
<1>6. ASSUME AppDies PROVE MadeBefore'
    BY <1>6 DEF AppDies, MadeBefore
<1> QED
    BY <1>1, <1>2, <1>3, <1>4, <1>5, <1>6, AssignedSteps, ConnectionSteps

\* A worker that leaves its connection kills what it executes, and only a worker on its
\* connection gets an answer.
LEMMA NextOfflineIdle ==
    ASSUME Inv, [Next]_vars
    PROVE  OfflineIdle'
<1> USE DEF Inv, Types
<1>1. ASSUME NEW w \in Workers, WorkerStep(w) PROVE OfflineIdle'
  <2>1. \A v \in Workers : work'[v].held \subseteq work[v].held
      BY <1>1, WorkShrinks
  <2>2. CASE Connect(w)
      BY <2>1, <2>2 DEF Connect, OfflineIdle, WorkerTypes
  <2>3. CASE Drop(w)
    <3>1. work'[w].held = {} /\ \A v \in Workers \ {w} : conn'[v] = conn[v]
        BY <2>3 DEF Drop, WorkerTypes, Idle
    <3> QED
        BY <2>1, <3>1 DEF OfflineIdle
  <2>4. CASE ~Connect(w) /\ ~Drop(w)
    <3>1. UNCHANGED conn
        BY <1>1, <2>4 DEF WorkerStep, Poll, PollTimesOut, Finish, LateReport, LateReportIsLost
    <3> QED
        BY <2>1, <3>1 DEF OfflineIdle
  <2> QED
      BY <2>2, <2>3, <2>4
<1>2. ASSUME NEW d \in loop.held, HandOver(d) PROVE OfflineIdle'
  <2>1. PICK c \in open : work' = IF conn[c[1]] = c[2] THEN [work EXCEPT ![c[1]] = At("running", d)]
                                                       ELSE work
      BY <1>2 DEF HandOver, FirstConnected
  <2>2. UNCHANGED conn /\ c[1] \in Workers /\ c[2] # 0
      BY <1>2 DEF HandOver, AppTypes, Connections
  <2>3. \A v \in Workers : work'[v] = work[v] \/ (v = c[1] /\ conn[v] = c[2])
      BY <2>1, <2>2 DEF WorkerTypes
  <2> QED
      BY <2>2, <2>3 DEF OfflineIdle
<1>3. ASSUME NEW c \in Connections, Disconnect(c) PROVE OfflineIdle'
    BY <1>3 DEF Disconnect, OfflineIdle
<1>4. CASE UNCHANGED <<conn, work>>
    BY <1>4 DEF OfflineIdle
<1>5. ASSUME AppDies PROVE OfflineIdle'
    BY <1>5 DEF AppDies, OfflineIdle
<1> QED
    BY <1>1, <1>2, <1>3, <1>4, <1>5, ConnectionSteps

\* The lock of an assigned job is given up by the report, which ends the assignment, by a
\* return, which the disconnect ended it for, or by the connection's end.
LEMMA NextAssignedIsLocked ==
    ASSUME Inv, [Next]_vars
    PROVE  AssignedIsLocked'
<1> USE DEF Inv, Types
<1> SUFFICES ASSUME "lapse" \notin faults', NEW j \in Jobs, NEW a \in assigned'[j], a.conn \in open'
             PROVE  lock'[j] = a.token
    BY DEF AssignedIsLocked
<1>1. "lapse" \notin faults
    BY FaultsGrow
<1>2. CASE \E d \in loop.held : HandOver(d) /\ j = d.job /\ a.token = d.token
    BY <1>2 DEF HandOver, Holds, LoopHolds
<1>3. CASE ~\E d \in loop.held : HandOver(d) /\ j = d.job /\ a.token = d.token
  <2>1. a \in assigned[j] /\ ~\E k \in tasks : Complete(k) /\ k.held.job = j
    <3>1. ASSUME NEW d \in loop.held, HandOver(d) PROVE a \in assigned[j]
      <4>1. PICK c \in open : assigned' = [assigned EXCEPT ![d.job] = {[conn |-> c, token |-> d.token]}]
          BY <3>1 DEF HandOver, FirstConnected
      <4>2. j # d.job \/ a.token # d.token
          BY <1>3, <3>1
      <4>3. assigned \in [Jobs -> OneOrNone([conn : Connections, token : Tokens])]
          BY DEF AppTypes
      <4>4. CASE j = d.job
          BY <4>1, <4>2, <4>3, <4>4
      <4>5. CASE j # d.job
          BY <4>1, <4>3, <4>5
      <4> QED
          BY <4>4, <4>5
    <3>2. ASSUME NEW k \in tasks, Complete(k) PROVE a \in assigned[j] /\ k.held.job # j
        BY <3>2 DEF Complete, Clear, AppTypes
    <3>3. ASSUME NEW c \in Connections, Disconnect(c) PROVE a \in assigned[j]
        BY <3>3 DEF Disconnect, AppTypes
    <3>4. ASSUME AppDies PROVE FALSE
        BY <3>4 DEF AppDies
    <3> QED
        BY <3>1, <3>2, <3>3, <3>4, AssignedSteps
  <2>2. a.conn \in open
    <3>1. ASSUME NEW w \in Workers, Connect(w) PROVE a.conn # <<w, made'>>
      <4>1. made \in Nat /\ made' = made + 1
          BY <3>1, JobDispatchAssumption DEF Connect, WorkerTypes
      <4>2. a.conn[2] <= made
          BY <2>1 DEF MadeBefore
      <4> QED
          BY <4>1, <4>2
    <3>2. ASSUME NEW w \in Workers, WorkerStep(w), ~Connect(w) PROVE UNCHANGED open
        BY <3>2 DEF WorkerStep, Poll, PollTimesOut, Drop, Finish, LateReport, LateReportIsLost
    <3>3. ASSUME AppDies PROVE FALSE
        BY <3>3 DEF AppDies
    <3> QED
        BY <3>1, <3>2, <3>3, ConnectionSteps DEF Connect, HandOver, Disconnect
  <2>3. lock[j] = a.token
      BY <1>1, <2>1, <2>2 DEF AssignedIsLocked
  <2>4. a.token \in Tokens /\ lock[j] # NoToken /\ queue[j] = "active"
    <3>1. a.token \in Tokens
        BY <2>1 DEF AppTypes, OneOrNone
    <3> QED
        BY <2>3, <3>1 DEF Tokens, NoToken, LockedIsActive
  <2>5. ASSUME NEW i \in Jobs, QueueStep(i) PROVE lock'[j] = lock[j]
    <3>1. CASE Dequeue(i)
        BY <2>4, <3>1 DEF Dequeue, QueueTypes
    <3>2. CASE Lapse(i)
      <4>1. i # j
        <5> SUFFICES ASSUME i = j PROVE FALSE OBVIOUS
        <5> DEFINE d == [job |-> i, token |-> lock[i]]
        <5>1. d.job = j /\ d.token = a.token
            BY <2>3
        <5>2. Attended(d)
            BY <2>1, <2>2, <5>1 DEF Attended
        <5>3. ~Attended(d) \/ "lapse" \in faults'
            BY <3>2 DEF Lapse, Happens
        <5> QED
            BY <5>2, <5>3
      <4> QED
          BY <3>2, <4>1 DEF Lapse, QueueTypes
    <3> QED
        BY <2>5, <3>1, <3>2 DEF QueueStep, FailDeferred, Due, StalledScan
  <2>6. ASSUME NEW d \in loop.held, Reject(d) \/ Discard(d) PROVE lock'[j] = lock[j]
    <3>1. d.job # j
        BY <2>1, <2>3, <2>6 DEF Reject, Discard, Holds, LoopHolds
    <3> QED
        BY <2>6, <3>1 DEF Reject, Discard, QueueTypes
  <2>7. ASSUME NEW k \in tasks, Complete(k) \/ Return(k) \/ Promote(k) PROVE lock'[j] = lock[j]
    <3>1. CASE Complete(k)
        BY <2>1, <3>1 DEF Complete, MoveTo, QueueTypes
    <3>2. CASE Return(k)
      <4>1. k.held.job = j => lock[j] # k.held.token
          BY <2>1, <2>3, <3>2 DEF Return, ReturnedIsUnassigned
      <4> QED
          BY <3>2, <4>1 DEF Return, MoveTo, QueueTypes
    <3>3. CASE Promote(k)
        BY <3>3 DEF Promote
    <3> QED
        BY <2>7, <3>1, <3>2, <3>3
  <2> QED
      BY <2>3, <2>5, <2>6, <2>7, LockSteps
<1> QED
    BY <1>2, <1>3

\* The tracker's two maps agree on open connections: what is handed out again was not among
\* the keys of an open connection, as its lock would have been that connection's.
LEMMA NextKeysMatch ==
    ASSUME Inv, [Next]_vars
    PROVE  KeysMatch'
<1> USE DEF Inv, Types
<1> SUFFICES ASSUME "lapse" \notin faults', NEW c \in open', NEW j \in keys'[c]
             PROVE  \E a \in assigned'[j] : a.conn = c
    BY DEF KeysMatch
<1>1. "lapse" \notin faults /\ c \in Connections /\ j \in Jobs
    BY FaultsGrow, NextAppTypes DEF AppTypes
<1>2. ASSUME c \in open, j \in keys[c] PROVE \E a \in assigned[j] : a.conn = c
    BY <1>1, <1>2 DEF KeysMatch
<1>3. ASSUME NEW d \in loop.held, HandOver(d) PROVE \E a \in assigned'[j] : a.conn = c
  <2>1. PICK e \in open : /\ assigned' = [assigned EXCEPT ![d.job] = {[conn |-> e, token |-> d.token]}]
                          /\ keys' = [keys EXCEPT ![e] = @ \cup {d.job}]
      BY <1>3 DEF HandOver, FirstConnected
  <2>2. c \in open
      BY <1>3 DEF HandOver
  <2>3. CASE j = d.job /\ c = e
      BY <1>1, <2>1, <2>3 DEF AppTypes
  <2>4. CASE j # d.job
    <3>1. j \in keys[c]
        BY <1>1, <2>1, <2>4 DEF AppTypes
    <3> QED
        BY <1>1, <1>2, <2>1, <2>2, <2>4, <3>1 DEF AppTypes
  <2>5. CASE j = d.job /\ c # e
    <3>1. j \in keys[c]
        BY <1>1, <2>1, <2>5 DEF AppTypes
    <3>2. PICK a \in assigned[j] : a.conn = c
        BY <1>2, <2>2, <3>1
    <3>3. lock[j] = a.token
        BY <1>1, <2>2, <3>2 DEF AssignedIsLocked
    <3> QED
        BY <1>3, <2>5, <3>3 DEF HandOver, Holds, LoopHolds
  <2> QED
      BY <2>3, <2>4, <2>5
<1>4. ASSUME NEW k \in tasks, Complete(k) PROVE \E a \in assigned'[j] : a.conn = c
  <2>1. c \in open /\ j \in keys[c]
      BY <1>1, <1>4 DEF Complete, Clear
  <2>2. PICK a \in assigned[j] : a.conn = c
      BY <1>2, <2>1
  <2>3. j # k.held.job
      BY <1>1, <1>4, <2>2 DEF Complete, Clear
  <2> QED
      BY <1>1, <1>4, <2>2, <2>3 DEF Complete, Clear, AppTypes
<1>5. ASSUME NEW e \in Connections, Disconnect(e) PROVE \E a \in assigned'[j] : a.conn = c
  <2>1. c \in open /\ c # e /\ j \in keys[c] /\ e \in open
      BY <1>1, <1>5 DEF Disconnect, AppTypes
  <2>2. PICK a \in assigned[j] : a.conn = c
      BY <1>2, <2>1
  <2>3. j \notin keys[e]
    <3> SUFFICES ASSUME j \in keys[e] PROVE FALSE OBVIOUS
    <3>1. PICK b \in assigned[j] : b.conn = e
        BY <1>1, <2>1 DEF KeysMatch
    <3> QED
        BY <1>1, <2>1, <2>2, <3>1 DEF AppTypes, OneOrNone
  <2> QED
      BY <1>1, <1>5, <2>2, <2>3 DEF Disconnect
<1>6. CASE UNCHANGED <<assigned, keys>>
  <2>1. c \in open
    <3>1. ASSUME NEW w \in Workers, Connect(w) PROVE c # <<w, made'>>
      <4>1. made \in Nat /\ made' = made + 1
          BY <3>1, JobDispatchAssumption DEF Connect, WorkerTypes
      <4>2. c[2] <= made
          BY <1>1, <1>6 DEF MadeBefore
      <4> QED
          BY <4>1, <4>2
    <3>2. ASSUME NEW w \in Workers, WorkerStep(w), ~Connect(w) PROVE UNCHANGED open
        BY <3>2 DEF WorkerStep, Poll, PollTimesOut, Drop, Finish, LateReport, LateReportIsLost
    <3>3. ASSUME AppDies PROVE FALSE
        BY <3>3 DEF AppDies
    <3> QED
        BY <3>1, <3>2, <3>3, ConnectionSteps DEF Connect, HandOver, Disconnect
  <2> QED
      BY <1>2, <1>6, <2>1
<1>7. ASSUME AppDies PROVE FALSE
    BY <1>7 DEF AppDies
<1> QED
    BY <1>3, <1>4, <1>5, <1>6, <1>7, AssignedSteps

\* Nobody but the worker itself ends its execution on an open connection: the disconnect of an
\* earlier connection returns what is among that connection's keys, a late report names the
\* delivery that was killed, and the lock of what is attended does not lapse.
LEMMA NextLiveIsUntouched ==
    ASSUME Inv, [Next]_vars
    PROVE  LiveIsUntouched'
<1> USE DEF Inv, Types
<1> SUFFICES ASSUME "lapse" \notin faults', NEW w \in Workers, Online(w)', NEW d \in work'[w].held
             PROVE  lock'[d.job] = d.token /\ \A k \in tasks' : k.held # d
    BY DEF LiveIsUntouched
<1>1. "lapse" \notin faults
    BY FaultsGrow
<1>2. CASE HandOver(d) /\ d \in loop.held
    BY <1>2 DEF HandOver, Holds, LoopHolds
<1>3. CASE ~(HandOver(d) /\ d \in loop.held)
  <2>1. d \in work[w].held /\ Online(w)
    <3>1. ASSUME NEW e \in loop.held, HandOver(e) PROVE d \in work[w].held /\ Online(w)
      <4>1. PICK c \in open : work' = IF conn[c[1]] = c[2] THEN [work EXCEPT ![c[1]] = At("running", e)]
                                                           ELSE work
          BY <3>1 DEF HandOver, FirstConnected
      <4>2. d # e
          BY <1>3, <3>1
      <4>3. At("running", e).held = {e}
          BY DEF At
      <4>4. work'[w] = work[w] \/ work'[w] = At("running", e)
          BY <4>1 DEF WorkerTypes
      <4> QED
          BY <3>1, <4>2, <4>3, <4>4 DEF HandOver, Online
    <3>2. ASSUME NEW v \in Workers, WorkerStep(v) PROVE d \in work[w].held /\ Online(w)
      <4>1. d \in work[w].held
          BY <3>2, WorkShrinks
      <4>2. CASE Connect(v)
        <5>1. w # v
            BY <4>1, <4>2 DEF Connect, OfflineIdle
        <5> QED
            BY <4>1, <4>2, <5>1 DEF Connect, Online, WorkerTypes
      <4>3. CASE Drop(v)
        <5>1. w # v
            BY <4>3 DEF Drop, Online, WorkerTypes
        <5> QED
            BY <4>1, <4>3, <5>1 DEF Drop, Online, WorkerTypes
      <4>4. CASE ~Connect(v) /\ ~Drop(v)
        <5>1. UNCHANGED <<conn, open>>
            BY <3>2, <4>4 DEF WorkerStep, Poll, PollTimesOut, Finish, LateReport, LateReportIsLost
        <5> QED
            BY <4>1, <5>1 DEF Online
      <4> QED
          BY <4>2, <4>3, <4>4
    <3>3. ASSUME NEW c \in Connections, Disconnect(c) PROVE d \in work[w].held /\ Online(w)
        BY <3>3 DEF Disconnect, Online
    <3>4. CASE UNCHANGED <<open, conn, work>>
        BY <3>4 DEF Online
    <3>5. ASSUME AppDies PROVE FALSE
        BY <3>5 DEF AppDies, Online
    <3> QED
        BY <3>1, <3>2, <3>3, <3>4, <3>5, ConnectionSteps
  <2>2. /\ d \in Delivery /\ d.job \in Jobs
        /\ lock[d.job] = d.token /\ (\A k \in tasks : k.held # d)
      BY <1>1, <2>1, WorkHeld DEF LiveIsUntouched, Delivery
  <2>3. d.token # NoToken /\ queue[d.job] = "active"
      BY <2>2 DEF Delivery, Tokens, NoToken, LockedIsActive
  <2>4. d \notin loop.held /\ \A v \in Workers : <<v, d>> \notin killed
      BY <2>1 DEF OnePlace
  <2>5. lock'[d.job] = d.token
    <3>1. ASSUME NEW j \in Jobs, QueueStep(j) PROVE lock'[d.job] = d.token
      <4>1. CASE Dequeue(j)
          BY <2>2, <2>3, <4>1 DEF Dequeue, QueueTypes
      <4>2. CASE Lapse(j)
        <5>1. j # d.job
          <6> SUFFICES ASSUME j = d.job PROVE FALSE OBVIOUS
          <6>1. [job |-> j, token |-> lock[j]] = d
              BY <2>2 DEF Delivery
          <6>2. Attended(d)
              BY <2>1 DEF Attended, Runs
          <6>3. ~Attended(d) \/ "lapse" \in faults'
              BY <4>2, <6>1 DEF Lapse, Happens
          <6> QED
              BY <6>2, <6>3
        <5> QED
            BY <2>2, <4>2, <5>1 DEF Lapse, QueueTypes
      <4>3. CASE FailDeferred(j) \/ Due(j) \/ StalledScan(j)
          BY <2>2, <4>3 DEF FailDeferred, Due, StalledScan
      <4> QED
          BY <3>1, <4>1, <4>2, <4>3 DEF QueueStep
    <3>2. ASSUME NEW e \in loop.held, Reject(e) \/ Discard(e) PROVE lock'[d.job] = d.token
      <4>1. e.job # d.job
          BY <2>2, <2>4, <3>2, LoopHeld, SameDelivery DEF Reject, Discard, Holds, LoopHolds
      <4> QED
          BY <2>2, <3>2, <4>1 DEF Reject, Discard, QueueTypes
    <3>3. ASSUME NEW k \in tasks, Complete(k) \/ Return(k) \/ Promote(k) PROVE lock'[d.job] = d.token
      <4>1. k.held.job = d.job => k.held.token # lock[d.job]
        <5>1. k.held \in Delivery /\ k.held # d
            BY <2>2 DEF AppTypes, Task
        <5> QED
            BY <2>2, <5>1, SameDelivery
      <4>2. CASE Complete(k)
          BY <2>2, <4>1, <4>2 DEF Complete, MoveTo, QueueTypes
      <4>3. CASE Return(k)
          BY <2>2, <4>1, <4>3 DEF Return, MoveTo, QueueTypes
      <4>4. CASE Promote(k)
          BY <2>2, <4>4 DEF Promote
      <4> QED
          BY <3>3, <4>2, <4>3, <4>4
    <3> QED
        BY <2>2, <3>1, <3>2, <3>3, LockSteps
  <2>6. \A k \in tasks' : k.held # d
    <3>1. ASSUME NEW e \in loop.held, Orphan(e) PROVE \A l \in tasks' : l.held # d
        BY <2>2, <2>4, <3>1 DEF Orphan
    <3>2. ASSUME NEW k \in tasks, TaskStep(k) PROVE \A l \in tasks' : l.held # d
        BY <2>2, <3>2, TaskHeld
    <3>3. ASSUME NEW c \in Connections, Disconnect(c) PROVE \A l \in tasks' : l.held # d
      <4>1. d \notin TakenBy(c)
        <5> SUFFICES ASSUME d \in TakenBy(c) PROVE FALSE OBVIOUS
        <5>1. PICK a \in assigned[d.job] : a.token = d.token
            BY DEF TakenBy
        <5>2. a.conn = <<w, conn[w]>>
            BY <2>1, <5>1 DEF AssignedToItsConnection
        <5>3. PICK b \in assigned[d.job] : b.conn = c
            BY <1>1, <3>3 DEF TakenBy, Disconnect, KeysMatch
        <5>4. a = b
            BY <2>2, <5>1, <5>3 DEF AppTypes, OneOrNone
        <5>5. c = <<w, conn[w]>> /\ UNCHANGED conn
            BY <3>3, <5>2, <5>3, <5>4 DEF Disconnect
        <5> QED
            BY <3>3, <5>5 DEF Disconnect, Online
      <4> QED
          BY <2>2, <3>3, <4>1 DEF Disconnect
    <3>4. ASSUME NEW v \in Workers, NEW e \in work[v].held, NEW kind \in {"ok", "fail"}, Finish(v, e, kind)
          PROVE  \A l \in tasks' : l.held # d
      <4>1. e # d
        <5> SUFFICES ASSUME e = d PROVE FALSE OBVIOUS
        <5>1. v = w
            BY <2>1 DEF OnePlace
        <5> QED
            BY <3>4, <5>1 DEF Finish, WorkerTypes, Idle
      <4> QED
          BY <2>2, <3>4, <4>1 DEF Finish
    <3>5. ASSUME NEW v \in Workers, NEW x \in killed, LateReport(v, x[2])
          PROVE  \A l \in tasks' : l.held # d
        BY <2>2, <2>4, <3>5 DEF LateReport
    <3>6. ASSUME AppDies PROVE \A l \in tasks' : l.held # d
        BY <3>6 DEF AppDies
    <3> QED
        BY <2>2, <3>1, <3>2, <3>3, <3>4, <3>5, <3>6, TaskSteps
  <2> QED
      BY <2>5, <2>6
<1> QED
    BY <1>2, <1>3

\* A slot that was left to expire is so until it is released after all or expires.
LEMMA LeakedStays ==
    ASSUME Types, [Next]_vars, NEW j \in FlowJobs, j \in leaked, slot'[j] # NoToken
    PROVE  j \in leaked'
<1>1. ASSUME NEW w \in Workers, WorkerStep(w) PROVE leaked' = leaked
    BY <1>1 DEF WorkerStep, Connect, Poll, PollTimesOut, Drop, Finish, LateReport, LateReportIsLost
<1>2. ASSUME NEW d \in loop.held, LoopStep(d) \/ DequeueFails(d) PROVE leaked' = leaked
    BY <1>2 DEF LoopStep, DequeueFails, CheckFlow, CheckPoll, Reject, Discard, HandOver, Orphan,
         LoopGoesOn
<1>3. ASSUME NEW k \in tasks, TaskStep(k) PROVE j \in leaked'
  <2>1. CASE ReleaseSlot(k)
      BY <2>1 DEF ReleaseSlot, Types, SlotTypes
  <2>2. CASE CleanupFails(k)
      BY <2>2 DEF CleanupFails
  <2>3. CASE ~ReleaseSlot(k) /\ ~CleanupFails(k)
      BY <1>3, <2>3 DEF TaskStep, ReportOfGone, Complete, Return, Promote, ReadPollingLock,
           DeletePollingLock
  <2> QED
      BY <2>1, <2>2, <2>3
<1>4. ASSUME NEW c \in Connections, Disconnect(c) PROVE leaked' = leaked
    BY <1>4 DEF Disconnect
<1>5. ASSUME NEW i \in Jobs, QueueStep(i) PROVE leaked' = leaked
    BY <1>5 DEF QueueStep, Dequeue, FailDeferred, Due, Lapse, StalledScan
<1>6. ASSUME NEW i \in FlowJobs, SlotExpires(i) PROVE j \in leaked'
    BY <1>6 DEF SlotExpires, Types, SlotTypes
<1>7. CASE PollingLockExpires \/ Disable \/ AppDies \/ UNCHANGED vars
    BY <1>7 DEF PollingLockExpires, Disable, AppDies, vars
<1> QED
    BY <1>1, <1>2, <1>3, <1>4, <1>5, <1>6, <1>7, NextSteps

\* A slot is taken for an active job, and stays until a report or a return is about to release
\* it, the stalled scan has put the job back, the job has stalled too often, or a failed
\* cleanup or a crash has left the slot to expire.
LEMMA NextSlotIsHeldForAJob ==
    ASSUME Inv, [Next]_vars
    PROVE  SlotIsHeldForAJob'
<1> USE DEF Inv, Types
<1> SUFFICES ASSUME NEW j \in FlowJobs, slot'[j] # NoToken
             PROVE  \/ queue'[j] = "active"
                    \/ \E k \in tasks' : k.held.job = j /\ k.step = "release"
                    \/ queue'[j] = "waiting" /\ stalls'[j] > 0
                    \/ stalls'[j] > MaxStalledCount
                    \/ j \in leaked'
    BY DEF SlotIsHeldForAJob, Slots, Deferred
<1>1. j \in Jobs /\ j \notin PollJobs
    BY JobDispatchAssumption DEF Jobs
<1> DEFINE Held == \/ queue[j] = "active"
                   \/ \E k \in tasks : k.held.job = j /\ k.step = "release"
                   \/ queue[j] = "waiting" /\ stalls[j] > 0
                   \/ stalls[j] > MaxStalledCount
<1> SUFFICES ASSUME j \notin leaked' PROVE Held'
    OBVIOUS
<1>2. slot[j] # NoToken => Held
    BY LeakedStays DEF SlotIsHeldForAJob, Slots, Deferred
<1> HIDE DEF Held
<1>3. ASSUME Held, UNCHANGED <<queue, stalls>>,
             \A k \in tasks : k.step = "release" /\ k.held.job = j => k \in tasks'
      PROVE  Held'
    BY <1>3 DEF Held
<1>4. ASSUME NEW w \in Workers, WorkerStep(w) PROVE Held'
  <2>1. UNCHANGED <<slot, queue, stalls>> /\ tasks \subseteq tasks'
      BY <1>4 DEF WorkerStep, Connect, Poll, PollTimesOut, Drop, Finish, LateReport, LateReportIsLost
  <2> QED
      BY <1>2, <1>3, <2>1
<1>5. ASSUME NEW d \in loop.held, LoopStep(d) \/ DequeueFails(d) PROVE Held'
  <2>1. d \in Delivery /\ d.job \in Jobs
      BY LoopHeld DEF Delivery
  <2>2. CASE CheckFlow(d)
    <3>1. UNCHANGED <<queue, stalls, tasks>> /\ queue[d.job] = "active"
        BY <2>2 DEF CheckFlow, Holds, LoopHolds
    <3>2. CASE j = d.job
        BY <3>1, <3>2 DEF Held
    <3>3. CASE j # d.job
      <4>1. slot'[j] = slot[j]
          BY <2>2, <3>3 DEF CheckFlow, AcquireSlot, SlotTypes
      <4> QED
          BY <1>2, <1>3, <3>1, <4>1
    <3> QED
        BY <3>2, <3>3
  <2>3. CASE Reject(d) \/ Discard(d)
    <3>1. d.job # j
        BY <1>1, <2>3 DEF Reject, Discard, Holds, LoopHolds
    <3>2. UNCHANGED <<slot, stalls, tasks>> /\ queue'[j] = queue[j]
        BY <1>1, <2>3, <3>1 DEF Reject, Discard, QueueTypes
    <3> QED
        BY <1>2, <3>2 DEF Held
  <2>4. CASE ~CheckFlow(d) /\ ~Reject(d) /\ ~Discard(d)
    <3>1. UNCHANGED <<slot, queue, stalls>> /\ tasks \subseteq tasks'
        BY <1>5, <2>4 DEF LoopStep, DequeueFails, CheckPoll, HandOver, Orphan, LoopGoesOn
    <3> QED
        BY <1>2, <1>3, <3>1
  <2> QED
      BY <2>2, <2>3, <2>4
<1>6. ASSUME NEW k \in tasks, TaskStep(k) PROVE Held'
  <2>1. k \in Task /\ k.held.job \in Jobs
      BY DEF AppTypes, Task, Delivery
  <2>2. tasks \ {k} \subseteq tasks'
      BY <1>6, TaskHeld
  <2>3. CASE Complete(k) \/ Return(k)
    <3>1. k.step # "release" /\ UNCHANGED <<slot, stalls>>
        BY <2>3 DEF Complete, Return
    <3>2. CASE k.held.job = j /\ queue'[j] # queue[j]
      <4>1. GoesOn(k, "release")
          BY <2>1, <2>3, <3>2 DEF Complete, Return
      <4>2. [k EXCEPT !.step = "release"] \in tasks'
          BY <4>1 DEF GoesOn
      <4>3. /\ [k EXCEPT !.step = "release"].step = "release"
            /\ [k EXCEPT !.step = "release"].held = k.held
          BY <2>1 DEF Task
      <4> QED
          BY <3>2, <4>2, <4>3 DEF Held
    <3>3. CASE ~(k.held.job = j /\ queue'[j] # queue[j])
      <4>1. queue'[j] = queue[j]
          BY <1>1, <2>1, <2>3, <3>3 DEF Complete, Return, MoveTo, QueueTypes
      <4> QED
          BY <1>2, <2>2, <3>1, <4>1 DEF Held
    <3> QED
        BY <3>2, <3>3
  <2>4. CASE ReleaseSlot(k)
    <3>1. k.held.job # j /\ slot'[j] = slot[j]
        BY <2>4 DEF ReleaseSlot, SlotTypes
    <3> QED
        BY <1>2, <1>3, <2>2, <2>4, <3>1 DEF ReleaseSlot
  <2>5. CASE Promote(k)
    <3>1. k.step # "release" /\ UNCHANGED <<slot, stalls>>
        BY <2>5 DEF Promote
    <3>2. queue'[j] = queue[j] \/ queue[j] = "delayed"
        BY <1>1, <2>5 DEF Promote
    <3> QED
        BY <1>2, <2>2, <3>1, <3>2 DEF Held
  <2>6. CASE ReportOfGone(k) \/ ReadPollingLock(k) \/ DeletePollingLock(k)
    <3>1. UNCHANGED <<slot, queue, stalls>> /\ ~(k.step = "release" /\ k.held.job = j)
        BY <1>1, <2>6 DEF ReportOfGone, ReadPollingLock, DeletePollingLock
    <3> QED
        BY <1>2, <1>3, <2>2, <3>1
  <2>7. CASE CleanupFails(k)
    <3>1. UNCHANGED <<slot, queue, stalls>> /\ ~(k.step = "release" /\ k.held.job = j)
        BY <2>7 DEF CleanupFails, Unreleased, Slots
    <3> QED
        BY <1>2, <1>3, <2>2, <3>1
  <2> QED
      BY <1>6, <2>3, <2>4, <2>5, <2>6, <2>7 DEF TaskStep
<1>7. ASSUME NEW c \in Connections, Disconnect(c) PROVE Held'
  <2>1. UNCHANGED <<slot, queue, stalls>> /\ tasks \subseteq tasks'
      BY <1>7 DEF Disconnect
  <2> QED
      BY <1>2, <1>3, <2>1
<1>8. ASSUME NEW i \in Jobs, QueueStep(i) PROVE Held'
  <2>1. UNCHANGED <<slot, tasks>>
      BY <1>8 DEF QueueStep, Dequeue, FailDeferred, Due, Lapse, StalledScan
  <2>2. CASE Dequeue(i) \/ Lapse(i)
      BY <1>1, <1>2, <2>1, <2>2 DEF Dequeue, Lapse, Held, QueueTypes
  <2>3. CASE FailDeferred(i)
      BY <1>1, <1>2, <2>1, <2>3 DEF FailDeferred, Deferred, Held, QueueTypes
  <2>4. CASE Due(i)
      BY <1>1, <1>2, <2>1, <2>4 DEF Due, Held, QueueTypes
  <2>5. CASE StalledScan(i)
      BY <1>1, <1>2, <2>1, <2>5, JobDispatchAssumption DEF StalledScan, Held, QueueTypes
  <2> QED
      BY <1>8, <2>2, <2>3, <2>4, <2>5 DEF QueueStep
<1>9. ASSUME NEW i \in FlowJobs, SlotExpires(i) PROVE Held'
  <2>1. slot[j] # NoToken
      BY <1>9 DEF SlotExpires, SlotTypes
  <2> QED
      BY <1>2, <1>3, <1>9, <2>1 DEF SlotExpires
<1>10. CASE PollingLockExpires \/ Disable \/ UNCHANGED vars
    BY <1>2, <1>3, <1>10 DEF PollingLockExpires, Disable, vars
<1>11. ASSUME AppDies PROVE Held'
  <2>1. UNCHANGED <<slot, queue, stalls>>
      BY <1>11 DEF AppDies
  <2>2. ~\E k \in tasks : k.held.job = j /\ k.step = "release"
      BY <1>11 DEF AppDies, Unreleased, Slots
  <2> QED
      BY <1>2, <2>1, <2>2 DEF Held
<1> QED
    BY <1>4, <1>5, <1>6, <1>7, <1>8, <1>9, <1>10, <1>11, NextSteps

\* The invariant as a whole is kept by every step.
LEMMA NextInv ==
    ASSUME Inv, [Next]_vars
    PROVE  Inv'
<1>1. Types'
    BY NextTypes DEF Inv
<1>2. LoopHolds' /\ LockedIsActive' /\ OnePlace'
    BY NextLoopHolds, NextLockedIsActive, NextOnePlace
<1>3. AssignedToItsConnection' /\ ReturnedIsUnassigned' /\ MadeBefore' /\ OfflineIdle'
    BY NextAssignedToItsConnection, NextReturnedIsUnassigned, NextMadeBefore, NextOfflineIdle
<1>4. AssignedIsLocked' /\ KeysMatch' /\ LiveIsUntouched' /\ SlotIsHeldForAJob'
    BY NextAssignedIsLocked, NextKeysMatch, NextLiveIsUntouched, NextSlotIsHeldForAJob
<1> QED
    BY <1>1, <1>2, <1>3, <1>4 DEF Inv

\* In every behaviour the deliveries of a job are told apart by their tokens, and the app's
\* maps agree with BullMQ's locks (job-broker.ts, job-assignment-tracker.ts).
THEOREM DispatchInvariant == Spec => []Inv
<1>1. Init => Inv
    BY InitInv
<1>2. Inv /\ [Next]_vars => Inv'
    BY NextInv
<1> QED
    BY <1>1, <1>2, PTL DEF Spec

\* A slot of the pool never outlives what will give it back, but for a job that stalled too
\* often and one whose release failed or was cut off by a crash (rate-limiter-interceptor.ts,
\* job-broker.ts:93, 178-183, 316-322).
THEOREM SlotsComeBack == Spec => []SlotIsHeldForAJob
<1>1. Inv => SlotIsHeldForAJob
    BY DEF Inv
<1> QED
    BY <1>1, DispatchInvariant, PTL

\* As long as no lock lapses, no disconnect, return or late report takes a job from the worker
\* that executes it over an open connection (job-assignment-tracker.ts:12-18).
THEOREM LiveWorkersKeepTheirJobs == Spec => []LiveCopyKeepsItsJob
<1>1. Inv => LiveCopyKeepsItsJob
    BY DEF Inv, LiveIsUntouched, LiveCopyKeepsItsJob, Runs
<1> QED
    BY <1>1, DispatchInvariant, PTL

=============================================================================
