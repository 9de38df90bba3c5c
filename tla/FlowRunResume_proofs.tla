------------------------ MODULE FlowRunResume_proofs ------------------------
(***************************************************************************)
(* Proofs about FlowRunResume, for every flow, number of signals and       *)
(* number of flushes: types; no report to the runs-metadata queue is lost  *)
(* and none is cleared before the row holds it; no waitpoint resumes       *)
(* twice, a cancelled run is not resumed and a parked signal is delivered; *)
(* and in a flow of pauses a resume finds its step paused in the log.      *)
(***************************************************************************)
EXTENDS FlowRunResume, TLAPS

\* The worker holds the lock from the start of a job to its end
WorkerLabels == {"save", "clear", "finish", "deliver"}

\* Somebody will still look at the hash: a job waits, or the worker is about to read, or
\* a reporter has merged and not yet added its job.
Woken ==
    \/ queue > 0
    \/ at = "save"
    \/ holder = "cancel" /\ at = "wake"
    \/ \E j \in Jobs : pc[j] \in {"wake", "timingsWake"} \/ flushing[j] = "wake"

\* What the queue relies on
Types ==
    /\ hash \in HashType
    /\ queue \in Nat
    /\ pc \in [Jobs -> ExecPC]
    /\ flushing \in [Jobs -> {"no", "report", "wake"}]

LabelsMatch ==
    /\ holder = "none" <=> at = "idle"
    /\ at \in WorkerLabels => holder = "worker"
    /\ at = "wake" => holder = "cancel"

KeyHasJob       == dedupKey => queue > 0
HashIsAwaited   == hash.exists => Woken \/ (at = "clear" /\ ~touched)
EmptyHash       == ~hash.exists => hash = NoHash
ReadIsSaved     == at = "clear" /\ ~touched => hash.status \in {"none", row}
FlushIsFinished == \A j \in Jobs : flushing[j] # "no" => pc[j] \in {"running", "upload"}

ReportInv ==
    /\ Types
    /\ LabelsMatch
    /\ KeyHasJob
    /\ HashIsAwaited
    /\ EmptyHash
    /\ ReadIsSaved
    /\ FlushIsFinished

(***************************************************************************)
(* Inductiveness.                                                          *)
(***************************************************************************)
\* A run that has reported nothing has nothing to lose.
LEMMA InitReportInv == Init => ReportInv
BY DEF Init, ReportInv, Types, LabelsMatch, WorkerLabels, KeyHasJob, HashIsAwaited, EmptyHash,
       ReadIsSaved, FlushIsFinished, NoHash, HashType, Status, ExecPC

\* Steps that leave reports, lock, row and executions alone
LEMMA Elsewhere ==
    ReportInv /\ UNCHANGED <<row, reportVars, lockVars, engineVars>> => ReportInv'
BY DEF ReportInv, Types, LabelsMatch, KeyHasJob, HashIsAwaited, Woken, EmptyHash, ReadIsSaved,
       FlushIsFinished, reportVars, lockVars, engineVars

\* Steps of an execution that reports nothing
LEMMA EngineStep ==
    ASSUME ReportInv, NEW j \in Jobs,
           StartJob(j) \/ RunStep(j) \/ FinishFlow(j) \/ UploadLog(j)
    PROVE  ReportInv'
<1>1. /\ UNCHANGED <<row, reportVars, lockVars, flushing>>
      /\ \E label \in {"running", "upload", "report"} :
           \/ pc' = pc
           \/ /\ pc' = [pc EXCEPT ![j] = label]
              /\ pc[j] \in {"waiting", "running", "upload"}
              /\ label = "report" => flushing[j] = "no"
  BY DEF StartJob, RunStep, FinishFlow, UploadLog, ExecGoto
<1>2. /\ pc' \in [Jobs -> ExecPC]
      /\ \A k \in Jobs : pc[k] \in {"wake", "timingsWake"} => pc'[k] = pc[k]
      /\ \A k \in Jobs : flushing[k] # "no" => pc'[k] \in {"running", "upload"}
  BY <1>1 DEF ReportInv, Types, FlushIsFinished, ExecPC
<1> QED
  BY <1>1, <1>2 DEF ReportInv, Types, LabelsMatch, KeyHasJob, HashIsAwaited, Woken, EmptyHash,
                    ReadIsSaved, FlushIsFinished, reportVars, lockVars

\* A merge sets the hash, and whoever merges has yet to add its job
LEMMA MergeStep ==
    ASSUME ReportInv, NEW fields \in HashType, Merge(fields),
           pc' \in [Jobs -> ExecPC],
           flushing' \in [Jobs -> {"no", "report", "wake"}],
           FlushIsFinished', Woken', LabelsMatch',
           row' = row,
           at' = at \/ at' = "wake"
    PROVE  ReportInv'
<1>1. hash' \in HashType /\ hash'.exists /\ touched'
  BY DEF Merge, ReportInv, Types, HashType
<1> QED
  BY <1>1 DEF Merge, ReportInv, Types, KeyHasJob, HashIsAwaited, EmptyHash, ReadIsSaved

\* An added job waits for the worker
LEMMA AddJobStep ==
    ASSUME ReportInv, AddJob,
           pc' \in [Jobs -> ExecPC],
           flushing' \in [Jobs -> {"no", "report", "wake"}],
           FlushIsFinished', LabelsMatch',
           row' = row,
           at' = at \/ at' = "idle"
    PROVE  ReportInv'
<1>1. queue' \in Nat /\ queue' > 0 /\ dedupKey'
  BY DEF AddJob, ReportInv, Types, KeyHasJob
<1> QED
  BY <1>1 DEF AddJob, ReportInv, Types, KeyHasJob, HashIsAwaited, Woken, EmptyHash, ReadIsSaved

\* The reports of an execution and of its flushes
LEMMA ReportStep ==
    ASSUME ReportInv, NEW j \in Jobs,
           Flush(j) \/ FlushReport(j) \/ FlushWake(j) \/ Report(j) \/ WakeWorker(j)
    PROVE  ReportInv'
<1> LabelsMatch' /\ UNCHANGED <<row, lockVars>>
  BY DEF Flush, FlushReport, FlushWake, Report, WakeWorker, ReportInv, LabelsMatch, lockVars
<1>1. CASE Flush(j)
  <2>1. /\ flushing' \in [Jobs -> {"no", "report", "wake"}]
        /\ \A k \in Jobs : flushing[k] = "wake" <=> flushing'[k] = "wake"
        /\ FlushIsFinished'
    BY <1>1 DEF Flush, ReportInv, Types, FlushIsFinished
  <2> QED
    BY <1>1, <2>1 DEF Flush, ReportInv, Types, KeyHasJob, HashIsAwaited, Woken, EmptyHash,
                      ReadIsSaved, reportVars, lockVars
<1>2. CASE FlushReport(j)
  <2>1. /\ flushing' \in [Jobs -> {"no", "report", "wake"}]
        /\ FlushIsFinished'
        /\ flushing'[j] = "wake"
    BY <1>2 DEF FlushReport, ReportInv, Types, FlushIsFinished
  <2>2. StatusReport("RUNNING") \in HashType
    BY DEF StatusReport, HashType, Status
  <2> QED
    BY <1>2, <2>1, <2>2, MergeStep DEF FlushReport, ReportInv, Types, Woken, lockVars
<1>3. CASE FlushWake(j)
  <2>1. flushing' \in [Jobs -> {"no", "report", "wake"}] /\ FlushIsFinished'
    BY <1>3 DEF FlushWake, ReportInv, Types, FlushIsFinished
  <2> QED
    BY <1>3, <2>1, AddJobStep DEF FlushWake, ReportInv, Types, lockVars
<1>4. CASE Report(j)
  <2>1. /\ pc' \in [Jobs -> ExecPC]
        /\ FlushIsFinished'
        /\ pc'[j] \in {"wake", "timingsWake"}
    BY <1>4 DEF Report, ExecGoto, ReportInv, Types, FlushIsFinished, ExecPC
  <2>2. /\ Timings \in HashType
        /\ \A status \in Status : StatusReport(status) \in HashType
    BY DEF StatusReport, Timings, HashType, Status
  <2>3. \E fields \in HashType : Merge(fields)
    BY <1>4, <2>2 DEF Report, Status
  <2> QED
    BY <1>4, <2>1, <2>3, MergeStep DEF Report, ReportInv, Types, Woken, lockVars
<1>5. CASE WakeWorker(j)
  <2>1. pc' \in [Jobs -> ExecPC] /\ FlushIsFinished'
    BY <1>5 DEF WakeWorker, ExecGoto, ReportInv, Types, FlushIsFinished, ExecPC
  <2> QED
    BY <1>5, <2>1, AddJobStep DEF WakeWorker, ReportInv, Types, lockVars
<1> QED
  BY <1>1, <1>2, <1>3, <1>4, <1>5

\* The worker from its job to the delivery
LEMMA WorkerKeepsInv ==
    ASSUME ReportInv, TakeJob \/ WorkerStep
    PROVE  ReportInv'
<1> USE DEF ReportInv, Types, LabelsMatch, WorkerLabels, KeyHasJob, HashIsAwaited, Woken,
            EmptyHash, ReadIsSaved, FlushIsFinished, engineVars, reportVars, HolderGoto, Release
<1>1. CASE TakeJob
  BY <1>1 DEF TakeJob, Acquire
<1>2. CASE SaveReport
  BY <1>2 DEF SaveReport
<1>3. CASE SkipMissingReport
  BY <1>3 DEF SkipMissingReport
<1>4. CASE ClearReport
  BY <1>4 DEF ClearReport, NoHash, HashType
<1>5. CASE FinishRun
  BY <1>5 DEF FinishRun
<1>6. CASE DeliverParked
  BY <1>6 DEF DeliverParked
<1> QED
  BY <1>1, <1>2, <1>3, <1>4, <1>5, <1>6 DEF WorkerStep

\* A resume, and the worker that delivers one
LEMMA ResumeKeepsInv ==
    ASSUME ReportInv, ResumeStep \/ DeliveryFails \/ \E s \in Steps : ResumeAcquires(s)
    PROVE  ReportInv'
<1>1. /\ pc' \in [Jobs -> ExecPC]
      /\ flushing' = flushing
      /\ \A k \in Jobs : pc'[k] = pc[k] \/ pc[k] \in {"none", "done", "removed"}
  BY DEF ResumeStep, DeliveryFails, ResumeAcquires, CheckTerminal, DispatchResume, ParkSignal,
         DropSignal, EnqueueResume, ReportInv, Types, ExecPC, engineVars
<1>2. /\ UNCHANGED <<row, hash, touched, dedupKey>>
      /\ queue' \in Nat /\ queue' >= queue
      /\ at \in {"idle", "check", "dispatch"}
      /\ at' \in {"idle", "check", "dispatch"}
      /\ LabelsMatch'
  BY DEF ResumeStep, DeliveryFails, ResumeAcquires, CheckTerminal, DispatchResume, ParkSignal,
         DropSignal, ReportInv, Types, LabelsMatch, WorkerLabels, Acquire, Release, reportVars
<1>3. Woken => Woken'
  BY <1>1, <1>2 DEF Woken, ReportInv, Types
<1> QED
  BY <1>1, <1>2, <1>3 DEF ReportInv, Types, KeyHasJob, HashIsAwaited, EmptyHash, ReadIsSaved,
                          FlushIsFinished

\* A cancel
LEMMA CancelKeepsInv ==
    ASSUME ReportInv, CancelFilters \/ CancelAcquires \/ CancelStep
    PROVE  ReportInv'
<1> USE DEF HolderGoto
<1>1. CASE CancelFilters \/ CancelAcquires \/ DeleteWaitpoints
  BY <1>1 DEF CancelFilters, CancelAcquires, DeleteWaitpoints, Acquire, ReportInv, Types,
       LabelsMatch, WorkerLabels, KeyHasJob, HashIsAwaited, Woken, EmptyHash, ReadIsSaved,
       FlushIsFinished, engineVars, reportVars, lockVars
<1>2. CASE RemoveJobs
  <2>1. /\ pc' \in [Jobs -> ExecPC]
        /\ \A k \in Jobs : pc'[k] = pc[k] \/ pc[k] = "waiting"
    BY <1>2 DEF RemoveJobs, ReportInv, Types, ExecPC
  <2> QED
    BY <1>2, <2>1 DEF RemoveJobs, ReportInv, Types, LabelsMatch, WorkerLabels, KeyHasJob,
         HashIsAwaited, Woken, EmptyHash, ReadIsSaved, FlushIsFinished, reportVars
<1>3. CASE ReportCanceled
  <2>1. StatusReport("CANCELED") \in HashType
    BY DEF StatusReport, HashType, Status
  <2>2. LabelsMatch' /\ Woken' /\ FlushIsFinished'
    BY <1>3 DEF ReportCanceled, ReportInv, LabelsMatch, WorkerLabels, Woken, FlushIsFinished,
                engineVars
  <2> QED
    BY <1>3, <2>1, <2>2, MergeStep DEF ReportCanceled, ReportInv, Types, engineVars
<1>4. CASE CancelReleases
  <2>1. LabelsMatch' /\ FlushIsFinished'
    BY <1>4 DEF CancelReleases, Release, ReportInv, LabelsMatch, WorkerLabels, FlushIsFinished,
                engineVars
  <2> QED
    BY <1>4, <2>1, AddJobStep DEF CancelReleases, Release, ReportInv, Types, engineVars
<1> QED
  BY <1>1, <1>2, <1>3, <1>4 DEF CancelStep

\* Every step of the specification keeps the invariant.
LEMMA NextKeepsInv == ReportInv /\ [Next]_vars => ReportInv'
<1> SUFFICES ASSUME ReportInv, [Next]_vars PROVE ReportInv'
  OBVIOUS
<1>1. CASE UNCHANGED vars
  BY <1>1, Elsewhere DEF vars, reportVars, lockVars, engineVars
<1>2. CASE \E j \in Jobs : Execution(j)
  BY <1>2, EngineStep, ReportStep DEF Execution
<1>3. CASE SubflowFails \/ \E s \in Steps : Signal(s) \/ TimerFires(s) \/ SweepOverdue(s)
  BY <1>3, Elsewhere DEF SubflowFails, Signal, TimerFires, SweepOverdue, reportVars, lockVars
<1>4. CASE TakeJob \/ WorkerStep
  BY <1>4, WorkerKeepsInv
<1>5. CASE ResumeStep \/ DeliveryFails \/ \E s \in Steps : ResumeAcquires(s)
  BY <1>5, ResumeKeepsInv
<1>6. CASE CancelFilters \/ CancelAcquires \/ CancelStep
  BY <1>6, CancelKeepsInv
<1> QED
  BY <1>1, <1>2, <1>3, <1>4, <1>5, <1>6 DEF Next

\* The reports on their way to the row are accounted for: a hash with a report has a job
\* coming to it, and a report about to be cleared is in the row (flow-runs-queue.ts).
THEOREM ReportInvariant == Spec => []ReportInv
BY InitReportInv, NextKeepsInv, PTL DEF Spec

(***************************************************************************)
(* Waitpoints: one that has resumed the run is gone.                       *)
(***************************************************************************)
WaitpointTypes ==
    /\ waitpoint \in [Steps -> {"none", "PENDING", "COMPLETED", "gone"}]
    /\ pc \in [Jobs -> ExecPC]

TargetIsStep == at \in {"check", "dispatch"} => target \in Steps

\* A waitpoint whose resume job was ever queued is consumed
ResumedIsGone == \A s \in Steps : pc[s] # "none" => waitpoint[s] = "gone"

ResumeInv == WaitpointTypes /\ TargetIsStep /\ ResumedIsGone

\* What a consumed waitpoint and a queued job may become: neither starts anew
LEMMA GoneIsGone ==
    ASSUME ResumeInv, WaitpointTypes', TargetIsStep',
           \A s \in Steps : waitpoint[s] = "gone" => waitpoint'[s] = "gone",
           \A s \in Steps : pc[s] = "none" => pc'[s] = "none"
    PROVE  ResumeInv'
BY DEF ResumeInv, ResumedIsGone, WaitpointTypes, Jobs, Steps

\* A queued run has no waitpoint.
LEMMA ResumeInvHolds == Init /\ FlowRunAssumption => ResumeInv
BY DEF Init, ResumeInv, WaitpointTypes, TargetIsStep, ResumedIsGone, ExecPC, Jobs, Steps, BEGIN_JOB

\* Discarding waitpoints keeps the consumed ones consumed.
LEMMA DiscardKeepsGone ==
    ASSUME WaitpointTypes, DiscardWaitpoints
    PROVE  /\ waitpoint' \in [Steps -> {"none", "PENDING", "COMPLETED", "gone"}]
           /\ \A s \in Steps : waitpoint[s] = "gone" => waitpoint'[s] = "gone"
BY DEF WaitpointTypes, DiscardWaitpoints

\* A resume job is named after its waitpoint.
LEMMA StepsAreJobs == Steps \subseteq Jobs
BY DEF Steps, Jobs

\* No execution starts from nothing, and none queues another.
LEMMA ExecutionPc ==
    ASSUME NEW j \in Jobs, Execution(j)
    PROVE  \/ pc' = pc
           \/ \E label \in ExecPC \ {"none", "waiting"} :
                 pc[j] # "none" /\ pc' = [pc EXCEPT ![j] = label]
<1>1. CASE StartJob(j) \/ RunStep(j) \/ FinishFlow(j)
  BY <1>1 DEF StartJob, RunStep, FinishFlow, ExecGoto, ExecPC
<1>2. CASE Flush(j) \/ FlushReport(j) \/ FlushWake(j)
  BY <1>2 DEF Flush, FlushReport, FlushWake
<1>3. CASE UploadLog(j) \/ Report(j) \/ WakeWorker(j)
  BY <1>3 DEF UploadLog, Report, WakeWorker, ExecGoto, ExecPC
<1> QED
  BY <1>1, <1>2, <1>3 DEF Execution

\* A cancel queues nothing.
LEMMA CancelPc ==
    ASSUME pc \in [Jobs -> ExecPC], CancelFilters \/ CancelAcquires \/ CancelStep
    PROVE  /\ pc' \in [Jobs -> ExecPC]
           /\ \A k \in Jobs : pc'[k] = pc[k] \/ (pc[k] = "waiting" /\ pc'[k] = "removed")
<1>1. CASE RemoveJobs
  BY <1>1 DEF RemoveJobs, ExecPC
<1>2. CASE ~RemoveJobs
  BY <1>2 DEF CancelFilters, CancelAcquires, CancelStep, DeleteWaitpoints, ReportCanceled,
              CancelReleases, engineVars
<1> QED
  BY <1>1, <1>2

\* Every step of the specification keeps what has resumed the run consumed.
LEMMA NextKeepsResumeInv == ResumeInv /\ [Next]_vars => ResumeInv'
<1> SUFFICES ASSUME ResumeInv, [Next]_vars PROVE ResumeInv'
  OBVIOUS
<1> USE DEF ResumeInv
<1>1. CASE UNCHANGED vars
  BY <1>1 DEF vars, WaitpointTypes, TargetIsStep, ResumedIsGone
<1>2. CASE \E j \in Jobs : Execution(j)
  <2> PICK j \in Jobs : Execution(j)
    BY <1>2
  <2>1. TargetIsStep'
    BY DEF Execution, StartJob, RunStep, FinishFlow, Flush, FlushReport, FlushWake, UploadLog,
           Report, WakeWorker, TargetIsStep, lockVars
  <2>2. /\ pc' \in [Jobs -> ExecPC]
        /\ \A s \in Steps : pc[s] = "none" => pc'[s] = "none"
    BY ExecutionPc, StepsAreJobs DEF WaitpointTypes
  <2>3. /\ waitpoint' \in [Steps -> {"none", "PENDING", "COMPLETED", "gone"}]
        /\ \A s \in Steps : waitpoint[s] = "gone" => waitpoint'[s] = "gone"
    <3>1. CASE RunStep(j)
      <4> DEFINE s == done[j] + 1
      <4>1. Arm(s)
        BY <3>1 DEF RunStep
      <4> QED
        BY <4>1 DEF Arm, WaitpointTypes
    <3>2. CASE ~RunStep(j)
      BY <3>2 DEF Execution, StartJob, FinishFlow, Flush, FlushReport, FlushWake, UploadLog,
                  Report, WakeWorker, WaitpointTypes
    <3> QED
      BY <3>1, <3>2
  <2> QED
    BY <2>1, <2>2, <2>3, GoneIsGone DEF WaitpointTypes
<1>3. CASE SubflowFails \/ \E s \in Steps : Signal(s) \/ TimerFires(s) \/ SweepOverdue(s)
  <2>1. TargetIsStep' /\ pc' = pc
    BY <1>3 DEF SubflowFails, Signal, TimerFires, SweepOverdue, TargetIsStep, lockVars, engineVars
  <2>2. /\ waitpoint' \in [Steps -> {"none", "PENDING", "COMPLETED", "gone"}]
        /\ \A s \in Steps : waitpoint[s] = "gone" => waitpoint'[s] = "gone"
    BY <1>3 DEF SubflowFails, Signal, TimerFires, SweepOverdue, WaitpointTypes
  <2> QED
    BY <2>1, <2>2, GoneIsGone DEF WaitpointTypes
<1>4. CASE TakeJob \/ WorkerStep
  <2>1. pc' = pc
    BY <1>4 DEF TakeJob, WorkerStep, SaveReport, SkipMissingReport, ClearReport, FinishRun,
                DeliverParked, engineVars
  <2>2. TargetIsStep'
    BY <1>4 DEF TakeJob, WorkerStep, SaveReport, SkipMissingReport, ClearReport, FinishRun,
                DeliverParked, Undelivered, TargetIsStep, HolderGoto, Acquire, Release
  <2>3. /\ waitpoint' \in [Steps -> {"none", "PENDING", "COMPLETED", "gone"}]
        /\ \A s \in Steps : waitpoint[s] = "gone" => waitpoint'[s] = "gone"
    <3>1. waitpoint' = waitpoint \/ DiscardWaitpoints
      BY <1>4 DEF TakeJob, WorkerStep, SaveReport, SkipMissingReport, ClearReport, FinishRun,
                  DeliverParked
    <3> QED
      BY <3>1, DiscardKeepsGone DEF WaitpointTypes
  <2> QED
    BY <2>1, <2>2, <2>3, GoneIsGone DEF WaitpointTypes
<1>5. CASE ResumeStep \/ DeliveryFails \/ \E s \in Steps : ResumeAcquires(s)
  <2>1. TargetIsStep'
    BY <1>5 DEF ResumeStep, DeliveryFails, ResumeAcquires, CheckTerminal, DispatchResume,
                ParkSignal, DropSignal, TargetIsStep, Acquire, Release
  <2>2. CASE DispatchResume
    <3>1. target \in Steps
      BY <2>2 DEF DispatchResume, TargetIsStep
    <3>2. pc' = [pc EXCEPT ![target] = pc'[target]] /\ pc'[target] \in ExecPC
      BY <2>2, <3>1, StepsAreJobs DEF DispatchResume, EnqueueResume, WaitpointTypes, ExecPC
    <3>3. waitpoint' = [waitpoint EXCEPT ![target] = "gone"]
      BY <2>2 DEF DispatchResume
    <3> QED
      BY <2>1, <3>1, <3>2, <3>3, StepsAreJobs DEF WaitpointTypes, ResumedIsGone
  <2>3. CASE ParkSignal
    <3>1. target \in Steps /\ pc' = pc
      BY <2>3 DEF ParkSignal, TargetIsStep, engineVars
    <3> QED
      BY <2>1, <2>3, <3>1, GoneIsGone DEF ParkSignal, WaitpointTypes
  <2>4. CASE ~DispatchResume /\ ~ParkSignal
    BY <1>5, <2>1, <2>4, GoneIsGone DEF ResumeStep, DeliveryFails, ResumeAcquires, CheckTerminal,
         DropSignal, WaitpointTypes, engineVars
  <2> QED
    BY <2>2, <2>3, <2>4
<1>6. CASE CancelFilters \/ CancelAcquires \/ CancelStep
  <2>1. TargetIsStep'
    BY <1>6 DEF CancelFilters, CancelAcquires, CancelStep, RemoveJobs, DeleteWaitpoints,
                ReportCanceled, CancelReleases, TargetIsStep, HolderGoto, Acquire, Release,
                lockVars
  <2>2. /\ pc' \in [Jobs -> ExecPC]
        /\ \A s \in Steps : pc[s] = "none" => pc'[s] = "none"
    BY <1>6, CancelPc, StepsAreJobs DEF WaitpointTypes
  <2>3. waitpoint' = waitpoint \/ DiscardWaitpoints
    BY <1>6 DEF CancelFilters, CancelAcquires, CancelStep, RemoveJobs, DeleteWaitpoints,
                ReportCanceled, CancelReleases
  <2> QED
    BY <2>1, <2>2, <2>3, DiscardKeepsGone, GoneIsGone DEF WaitpointTypes
<1> QED
  BY <1>1, <1>2, <1>3, <1>4, <1>5, <1>6 DEF Next

\* A waitpoint whose resume was queued stays consumed, whatever repeats the signal
\* (handleResumeSignal and consume, waitpoint-service.ts).
THEOREM ResumeInvariant == Spec => []ResumeInv
BY FlowRunAssumption, ResumeInvHolds, NextKeepsResumeInv, PTL DEF Spec

(***************************************************************************)
(* The properties.                                                         *)
(***************************************************************************)
\* When nothing is under way no report is left in the hash (flow-runs-queue.ts worker).
THEOREM ReportsAreSaved == Spec => []NoReportIsLost
<1>1. ReportInv => NoReportIsLost
  BY DEF ReportInv, NoReportIsLost, Quiet, Executing, HashIsAwaited, EmptyHash, Woken,
         LabelsMatch, FlushIsFinished
<1> QED
  BY <1>1, ReportInvariant, PTL

\* The hash is cleared only when the row holds its status (deleteKeyIfFieldValueMatches).
THEOREM ReportsAreClearedOnceSaved == Spec => ReportIsClearedOnceSaved
<1> DEFINE Cleared == hash.exists /\ hash' = NoHash
<1>1. ASSUME ReportInv, Next, Cleared PROVE hash.status \in {"none", row}
  <2>1. ~UNCHANGED hash
    BY <1>1 DEF NoHash
  <2>2. ~hash'.exists
    BY <1>1 DEF NoHash
  <2>3. ~(\E j \in Jobs : Execution(j))
    BY <2>1, <2>2 DEF Execution, StartJob, RunStep, FinishFlow, Flush, FlushReport, FlushWake,
         UploadLog, Report, WakeWorker, Merge, AddJob, reportVars
  <2>4. ~CancelStep
    BY <2>1, <2>2 DEF CancelStep, RemoveJobs, DeleteWaitpoints, ReportCanceled, CancelReleases,
         Merge, AddJob, reportVars
  <2>5. ~(\E s \in Steps : Signal(s) \/ TimerFires(s) \/ SweepOverdue(s) \/ ResumeAcquires(s))
    BY <2>1 DEF Signal, TimerFires, SweepOverdue, ResumeAcquires, reportVars
  <2>6. ~(TakeJob \/ ResumeStep \/ SubflowFails \/ DeliveryFails \/ CancelFilters
          \/ CancelAcquires)
    BY <2>1 DEF TakeJob, ResumeStep, CheckTerminal, DispatchResume, ParkSignal, DropSignal,
         SubflowFails, DeliveryFails, CancelFilters, CancelAcquires, reportVars
  <2>7. ClearReport
    BY <1>1, <2>1, <2>3, <2>4, <2>5, <2>6 DEF Next, WorkerStep, SaveReport, SkipMissingReport,
         FinishRun, DeliverParked, reportVars
  <2> QED
    BY <1>1, <2>1, <2>7 DEF ClearReport, HolderGoto, ReportInv, ReadIsSaved
<1>2. ReportInv /\ [Next]_vars => [Cleared => hash.status \in {"none", row}]_vars
  BY <1>1
<1> QED
  BY <1>2, ReportInvariant, PTL DEF Spec, ReportIsClearedOnceSaved

\* A resume job is queued by the dispatch only, and for the waitpoint the holder resumes.
LEMMA OnlyDispatchResumes ==
    ASSUME ResumeInv, Next, NEW s \in Steps, Resumes(s)
    PROVE  DispatchResume /\ s = target
<1>1. ~(\E j \in Jobs : Execution(j))
  BY ExecutionPc, StepsAreJobs DEF Resumes, ResumeInv, WaitpointTypes
<1>2. ~(SubflowFails \/ \E t \in Steps : \/ Signal(t) \/ TimerFires(t) \/ SweepOverdue(t)
                                           \/ ResumeAcquires(t))
  BY DEF SubflowFails, Signal, TimerFires, SweepOverdue, ResumeAcquires, Resumes, engineVars
<1>3. ~(TakeJob \/ WorkerStep \/ CancelFilters \/ CancelAcquires \/ DeliveryFails)
  BY DEF TakeJob, WorkerStep, SaveReport, SkipMissingReport, ClearReport, FinishRun,
         DeliverParked, CancelFilters, CancelAcquires, DeliveryFails, Resumes, engineVars
<1>4. ~CancelStep
  BY CancelPc, StepsAreJobs DEF Resumes, ResumeInv, WaitpointTypes
<1>5. DispatchResume
  BY <1>1, <1>2, <1>3, <1>4 DEF Next, ResumeStep, CheckTerminal, ParkSignal, DropSignal,
     Resumes, engineVars
<1>6. target \in Steps
  BY <1>5 DEF DispatchResume, ResumeInv, TargetIsStep
<1> QED
  BY <1>5, <1>6, StepsAreJobs DEF DispatchResume, EnqueueResume, Resumes, ResumeInv, WaitpointTypes

\* No waitpoint resumes the run twice, however often and by whomever it is signalled
\* (handleResumeSignal's transaction, waitpoint-service.ts).
THEOREM WaitpointsResumeOnce == Spec => ResumedAtMostOnce
<1>1. ASSUME ResumeInv, Next, NEW s \in Steps, Resumes(s) PROVE pc[s] = "none"
  <2>1. DispatchResume /\ s = target
    BY <1>1, OnlyDispatchResumes
  <2> QED
    BY <1>1, <2>1 DEF DispatchResume, ResumeInv, ResumedIsGone
<1>2. ResumeInv /\ [Next]_vars =>
        [\A s \in Steps : Resumes(s) => pc[s] = "none"]_vars
  BY <1>1
<1> QED
  BY <1>2, ResumeInvariant, PTL DEF Spec, ResumedAtMostOnce

(***************************************************************************)
(* Types.                                                                  *)
(***************************************************************************)
\* The step that is paused in the log is one of the flow, so that a resume completes a step
PausedStepExists == log.paused => log.steps < NSteps

TypeInv == TypeOK /\ PausedStepExists

\* Job 0 is the BEGIN job.
LEMMA BeginIsJob == 0 \in Jobs
BY FlowRunAssumption DEF Jobs

\* A queued run is well typed.
LEMMA InitTypeInv == Init => TypeInv
<1> SUFFICES ASSUME Init PROVE TypeInv
  OBVIOUS
<1> USE FlowRunAssumption DEF Init
<1>1. /\ row \in Status /\ hash \in HashType /\ log \in [steps : 0..NSteps, paused : BOOLEAN]
      /\ PausedStepExists
  BY DEF Status, HashType, NoHash, PausedStepExists
<1>2. /\ pc \in [Jobs -> ExecPC]
      /\ done \in [Jobs -> 0..NSteps]
      /\ flushing \in [Jobs -> {"no", "report", "wake"}]
      /\ flushes \in [Jobs -> 0..MaxFlushes]
  BY DEF ExecPC
<1>3. events \subseteq AllEvents /\ signals \in [Steps -> 0..MaxSignals]
  OBVIOUS
<1> QED
  BY <1>1, <1>2, <1>3, BeginIsJob DEF TypeInv, TypeOK

\* An execution keeps the types: a step is only run, and a pause only resumed, when the
\* flow has it.
LEMMA ExecutionTypes ==
    ASSUME TypeInv, NEW j \in Jobs, Execution(j)
    PROVE  TypeInv'
<1> USE FlowRunAssumption DEF TypeInv, TypeOK, PausedStepExists, ExecGoto, reportVars, lockVars, callVars
<1>1. CASE StartJob(j)
  <2>1. done' \in [Jobs -> 0..NSteps]
    <3>1. log.steps \in 0..NSteps /\ (log.paused => log.steps + 1 \in 0..NSteps)
      OBVIOUS
    <3> QED
      BY <1>1, <3>1 DEF StartJob
  <2>2. pc' \in [Jobs -> ExecPC]
    BY <1>1 DEF StartJob, ExecPC
  <2> QED
    BY <1>1, <2>1, <2>2 DEF StartJob
<1>2. CASE RunStep(j)
  <2> DEFINE s == done[j] + 1
  <2>1. s \in Steps /\ s \in 0..NSteps
    BY <1>2 DEF RunStep, Steps
  <2>2. Arm(s)
    BY <1>2 DEF RunStep
  <2>3. waitpoint' \in [Steps -> {"none", "PENDING", "COMPLETED", "gone"}] /\ timer' \subseteq Steps
    BY <2>1, <2>2 DEF Arm
  <2>4. pc' \in [Jobs -> ExecPC] /\ done' \in [Jobs -> 0..NSteps]
    BY <1>2, <2>1 DEF RunStep, ExecPC
  <2> QED
    BY <1>2, <2>3, <2>4 DEF RunStep
<1>3. CASE FinishFlow(j)
  BY <1>3 DEF FinishFlow, ExecPC
<1>4. CASE Flush(j)
  BY <1>4 DEF Flush
<1>5. CASE FlushReport(j)
  BY <1>5 DEF FlushReport, Merge, StatusReport, HashType, Status
<1>6. CASE FlushWake(j)
  BY <1>6 DEF FlushWake, AddJob
<1>7. CASE UploadLog(j)
  <2>1. /\ log'.steps = done[j] /\ (log'.paused <=> done[j] < NSteps)
        /\ log' \in [steps : 0..NSteps, paused : BOOLEAN]
    <3> DEFINE paused == done[j] < NSteps
    <3>1. done[j] \in 0..NSteps /\ paused \in BOOLEAN
      OBVIOUS
    <3>2. log' = [steps |-> done[j], paused |-> paused]
      BY <1>7 DEF UploadLog
    <3> HIDE DEF paused
    <3>3. log'.steps = done[j] /\ (log'.paused <=> paused)
      BY <3>1, <3>2
    <3>4. log' \in [steps : 0..NSteps, paused : BOOLEAN]
      BY <3>1, <3>2
    <3> QED
      BY <3>3, <3>4 DEF paused
  <2>2. pc' \in [Jobs -> ExecPC]
    BY <1>7 DEF UploadLog, ExecPC
  <2> QED
    BY <1>7, <2>1, <2>2 DEF UploadLog
<1>8. CASE Report(j)
  <2>1. hash' \in HashType
    <3>1. hash.status \in Status \cup {"none"} /\ hash.finish \in BOOLEAN
      BY DEF HashType
    <3>2. \E status \in Status \cup {"none"}, finish \in BOOLEAN :
            hash' = [exists |-> TRUE, status |-> status, finish |-> finish]
      BY <1>8, <3>1 DEF Report, Merge, StatusReport, Timings, Status
    <3> QED
      BY <3>2 DEF HashType
  <2>2. pc' \in [Jobs -> ExecPC]
    BY <1>8 DEF Report, ExecPC
  <2>3. /\ touched' \in BOOLEAN
        /\ UNCHANGED <<row, waitpoint, timer, queue, dedupKey, lockVars, callVars, log, done,
                       flushing, flushes>>
    BY <1>8 DEF Report, Merge
  <2> QED
    BY <2>1, <2>2, <2>3
<1>9. CASE WakeWorker(j)
  <2>1. pc' \in [Jobs -> ExecPC]
    BY <1>9 DEF WakeWorker, ExecPC
  <2>2. queue' \in Nat /\ dedupKey' \in BOOLEAN
    BY <1>9 DEF WakeWorker, AddJob
  <2> QED
    BY <1>9, <2>1, <2>2 DEF WakeWorker, AddJob
<1> QED
  BY <1>1, <1>2, <1>3, <1>4, <1>5, <1>6, <1>7, <1>8, <1>9 DEF Execution

\* So do the signals.
LEMMA SignalTypes ==
    ASSUME TypeInv,
           SubflowFails \/ \E s \in Steps : \/ Signal(s) \/ TimerFires(s) \/ SweepOverdue(s)
                                            \/ ResumeAcquires(s)
    PROVE  TypeInv'
<1> USE DEF TypeInv, TypeOK, PausedStepExists, reportVars, lockVars, callVars, engineVars
<1>1. CASE SubflowFails
  BY <1>1 DEF SubflowFails, Happens, Call
<1>2. ASSUME NEW s \in Steps, Signal(s) PROVE TypeInv'
  BY <1>2, FlowRunAssumption DEF Signal, Call
<1>3. ASSUME NEW s \in Steps, TimerFires(s) PROVE TypeInv'
  BY <1>3 DEF TimerFires, Call
<1>4. ASSUME NEW s \in Steps, SweepOverdue(s) PROVE TypeInv'
  BY <1>4 DEF SweepOverdue
<1>5. ASSUME NEW s \in Steps, ResumeAcquires(s) PROVE TypeInv'
  BY <1>5, StepsAreJobs DEF ResumeAcquires, Acquire
<1> QED
  BY <1>1, <1>2, <1>3, <1>4, <1>5

\* So does the worker, up to the delivery
LEMMA WorkerTypes ==
    ASSUME TypeInv, TakeJob \/ WorkerStep
    PROVE  TypeInv'
<1> USE BeginIsJob DEF TypeInv, TypeOK, PausedStepExists, reportVars, callVars, engineVars,
        HolderGoto, Release
<1>1. CASE TakeJob
  <2>1. queue' \in Nat
    BY <1>1 DEF TakeJob
  <2> QED
    BY <1>1, <2>1 DEF TakeJob, Acquire
<1>2. CASE SaveReport
  BY <1>2 DEF SaveReport, HashType
<1>3. CASE SkipMissingReport
  BY <1>3 DEF SkipMissingReport
<1>4. CASE ClearReport
  BY <1>4 DEF ClearReport, NoHash, HashType
<1>5. CASE FinishRun
  BY <1>5 DEF FinishRun, DiscardWaitpoints
<1>6. CASE DeliverParked
  BY <1>6, StepsAreJobs DEF DeliverParked, Undelivered
<1> QED
  BY <1>1, <1>2, <1>3, <1>4, <1>5, <1>6 DEF WorkerStep

\* ... and whoever resumes or cancels the run.
LEMMA LockedTypes ==
    ASSUME TypeInv, ResumeInv,
           ResumeStep \/ DeliveryFails \/ CancelFilters \/ CancelAcquires \/ CancelStep
    PROVE  TypeInv'
<1> USE BeginIsJob, StepsAreJobs DEF TypeInv, TypeOK, PausedStepExists, reportVars, callVars,
        engineVars, HolderGoto, Release, ResumeInv, TargetIsStep
<1>1. CASE ResumeStep
  <2>1. CASE CheckTerminal
    BY <1>1, <2>1 DEF ResumeStep, CheckTerminal
  <2>2. CASE DispatchResume
    BY <1>1, <2>2 DEF ResumeStep, DispatchResume, EnqueueResume, ExecPC
  <2>3. CASE ParkSignal
    BY <1>1, <2>3 DEF ResumeStep, ParkSignal
  <2>4. CASE DropSignal
    BY <1>1, <2>4 DEF ResumeStep, DropSignal
  <2> QED
    BY <1>1, <2>1, <2>2, <2>3, <2>4 DEF ResumeStep
<1>2. CASE DeliveryFails
  <2>1. queue' \in Nat
    BY <1>2 DEF DeliveryFails
  <2> QED
    BY <1>2, <2>1 DEF DeliveryFails, Happens
<1>3a. CASE CancelFilters
  BY <1>3a DEF CancelFilters, Happens, lockVars
<1>3. CASE CancelAcquires
  BY <1>3 DEF CancelAcquires, Acquire
<1>4. CASE RemoveJobs
  BY <1>4 DEF RemoveJobs, ExecPC
<1>5. CASE DeleteWaitpoints
  BY <1>5 DEF DeleteWaitpoints, DiscardWaitpoints
<1>6. CASE ReportCanceled
  BY <1>6 DEF ReportCanceled, Merge, StatusReport, HashType, Status
<1>7. CASE CancelReleases
  <2>1. queue' \in Nat
    BY <1>7 DEF CancelReleases, AddJob
  <2> QED
    BY <1>7, <2>1 DEF CancelReleases, AddJob
<1> QED
  BY <1>1, <1>2, <1>3a, <1>3, <1>4, <1>5, <1>6, <1>7 DEF CancelStep

\* The types, and that the paused step of the log is a step of the flow, hold throughout.
THEOREM TypeInvariant == Spec => []TypeInv
<1>1. TypeInv /\ ResumeInv /\ [Next]_vars => TypeInv'
  <2> SUFFICES ASSUME TypeInv, ResumeInv, [Next]_vars PROVE TypeInv'
    OBVIOUS
  <2>1. CASE UNCHANGED vars
    BY <2>1 DEF vars, TypeInv, TypeOK, PausedStepExists
  <2> QED
    BY <2>1, ExecutionTypes, SignalTypes, WorkerTypes, LockedTypes DEF Next
<1> QED
  BY <1>1, InitTypeInv, ResumeInvariant, PTL DEF Spec

\* FlowRunResume is type correct for every flow, number of signals and of flushes.
THEOREM TypeCorrect == Spec => []TypeOK
<1>1. TypeInv => TypeOK
  BY DEF TypeInv
<1> QED
  BY <1>1, TypeInvariant, PTL

(***************************************************************************)
(* A cancel on its way to the row.                                         *)
(***************************************************************************)
\* Whoever dispatches a resume has seen that no cancel is on its way, and none can come as
\* long as it holds the lock
ResumeSeesCancel ==
    /\ at \in {"check", "dispatch"} => holder \in {"worker", "resume"}
    /\ at = "dispatch" => hash.status # "CANCELED"

\* An execution reports no cancel.
LEMMA ExecutionReports ==
    ASSUME NEW j \in Jobs, Execution(j)
    PROVE  /\ UNCHANGED <<row, holder, at, target, finishing, calls, events>>
           /\ \/ UNCHANGED hash
              \/ /\ hash'.exists
                 /\ hash'.status \in {hash.status, "RUNNING", "PAUSED", "SUCCEEDED"}
BY DEF Execution, StartJob, RunStep, FinishFlow, Flush, FlushReport, FlushWake, UploadLog, Report,
       WakeWorker, Merge, AddJob, StatusReport, Timings, lockVars, callVars, reportVars

\* Every step of the specification keeps that.
LEMMA NextKeepsResumeSees == ResumeSeesCancel /\ [Next]_vars => ResumeSeesCancel'
<1> SUFFICES ASSUME ResumeSeesCancel, [Next]_vars PROVE ResumeSeesCancel'
  OBVIOUS
<1> USE DEF ResumeSeesCancel
<1>1. CASE UNCHANGED vars
  BY <1>1 DEF vars
<1>2. CASE \E j \in Jobs : Execution(j)
  BY <1>2, ExecutionReports
<1>3. CASE SubflowFails \/ \E s \in Steps : \/ Signal(s) \/ TimerFires(s) \/ SweepOverdue(s)
                                             \/ ResumeAcquires(s)
  BY <1>3 DEF SubflowFails, Signal, TimerFires, SweepOverdue, ResumeAcquires, Acquire, lockVars,
              reportVars
<1>4. CASE TakeJob \/ WorkerStep
  BY <1>4 DEF TakeJob, WorkerStep, SaveReport, SkipMissingReport, ClearReport, FinishRun,
              DeliverParked, Acquire, HolderGoto, Release
<1>5. CASE ResumeStep \/ DeliveryFails
  BY <1>5 DEF ResumeStep, CheckTerminal, DispatchResume, ParkSignal, DropSignal, DeliveryFails,
              Release, HasPendingTerminalStatus, Terminal, reportVars
<1>6. CASE CancelFilters \/ CancelAcquires \/ CancelStep
  BY <1>6 DEF CancelFilters, CancelAcquires, CancelStep, RemoveJobs, DeleteWaitpoints,
              ReportCanceled, CancelReleases, Acquire, HolderGoto, Release, lockVars, reportVars
<1> QED
  BY <1>1, <1>2, <1>3, <1>4, <1>5, <1>6 DEF Next

\* Once a cancel is reported, on its way to the row or there, no resume job is queued until
\* an execution that outlived it reports again (hasPendingTerminalStatus, and
\* handleResumeSignal's look at the status).
THEOREM CanceledRunsAreNotResumed == Spec => CanceledRunIsNotResumed
<1>1. Init => ResumeSeesCancel
  BY DEF Init, ResumeSeesCancel
<1>2. ASSUME ResumeInv, ResumeSeesCancel, Next, NEW s \in Steps, Resumes(s)
      PROVE  row # "CANCELED" /\ hash.status # "CANCELED"
  BY <1>2, OnlyDispatchResumes DEF DispatchResume, ResumeSeesCancel
<1>3. ResumeInv /\ ResumeSeesCancel /\ [Next]_vars =>
        [(row = "CANCELED" \/ hash.status = "CANCELED") => \A s \in Steps : ~Resumes(s)]_vars
  BY <1>2
<1> QED
  BY <1>1, <1>3, NextKeepsResumeSees, ResumeInvariant, PTL DEF Spec, CanceledRunIsNotResumed

(***************************************************************************)
(* Parked signals.                                                         *)
(***************************************************************************)
\* A delivery has thrown
Failed == "deliveryFails" \in Events \ events

\* The execution has yet to report how it ended, and with that to bring a delivery
Ending == {"waiting", "running", "upload", "report"}

\* Somebody will deliver the signal parked on a waitpoint of a PAUSED run: a call for it
\* waits or has the lock, the worker saves or has saved a report, a cancel is about to
\* delete it, or an execution is yet to report.
Awaited(s) ==
    \/ calls[s] > 0
    \/ hash.exists
    \/ at \in {"clear", "finish", "deliver", "discard"}
    \/ at \in {"check", "dispatch"} /\ (target = s \/ holder = "worker")
    \/ \E j \in Jobs : pc[j] \in Ending

ParkedIsAwaited ==
    row = "PAUSED" => \A s \in Steps : waitpoint[s] = "COMPLETED" => Failed \/ Awaited(s)

\* What the worker delivers is still parked when it comes to it
WorkerDelivers ==
    holder = "worker" /\ at \in {"check", "dispatch"} =>
        row = "PAUSED" /\ waitpoint[target] = "COMPLETED"

EventsAreGiven == events \subseteq Events

DeliveryInv == ParkedIsAwaited /\ WorkerDelivers /\ EventsAreGiven

\* What the delivery relies on
Base == TypeInv /\ ReportInv /\ ResumeInv /\ ResumeSeesCancel

\* An execution: until it has reported how it ended it keeps the signal awaited, and then its
\* report does.
LEMMA ExecutionDelivers ==
    ASSUME Base, DeliveryInv, NEW j \in Jobs, Execution(j)
    PROVE  DeliveryInv'
<1>1. /\ UNCHANGED <<row, holder, at, target, calls, events>>
      /\ hash.exists => hash'.exists
  BY ExecutionReports
<1>2. \A s \in Steps : waitpoint[s] = "COMPLETED" <=> waitpoint'[s] = "COMPLETED"
  <2>1. CASE RunStep(j)
    <3> DEFINE t == done[j] + 1
    <3>1. Arm(t)
      BY <2>1 DEF RunStep
    <3> QED
      BY <3>1 DEF Arm, Base, TypeInv, TypeOK
  <2>2. CASE ~RunStep(j)
    BY <2>2 DEF Execution, StartJob, FinishFlow, Flush, FlushReport, FlushWake, UploadLog, Report,
                WakeWorker
  <2> QED
    BY <2>1, <2>2
<1>3. \A k \in Jobs : pc[k] \in Ending => pc'[k] \in Ending \/ hash'.exists
  <2>1. pc \in [Jobs -> ExecPC]
    BY DEF Base, TypeInv, TypeOK
  <2>2. CASE StartJob(j) \/ RunStep(j) \/ FinishFlow(j) \/ UploadLog(j)
    BY <2>1, <2>2 DEF StartJob, RunStep, FinishFlow, UploadLog, ExecGoto, Ending
  <2>3. CASE Flush(j) \/ FlushReport(j) \/ FlushWake(j)
    BY <2>3 DEF Flush, FlushReport, FlushWake
  <2>4. CASE Report(j)
    BY <2>4 DEF Report, Merge
  <2>5. CASE WakeWorker(j)
    BY <2>1, <2>5 DEF WakeWorker, ExecGoto, Ending
  <2> QED
    BY <2>2, <2>3, <2>4, <2>5 DEF Execution
<1>4. ParkedIsAwaited'
  BY <1>1, <1>2, <1>3 DEF DeliveryInv, ParkedIsAwaited, Awaited, Failed
<1>5. WorkerDelivers'
  BY <1>1, <1>2 DEF DeliveryInv, WorkerDelivers, Base, ResumeInv, TargetIsStep
<1>6. EventsAreGiven'
  BY <1>1 DEF DeliveryInv, EventsAreGiven
<1> QED
  BY <1>4, <1>5, <1>6 DEF DeliveryInv

\* A signal: it waits for the lock, or goes to the check.
LEMMA SignalDelivers ==
    ASSUME Base, DeliveryInv,
           SubflowFails \/ \E s \in Steps : \/ Signal(s) \/ TimerFires(s) \/ SweepOverdue(s)
                                            \/ ResumeAcquires(s)
    PROVE  DeliveryInv'
<1> USE DEF Base, DeliveryInv, TypeInv, TypeOK
<1>1. ASSUME NEW s \in Steps, ResumeAcquires(s) PROVE DeliveryInv'
  <2>1. /\ UNCHANGED <<row, waitpoint, hash, pc, events>>
        /\ at = "idle" /\ at' = "check" /\ holder' = "resume" /\ target' = s
        /\ calls' = [calls EXCEPT ![s] = @ - 1]
    BY <1>1 DEF ResumeAcquires, Acquire, ReportInv, LabelsMatch, reportVars, engineVars
  <2> QED
    BY <2>1 DEF ParkedIsAwaited, Awaited, Failed, WorkerDelivers, EventsAreGiven
<1>2. CASE SubflowFails \/ \E s \in Steps : Signal(s) \/ TimerFires(s) \/ SweepOverdue(s)
  <2>1. /\ UNCHANGED <<row, hash, pc, holder, at, target>>
        /\ events' \subseteq events
        /\ \A s \in Steps : /\ calls'[s] >= calls[s]
                            /\ waitpoint[s] = "COMPLETED" => waitpoint'[s] = "COMPLETED"
                            /\ waitpoint'[s] = "COMPLETED" =>
                                  waitpoint[s] = "COMPLETED" \/ calls'[s] > 0
    BY <1>2 DEF SubflowFails, Signal, TimerFires, SweepOverdue, Happens, Call, reportVars, lockVars,
                engineVars, callVars
  <2>2. ParkedIsAwaited'
    <3> SUFFICES ASSUME row' = "PAUSED", NEW s \in Steps, waitpoint'[s] = "COMPLETED"
                 PROVE  Failed' \/ Awaited(s)'
      BY DEF ParkedIsAwaited
    <3>1. CASE calls'[s] > 0
      BY <3>1 DEF Awaited
    <3>2. CASE waitpoint[s] = "COMPLETED"
      <4>1. Failed => Failed'
        BY <2>1 DEF Failed
      <4>2. calls[s] \in Nat /\ calls'[s] \in Nat
        BY <1>2 DEF SubflowFails, Signal, TimerFires, SweepOverdue, Call, callVars
      <4>3. Awaited(s) => Awaited(s)'
        BY <2>1, <4>2 DEF Awaited
      <4> QED
        BY <2>1, <3>2, <4>1, <4>3 DEF ParkedIsAwaited
    <3> QED
      BY <2>1, <3>1, <3>2
  <2>3. WorkerDelivers'
    BY <2>1 DEF WorkerDelivers, ResumeInv, TargetIsStep
  <2>4. EventsAreGiven'
    BY <2>1 DEF EventsAreGiven
  <2> QED
    BY <2>2, <2>3, <2>4
<1> QED
  BY <1>1, <1>2

\* The worker: a report that it reads it saves, and having saved one it delivers.
LEMMA WorkerKeepsDelivery ==
    ASSUME Base, DeliveryInv, TakeJob \/ WorkerStep
    PROVE  DeliveryInv'
<1> USE DEF Base, DeliveryInv, ParkedIsAwaited, Awaited, Failed, WorkerDelivers, EventsAreGiven,
            reportVars, callVars, engineVars, HolderGoto, Release
<1>1. CASE TakeJob
  BY <1>1 DEF TakeJob, Acquire, ReportInv, LabelsMatch
<1>2. CASE SaveReport
  BY <1>2 DEF SaveReport
<1>3. CASE SkipMissingReport
  BY <1>3 DEF SkipMissingReport
<1>4. CASE ClearReport
  BY <1>4 DEF ClearReport
<1>5. CASE FinishRun
  BY <1>5 DEF FinishRun
<1>6. CASE DeliverParked
  BY <1>6 DEF DeliverParked, Undelivered
<1> QED
  BY <1>1, <1>2, <1>3, <1>4, <1>5, <1>6 DEF WorkerStep

\* A resume: it goes back at its check only for a status that the worker is about to save,
\* and what it dispatches an execution follows.
LEMMA ResumeKeepsDelivery ==
    ASSUME Base, DeliveryInv, ResumeStep \/ DeliveryFails
    PROVE  DeliveryInv'
<1> USE DEF Base, DeliveryInv, ParkedIsAwaited, Awaited, Failed, WorkerDelivers, EventsAreGiven,
            reportVars, callVars, engineVars, Release
<1>1. CASE ResumeStep /\ CheckTerminal
  <2>1. HasPendingTerminalStatus => hash.exists
    BY DEF HasPendingTerminalStatus, Terminal, ReportInv, EmptyHash, NoHash
  <2> QED
    BY <1>1, <2>1 DEF ResumeStep, CheckTerminal
<1>2. CASE ResumeStep /\ DispatchResume
  <2>1. target \in Steps /\ waitpoint \in [Steps -> {"none", "PENDING", "COMPLETED", "gone"}]
    BY <1>2 DEF DispatchResume, ResumeInv, TargetIsStep, TypeInv, TypeOK
  <2>2. pc[target] = "none" \/ waitpoint[target] = "gone"
    BY <2>1 DEF ResumeInv, ResumedIsGone
  <2>3. pc' = [pc EXCEPT ![target] = "waiting"] /\ pc'[target] = "waiting"
    BY <1>2, <2>1, <2>2, StepsAreJobs DEF DispatchResume, EnqueueResume, TypeInv, TypeOK
  <2>4. \E j \in Jobs : pc'[j] \in Ending
    BY <2>1, <2>3, StepsAreJobs DEF Ending
  <2> QED
    BY <1>2, <2>4 DEF ResumeStep, DispatchResume
<1>3. CASE ResumeStep /\ ParkSignal
  BY <1>3 DEF ResumeStep, ParkSignal
<1>4. CASE ResumeStep /\ DropSignal
  <2>1. /\ holder = "worker" => FALSE
        /\ row = "PAUSED" => waitpoint[target] # "COMPLETED"
    BY <1>4 DEF DropSignal, Terminal
  <2> QED
    BY <1>4, <2>1 DEF ResumeStep, DropSignal, ResumeSeesCancel
<1>5. CASE DeliveryFails
  <2>1. Failed'
    BY <1>5 DEF DeliveryFails, Happens
  <2> QED
    BY <1>5, <2>1 DEF DeliveryFails, Happens
<1> QED
  BY <1>1, <1>2, <1>3, <1>4, <1>5 DEF ResumeStep

\* A cancel: it deletes the waitpoints right after the jobs it removes.
LEMMA CancelKeepsDelivery ==
    ASSUME Base, DeliveryInv, CancelFilters \/ CancelAcquires \/ CancelStep
    PROVE  DeliveryInv'
<1> USE DEF Base, DeliveryInv, ParkedIsAwaited, Awaited, Failed, WorkerDelivers, EventsAreGiven,
            reportVars, callVars, engineVars, HolderGoto
<1>1. CASE CancelFilters \/ CancelAcquires
  BY <1>1 DEF CancelFilters, CancelAcquires, Acquire, Happens, ReportInv, LabelsMatch, lockVars
<1>2. CASE RemoveJobs
  BY <1>2 DEF RemoveJobs
<1>3. CASE DeleteWaitpoints
  BY <1>3 DEF DeleteWaitpoints, DiscardWaitpoints
<1>4. CASE ReportCanceled
  BY <1>4 DEF ReportCanceled, Merge
<1>5. CASE CancelReleases
  BY <1>5 DEF CancelReleases, AddJob, Release
<1> QED
  BY <1>1, <1>2, <1>3, <1>4, <1>5 DEF CancelStep

\* All of it together.
THEOREM DeliveryInvariant == Spec => [](Base /\ DeliveryInv)
<1>1. Init => DeliveryInv /\ ResumeSeesCancel
  BY DEF Init, DeliveryInv, ParkedIsAwaited, WorkerDelivers, EventsAreGiven, ResumeSeesCancel
<1>2. Spec => []Base
  BY <1>1, TypeInvariant, ReportInvariant, ResumeInvariant, NextKeepsResumeSees, PTL DEF Spec, Base
<1>3. Base /\ DeliveryInv /\ [Next]_vars => DeliveryInv'
  <2> SUFFICES ASSUME Base, DeliveryInv, [Next]_vars PROVE DeliveryInv'
    OBVIOUS
  <2>1. CASE UNCHANGED vars
    BY <2>1 DEF vars, DeliveryInv, ParkedIsAwaited, Awaited, Failed, WorkerDelivers, EventsAreGiven
  <2> QED
    BY <2>1, ExecutionDelivers, SignalDelivers, WorkerKeepsDelivery, ResumeKeepsDelivery,
       CancelKeepsDelivery DEF Next
<1> QED
  BY <1>1, <1>2, <1>3, PTL DEF Spec

\* A signal that came while the run was RUNNING is delivered: unless a delivery threw, no run
\* rests PAUSED with a signal parked on one of its waitpoints, however many steps, signals and
\* executions there are (findUndeliveredCompletedWaitpoint, flow-runs-queue.ts).
THEOREM ParkedSignalsAreDelivered == Spec => []ParkedSignalIsDelivered
<1>1. Base /\ DeliveryInv => ParkedSignalIsDelivered
  <2> SUFFICES ASSUME Base, DeliveryInv, Quiet, row = "PAUSED", ~Failed, NEW s \in Steps,
                      waitpoint[s] = "COMPLETED"
               PROVE  FALSE
    BY DEF ParkedSignalIsDelivered, NoParkedSignalIsForgotten, Failed
  <2>1. at = "idle" /\ calls[s] = 0 /\ ~Executing
    BY DEF Quiet, Base, ReportInv, LabelsMatch
  <2>2. ~hash.exists
    BY DEF Quiet, Executing, Base, ReportInv, HashIsAwaited, Woken, LabelsMatch, FlushIsFinished
  <2>3. \A j \in Jobs : pc[j] \notin Ending
    BY <2>1 DEF Executing, Ending
  <2> QED
    BY <2>1, <2>2, <2>3 DEF DeliveryInv, ParkedIsAwaited, Awaited
<1> QED
  BY <1>1, DeliveryInvariant, PTL

(***************************************************************************)
(* Pauses in a row.  A flow whose steps all pause, and whose callers wait  *)
(* for a row that is not PAUSED from an earlier pause: execution j resumes *)
(* step j and pauses at step j + 1.                                        *)
(***************************************************************************)
OnePauseAtATime == Links = {} /\ "hasty" \notin Events

\* The execution has reported how it ended
Ended == {"wake", "timings", "timingsWake", "done"}

\* A call for the waitpoint waits for the lock, or has it
Handled(s) == calls[s] > 0 \/ (at \in {"check", "dispatch"} /\ target = s)

\* The next execution begins when the last has reported
OneAfterTheOther == \A i, j \in Jobs : i < j /\ pc[j] # "none" => pc[i] \in Ended

\* A waitpoint is armed by the execution that pauses at its step
ArmedByPrevious ==
    \A s \in Steps : waitpoint[s] # "none" => pc[s - 1] \in Ended \cup {"upload", "report"}

DoneIsOwn == \A j \in Jobs : pc[j] \in {"running", "upload", "report"} => done[j] = j

\* From its upload to the next execution's first flush, the log is that of the newest execution
LogIsNewest ==
    /\ \A j \in Jobs :
         pc[j] \in Ended \cup {"report"} /\ (\A k \in Jobs : k > j => pc[k] = "none")
           => log.steps = j /\ (log.paused <=> j < NSteps)
    /\ \A j \in Steps : pc[j] = "waiting" => log.steps = j - 1 /\ log.paused

\* A PAUSED that the hash or the row has kept from an earlier pause resumes nothing
StaleReport == hash.status = "PAUSED" /\ (\E j \in Jobs : pc[j] \in Ending) => row = "PAUSED"
StaleRow ==
    row = "PAUSED" =>
        \A s \in Steps : pc[s - 1] \in Ending => waitpoint[s] # "COMPLETED" /\ ~Handled(s)

UnarmedIsNotHandled == \A s \in Steps : waitpoint[s] = "none" => ~Handled(s)

PauseInv ==
    /\ OneAfterTheOther
    /\ ArmedByPrevious
    /\ DoneIsOwn
    /\ LogIsNewest
    /\ StaleReport
    /\ StaleRow
    /\ UnarmedIsNotHandled

\* Each step is armed by the execution before it.
LEMMA PreviousIsJob == \A s \in Steps : s - 1 \in Jobs /\ s \in Jobs /\ s - 1 < s /\ s # 0
BY FlowRunAssumption DEF Steps, Jobs

\* The jobs are numbers.
LEMMA JobsAreNumbers == Jobs \subseteq Nat /\ (\A j \in Jobs : j # 0 => j \in Steps)
                        /\ (\A j \in Jobs : j < NSteps => j + 1 \in Steps)
BY FlowRunAssumption DEF Steps, Jobs

\* One execution at most has yet to report.
LEMMA OneEnds ==
    ASSUME OneAfterTheOther, NEW i \in Jobs, NEW j \in Jobs, pc[i] \in Ending, i # j
    PROVE  pc[j] \notin Ending /\ (j > i => pc[j] = "none") /\ (j < i => pc[j] \in Ended)
BY JobsAreNumbers DEF OneAfterTheOther, Ending, Ended

\* Steps that leave executions, log and reports alone
LEMMA PauseElsewhere ==
    ASSUME PauseInv,
           UNCHANGED <<pc, done, log>>,
           hash'.status = "PAUSED" => hash.status = "PAUSED",
           row' = row \/ row' # "PAUSED",
           \A s \in Steps : /\ waitpoint'[s] = "none" <=> waitpoint[s] = "none"
                            /\ Handled(s)' => Handled(s)
                            /\ waitpoint'[s] = "COMPLETED" =>
                                  waitpoint[s] = "COMPLETED" \/ row # "PAUSED"
                                                             \/ pc[s - 1] \notin Ending,
           hash'.status = "PAUSED" => row' = row
    PROVE  PauseInv'
BY DEF PauseInv, OneAfterTheOther, ArmedByPrevious, DoneIsOwn, LogIsNewest, StaleReport, StaleRow,
       UnarmedIsNotHandled

\* An execution completes the step it resumes, pauses at the next, uploads and reports.
LEMMA ExecutionPauses ==
    ASSUME OnePauseAtATime, Base, PauseInv, NEW j \in Jobs, Execution(j)
    PROVE  PauseInv'
<1> USE DEF PauseInv
<1>1. UNCHANGED <<row, holder, at, target, calls>> /\ \A s \in Steps : Handled(s)' <=> Handled(s)
  BY ExecutionReports DEF Handled
<1>2. /\ pc \in [Jobs -> ExecPC] /\ done \in [Jobs -> 0..NSteps]
      /\ waitpoint \in [Steps -> {"none", "PENDING", "COMPLETED", "gone"}]
      /\ \A k \in Jobs : flushing[k] # "no" => pc[k] \in {"running", "upload"}
  BY DEF Base, TypeInv, TypeOK, ReportInv, FlushIsFinished
<1>3. CASE StartJob(j)
  <2>1. /\ UNCHANGED <<waitpoint, hash, log>>
        /\ pc[j] = "waiting" /\ pc' = [pc EXCEPT ![j] = "running"]
        /\ done' = [done EXCEPT ![j] = done'[j]] /\ done'[j] = j
    BY <1>2, <1>3, JobsAreNumbers DEF StartJob, ExecGoto, reportVars, LogIsNewest, BEGIN_JOB, Steps
  <2> QED
    BY <1>1, <1>2, <2>1, PreviousIsJob, OneEnds DEF OneAfterTheOther, ArmedByPrevious, DoneIsOwn,
       LogIsNewest, StaleReport, StaleRow, UnarmedIsNotHandled, Ending, Ended
<1>4. CASE RunStep(j)
  <2> DEFINE s == j + 1
  <2>1. pc[j] = "running" /\ done[j] = j /\ s \in Steps /\ s - 1 = j
    BY <1>2, <1>4, JobsAreNumbers DEF RunStep, DoneIsOwn
  <2>2. waitpoint[s] = "none"
    BY <2>1 DEF ArmedByPrevious, Ended
  <2>3. /\ UNCHANGED <<hash, log, done>>
        /\ pc' = [pc EXCEPT ![j] = "upload"]
        /\ waitpoint' = [waitpoint EXCEPT ![s] = "PENDING"]
    BY <1>4, <2>1, <2>2 DEF RunStep, Arm, ExecGoto, reportVars, OnePauseAtATime
  <2>4. OneAfterTheOther' /\ DoneIsOwn' /\ LogIsNewest' /\ StaleReport'
    BY <1>1, <1>2, <2>1, <2>3, OneEnds DEF OneAfterTheOther, DoneIsOwn, LogIsNewest, StaleReport,
       Ending, Ended
  <2>5. ArmedByPrevious'
    BY <1>2, <2>1, <2>3, PreviousIsJob DEF ArmedByPrevious, Ended
  <2>6. StaleRow' /\ UnarmedIsNotHandled'
    BY <1>1, <1>2, <2>1, <2>2, <2>3, PreviousIsJob DEF StaleRow, UnarmedIsNotHandled, Ending
  <2> QED
    BY <2>4, <2>5, <2>6
<1>5. CASE FinishFlow(j)
  <2>1. /\ UNCHANGED <<waitpoint, hash, log, done>>
        /\ pc[j] = "running" /\ pc' = [pc EXCEPT ![j] = "upload"]
    BY <1>5 DEF FinishFlow, ExecGoto, reportVars
  <2> QED
    BY <1>1, <1>2, <2>1, PreviousIsJob, OneEnds DEF OneAfterTheOther, ArmedByPrevious, DoneIsOwn,
       LogIsNewest, StaleReport, StaleRow, UnarmedIsNotHandled, Ending, Ended
<1>6. CASE Flush(j)
  <2>1. UNCHANGED <<waitpoint, hash, pc, done>> /\ pc[j] \in {"running", "upload"}
    BY <1>6 DEF Flush, reportVars
  <2>2. LogIsNewest'
    <3>1. \A k \in Jobs : k # j => /\ pc[k] \notin Ending
                                   /\ k > j => pc[k] = "none"
                                   /\ k < j => pc[k] \in Ended
      BY <2>1, OneEnds DEF Ending
    <3>2. \A k \in Steps : pc'[k] # "waiting"
      BY <2>1, <3>1, StepsAreJobs DEF Ending
    <3>3. ASSUME NEW k \in Jobs, pc'[k] \in Ended \cup {"report"},
                 \A m \in Jobs : m > k => pc'[m] = "none"
          PROVE  FALSE
      <4>1. k # j /\ ~(k < j)
        BY <2>1, <3>3 DEF Ended
      <4>2. pc[k] = "none"
        BY <3>1, <4>1, JobsAreNumbers
      <4> QED
        BY <2>1, <3>3, <4>2 DEF Ended
    <3> QED
      BY <3>2, <3>3 DEF LogIsNewest
  <2> QED
    BY <1>1, <2>1, <2>2 DEF OneAfterTheOther, ArmedByPrevious, DoneIsOwn, StaleReport, StaleRow,
       UnarmedIsNotHandled
<1>7. CASE FlushReport(j) \/ FlushWake(j)
  <2>1. /\ UNCHANGED <<waitpoint, log, pc, done>>
        /\ hash'.status = "PAUSED" => hash.status = "PAUSED"
    BY <1>7 DEF FlushReport, FlushWake, Merge, AddJob, StatusReport
  <2> QED
    BY <1>1, <2>1 DEF OneAfterTheOther, ArmedByPrevious, DoneIsOwn, LogIsNewest, StaleReport,
       StaleRow, UnarmedIsNotHandled
<1>8. CASE UploadLog(j)
  <2>1. /\ UNCHANGED <<waitpoint, hash, done>>
        /\ pc[j] = "upload" /\ pc' = [pc EXCEPT ![j] = "report"]
        /\ done[j] = j
        /\ log' = [steps |-> j, paused |-> j < NSteps]
    BY <1>8 DEF UploadLog, ExecGoto, reportVars, DoneIsOwn
  <2>2. LogIsNewest'
    <3>1. log'.steps = j /\ (log'.paused <=> j < NSteps)
      <4> DEFINE paused == j < NSteps
      <4>1. log' = [steps |-> j, paused |-> paused]
        BY <2>1
      <4> HIDE DEF paused
      <4>2. log'.steps = j /\ (log'.paused <=> paused)
        BY <4>1
      <4> QED
        BY <4>2 DEF paused
    <3>2. \A k \in Jobs : k # j => pc'[k] = pc[k]
      BY <1>2, <2>1
    <3>3. pc[j] \in Ending
      BY <2>1 DEF Ending
    <3>4. \A k \in Jobs : k # j => /\ pc[k] \notin Ending
                                   /\ k > j => pc[k] = "none"
                                   /\ k < j => pc[k] \in Ended
      BY <3>3, OneEnds
    <3>5. pc'[j] = "report"
      BY <1>2, <2>1
    <3>6. \A k \in Steps : pc'[k] # "waiting"
      BY <3>2, <3>4, <3>5, StepsAreJobs DEF Ending
    <3>7. ASSUME NEW k \in Jobs, k # j, pc'[k] \in Ended \cup {"report"},
                 \A m \in Jobs : m > k => pc'[m] = "none"
          PROVE  FALSE
      <4>1. ~(k < j)
        BY <3>5, <3>7
      <4>2. pc[k] = "none"
        BY <3>4, <3>7, <4>1, JobsAreNumbers
      <4> QED
        BY <3>2, <3>7, <4>2 DEF Ended
    <3> QED
      BY <3>1, <3>6, <3>7 DEF LogIsNewest
  <2> QED
    BY <1>1, <1>2, <2>1, <2>2, PreviousIsJob, OneEnds DEF OneAfterTheOther, ArmedByPrevious, DoneIsOwn,
       StaleReport, StaleRow, UnarmedIsNotHandled, Ending, Ended
<1>9. CASE Report(j) \/ WakeWorker(j)
  <2>1. /\ UNCHANGED <<waitpoint, log, done>>
        /\ pc[j] \in {"report", "wake", "timings", "timingsWake"}
        /\ pc' = [pc EXCEPT ![j] = pc'[j]] /\ pc'[j] \in Ended
        /\ hash'.status = "PAUSED" => hash.status = "PAUSED" \/ pc[j] = "report"
    BY <1>2, <1>9 DEF Report, WakeWorker, ExecGoto, Merge, AddJob, Timings, Ended
  <2>2. StaleReport'
    <3>1. CASE pc[j] = "report"
      <4>1. \A k \in Jobs : pc'[k] \notin Ending
        BY <1>2, <2>1, <3>1, OneEnds DEF Ending, Ended
      <4> QED
        BY <4>1 DEF StaleReport
    <3>2. CASE pc[j] # "report"
      BY <1>1, <1>2, <2>1, <3>2 DEF StaleReport, Ending, Ended
    <3> QED
      BY <3>1, <3>2
  <2>3. LogIsNewest'
    BY <1>2, <2>1, StepsAreJobs DEF LogIsNewest, Ended
  <2> QED
    BY <1>1, <1>2, <2>1, <2>2, <2>3, PreviousIsJob DEF OneAfterTheOther, ArmedByPrevious, DoneIsOwn,
       StaleRow, UnarmedIsNotHandled, Ending, Ended
<1> QED
  BY <1>3, <1>4, <1>5, <1>6, <1>7, <1>8, <1>9 DEF Execution

\* Callers wait for a row that is not PAUSED from an earlier pause.
LEMMA TimelyCall ==
    ASSUME OnePauseAtATime, Timely, row = "PAUSED", NEW s \in Steps
    PROVE  pc[s - 1] \notin Ending
BY PreviousIsJob DEF OnePauseAtATime, Timely, Executing, Ending

\* A signal is for a waitpoint that was armed, and comes when no earlier pause is in the row.
LEMMA SignalPauses ==
    ASSUME OnePauseAtATime, Base, PauseInv,
           SubflowFails \/ \E s \in Steps : \/ Signal(s) \/ TimerFires(s) \/ SweepOverdue(s)
                                            \/ ResumeAcquires(s)
    PROVE  PauseInv'
<1>1. /\ UNCHANGED <<row, hash, pc, done, log>>
      /\ \A s \in Steps : waitpoint'[s] = "none" <=> waitpoint[s] = "none"
      /\ \A s \in Steps : Handled(s)' => Handled(s) \/ (Timely /\ waitpoint[s] # "none")
      /\ \A s \in Steps : waitpoint'[s] = "COMPLETED" => waitpoint[s] = "COMPLETED" \/ Timely
  <2> USE DEF Base, TypeInv, TypeOK, Handled, Call, reportVars, engineVars, lockVars, callVars
  <2>1. CASE SubflowFails
    BY <2>1 DEF SubflowFails
  <2>2. ASSUME NEW s \in Steps, Signal(s) PROVE <1>1!:
    BY <2>2 DEF Signal
  <2>3. ASSUME NEW s \in Steps, TimerFires(s) PROVE <1>1!:
    BY <2>3 DEF TimerFires
  <2>4. ASSUME NEW s \in Steps, SweepOverdue(s) PROVE <1>1!:
    BY <2>4 DEF SweepOverdue
  <2>5. ASSUME NEW s \in Steps, ResumeAcquires(s) PROVE <1>1!:
    BY <2>5 DEF ResumeAcquires
  <2> QED
    BY <2>1, <2>2, <2>3, <2>4, <2>5
<1> QED
  BY <1>1, TimelyCall DEF PauseInv, OneAfterTheOther, ArmedByPrevious, DoneIsOwn, LogIsNewest,
     StaleReport, StaleRow, UnarmedIsNotHandled

\* The worker delivers nothing from an earlier pause, and saves none that the row has left.
LEMMA WorkerPauses ==
    ASSUME Base, PauseInv, TakeJob \/ WorkerStep
    PROVE  PauseInv'
<1>1. UNCHANGED <<pc, done, log, calls>>
  BY DEF TakeJob, WorkerStep, SaveReport, SkipMissingReport, ClearReport, FinishRun, DeliverParked,
         engineVars, callVars
<1>2. CASE TakeJob \/ SkipMissingReport \/ ClearReport \/ FinishRun
  <2>1. /\ row' = row /\ (hash'.status = "PAUSED" => hash.status = "PAUSED")
        /\ at' \notin {"check", "dispatch"}
        /\ waitpoint' = waitpoint \/ DiscardWaitpoints
    BY <1>2 DEF TakeJob, SkipMissingReport, ClearReport, FinishRun, Acquire, Release, HolderGoto,
                NoHash, reportVars
  <2>2. \A s \in Steps : /\ waitpoint'[s] = "none" <=> waitpoint[s] = "none"
                         /\ waitpoint'[s] = "COMPLETED" => waitpoint[s] = "COMPLETED"
    BY <2>1 DEF DiscardWaitpoints
  <2> QED
    BY <1>1, <2>1, <2>2, PauseElsewhere DEF Handled
<1>3. CASE SaveReport
  <2>1. /\ UNCHANGED <<waitpoint, hash>>
        /\ row' = row \/ row' = hash.status
        /\ hash.status = "PAUSED" => row' = "PAUSED"
        /\ \A s \in Steps : Handled(s)' => Handled(s)
    BY <1>3 DEF SaveReport, HolderGoto, Handled, callVars
  <2>2. StaleReport' /\ StaleRow'
    BY <1>1, <2>1, PreviousIsJob DEF PauseInv, StaleReport, StaleRow
  <2> QED
    BY <1>1, <2>1, <2>2 DEF PauseInv, OneAfterTheOther, ArmedByPrevious, DoneIsOwn, LogIsNewest,
       UnarmedIsNotHandled
<1>4. CASE DeliverParked
  <2>1. UNCHANGED <<row, waitpoint, hash>>
    BY <1>4 DEF DeliverParked, reportVars
  <2>2. ASSUME NEW s \in Steps, Handled(s)'
        PROVE  Handled(s) \/ (row = "PAUSED" /\ waitpoint[s] = "COMPLETED")
    BY <1>1, <1>4, <2>2 DEF DeliverParked, Undelivered, Release, Handled
  <2> QED
    BY <1>1, <2>1, <2>2 DEF PauseInv, OneAfterTheOther, ArmedByPrevious, DoneIsOwn, LogIsNewest,
       StaleReport, StaleRow, UnarmedIsNotHandled
<1> QED
  BY <1>2, <1>3, <1>4 DEF WorkerStep

\* What is dispatched is the pause in which the last execution ended.
LEMMA DispatchOfNewest ==
    ASSUME Base, PauseInv, DispatchResume
    PROVE  /\ target \in Steps
           /\ pc' = [pc EXCEPT ![target] = "waiting"]
           /\ pc[target - 1] \in Ended
           /\ \A k \in Jobs : k >= target => pc[k] = "none"
           /\ \A k \in Jobs : k < target => pc[k] \in Ended
           /\ log.steps = target - 1 /\ log.paused
<1>1. target \in Steps /\ target \in Jobs /\ waitpoint[target] \in {"PENDING", "COMPLETED"}
  BY StepsAreJobs DEF DispatchResume, Base, ResumeInv, TargetIsStep
<1>2. pc[target] = "none" /\ pc' = [pc EXCEPT ![target] = "waiting"]
  BY <1>1 DEF DispatchResume, EnqueueResume, Base, ResumeInv, ResumedIsGone, TypeInv, TypeOK
<1>3. pc[target - 1] \in Ended
  BY <1>1 DEF DispatchResume, PauseInv, ArmedByPrevious, StaleRow, Handled, Ending
<1>4. \A k \in Jobs : k >= target => pc[k] = "none"
  BY <1>1, <1>2, JobsAreNumbers DEF PauseInv, OneAfterTheOther, Ended
<1>5. \A k \in Jobs : k < target => pc[k] \in Ended
  BY <1>1, <1>3, PreviousIsJob, JobsAreNumbers DEF PauseInv, OneAfterTheOther, Ended
<1>6. log.steps = target - 1 /\ log.paused
  <2>1. \A k \in Jobs : k > target - 1 => pc[k] = "none"
    BY <1>1, <1>4, JobsAreNumbers
  <2>2. target - 1 \in Jobs /\ target - 1 < NSteps
    BY <1>1, PreviousIsJob, FlowRunAssumption DEF Steps
  <2> QED
    BY <1>3, <2>1, <2>2 DEF PauseInv, LogIsNewest
<1> QED
  BY <1>1, <1>2, <1>3, <1>4, <1>5, <1>6

\* A dispatch begins the next execution when the last has reported.
LEMMA ResumePauses ==
    ASSUME Base, PauseInv, ResumeStep \/ DeliveryFails
    PROVE  PauseInv'
<1>1. CASE DispatchResume
  <2>1. /\ UNCHANGED <<row, hash, done, log, calls>>
        /\ waitpoint' = [waitpoint EXCEPT ![target] = "gone"]
        /\ waitpoint[target] # "none"
        /\ at' = "idle" /\ row = "PAUSED"
    BY <1>1 DEF DispatchResume, Release, reportVars, callVars
  <2>2. /\ target \in Steps /\ target \in Jobs
        /\ pc \in [Jobs -> ExecPC]
        /\ waitpoint \in [Steps -> {"none", "PENDING", "COMPLETED", "gone"}]
    BY <1>1, DispatchOfNewest, StepsAreJobs DEF Base, TypeInv, TypeOK
  <2>3. \A k \in Jobs : k # target => pc'[k] = pc[k]
    BY <1>1, <2>2, DispatchOfNewest
  <2>4. pc'[target] = "waiting"
    BY <1>1, <2>2, DispatchOfNewest
  <2>5. OneAfterTheOther'
    BY <1>1, <2>2, <2>3, <2>4, DispatchOfNewest, JobsAreNumbers DEF OneAfterTheOther
  <2>6. ArmedByPrevious'
    <3> SUFFICES ASSUME NEW s \in Steps, waitpoint'[s] # "none"
                 PROVE  pc'[s - 1] \in Ended \cup {"upload", "report"}
      BY DEF ArmedByPrevious
    <3>1. waitpoint[s] # "none"
      BY <2>1, <2>2
    <3>2. pc[s - 1] \in Ended \cup {"upload", "report"}
      BY <3>1 DEF PauseInv, ArmedByPrevious
    <3>3. s - 1 # target
      BY <1>1, <2>2, <3>2, DispatchOfNewest, JobsAreNumbers DEF Ended
    <3> QED
      BY <2>3, <3>2, <3>3, PreviousIsJob
  <2>7. DoneIsOwn'
    BY <2>1, <2>3, <2>4 DEF PauseInv, DoneIsOwn
  <2>8. LogIsNewest'
    <3>1. ASSUME NEW k \in Jobs, pc'[k] \in Ended \cup {"report"},
                 \A m \in Jobs : m > k => pc'[m] = "none"
          PROVE  FALSE
      <4>1. k # target /\ pc[k] # "none"
        BY <2>3, <2>4, <3>1 DEF Ended
      <4>2. k < target
        BY <1>1, <2>2, <4>1, DispatchOfNewest, JobsAreNumbers
      <4> QED
        BY <2>2, <2>4, <3>1, <4>2
    <3>2. ASSUME NEW k \in Steps, pc'[k] = "waiting"
          PROVE  k = target
      <4>1. SUFFICES ASSUME k # target PROVE FALSE
        OBVIOUS
      <4>2. pc[k] = "waiting" /\ k \in Jobs
        BY <2>3, <3>2, <4>1, StepsAreJobs
      <4> QED
        BY <1>1, <2>2, <4>2, DispatchOfNewest, JobsAreNumbers DEF Ended
    <3> QED
      BY <1>1, <2>1, <3>1, <3>2, DispatchOfNewest DEF LogIsNewest
  <2>9. StaleReport'
    BY <2>1 DEF PauseInv, StaleReport
  <2>10. StaleRow' /\ UnarmedIsNotHandled'
    <3>1. \A s \in Steps : Handled(s)' => Handled(s)
      BY <2>1 DEF Handled
    <3>2. \A s \in Steps : pc'[s - 1] \in Ending => s - 1 = target
      BY <1>1, <2>2, <2>3, DispatchOfNewest, PreviousIsJob, JobsAreNumbers DEF Ending, Ended
    <3>3. \A s \in Steps : s - 1 = target => waitpoint'[s] = "none" /\ waitpoint[s] = "none"
      <4> SUFFICES ASSUME NEW s \in Steps, s - 1 = target
                   PROVE  waitpoint'[s] = "none" /\ waitpoint[s] = "none"
        OBVIOUS
      <4>1. s # target
        BY StepsAreJobs, JobsAreNumbers
      <4>2. pc[s - 1] = "none"
        BY <1>1, <2>2, DispatchOfNewest, JobsAreNumbers
      <4> QED
        BY <2>1, <2>2, <4>1, <4>2 DEF PauseInv, ArmedByPrevious, Ended
    <3>4. \A s \in Steps : waitpoint'[s] = "none" => waitpoint[s] = "none"
      BY <2>1, <2>2
    <3> QED
      BY <3>1, <3>2, <3>3, <3>4 DEF PauseInv, StaleRow, UnarmedIsNotHandled
  <2> QED
    BY <2>5, <2>6, <2>7, <2>8, <2>9, <2>10 DEF PauseInv
<1>2. CASE ParkSignal \/ CheckTerminal \/ DropSignal \/ DeliveryFails
  <2>1. /\ UNCHANGED <<row, hash, pc, done, log, calls>>
        /\ \A s \in Steps : Handled(s)' => Handled(s)
    BY <1>2 DEF ParkSignal, CheckTerminal, DropSignal, DeliveryFails, Release, Handled, reportVars,
                callVars, engineVars
  <2>2. \A s \in Steps : /\ waitpoint'[s] = "none" <=> waitpoint[s] = "none"
                         /\ waitpoint'[s] = "COMPLETED" => waitpoint[s] = "COMPLETED"
                                                            \/ row # "PAUSED"
    BY <1>2 DEF ParkSignal, CheckTerminal, DropSignal, DeliveryFails, Base, TypeInv, TypeOK
  <2> QED
    BY <2>1, <2>2, PauseElsewhere
<1> QED
  BY <1>1, <1>2 DEF ResumeStep

\* A cancel removes jobs that have not started, and reports CANCELED.
LEMMA CancelPauses ==
    ASSUME Base, PauseInv, CancelFilters \/ CancelAcquires \/ CancelStep
    PROVE  PauseInv'
<1>1. CASE RemoveJobs
  <2>1. /\ UNCHANGED <<row, waitpoint, hash, done, log>>
        /\ \A s \in Steps : Handled(s)' => Handled(s)
    BY <1>1 DEF RemoveJobs, HolderGoto, Handled, reportVars, callVars
  <2>2. \A k \in Jobs : pc'[k] = pc[k] \/ (pc[k] = "waiting" /\ pc'[k] = "removed")
    BY <1>1, CancelPc DEF CancelStep, Base, TypeInv, TypeOK
  <2> QED
    BY <2>1, <2>2, PreviousIsJob DEF PauseInv, OneAfterTheOther, ArmedByPrevious, DoneIsOwn,
       LogIsNewest, StaleReport, StaleRow, UnarmedIsNotHandled, Ending, Ended
<1>2. CASE CancelAcquires \/ DeleteWaitpoints \/ ReportCanceled \/ CancelReleases
  <2>1. /\ UNCHANGED <<row, pc, done, log, calls>>
        /\ hash'.status = "PAUSED" => hash.status = "PAUSED"
        /\ at' \notin {"check", "dispatch"}
        /\ waitpoint' = waitpoint \/ DiscardWaitpoints
    BY <1>2 DEF CancelAcquires, DeleteWaitpoints, ReportCanceled, CancelReleases, Acquire,
                HolderGoto, Release, Merge, AddJob, StatusReport, reportVars, callVars, engineVars
  <2>2. \A s \in Steps : /\ waitpoint'[s] = "none" <=> waitpoint[s] = "none"
                         /\ waitpoint'[s] = "COMPLETED" => waitpoint[s] = "COMPLETED"
    BY <2>1 DEF DiscardWaitpoints
  <2> QED
    BY <2>1, <2>2, PauseElsewhere DEF Handled
<1>3. CASE CancelFilters
  BY <1>3, PauseElsewhere DEF CancelFilters, Handled, reportVars, lockVars, engineVars
<1> QED
  BY <1>1, <1>2, <1>3 DEF CancelStep

\* Pauses in a row keep their order, whatever fails, is cancelled or is signalled again.
THEOREM PauseInvariant == OnePauseAtATime => (Spec => []PauseInv)
<1> SUFFICES ASSUME OnePauseAtATime PROVE Spec => []PauseInv
  OBVIOUS
<1>1. Init => PauseInv
  BY PreviousIsJob, JobsAreNumbers DEF Init, PauseInv, OneAfterTheOther, ArmedByPrevious, DoneIsOwn,
     LogIsNewest, StaleReport, StaleRow, UnarmedIsNotHandled, Handled, Ended, NoHash, BEGIN_JOB
<1>2. Base /\ PauseInv /\ [Next]_vars => PauseInv'
  <2> SUFFICES ASSUME Base, PauseInv, [Next]_vars PROVE PauseInv'
    OBVIOUS
  <2>1. CASE UNCHANGED vars
    BY <2>1, PauseElsewhere DEF vars, Handled
  <2> QED
    BY <2>1, ExecutionPauses, SignalPauses, WorkerPauses, ResumePauses, CancelPauses DEF Next
<1> QED
  BY <1>1, <1>2, DeliveryInvariant, PTL DEF Spec

\* For a flow of any number of pausing steps: a resume finds its step paused in the log
\* (flow-run-progress-reporter.ts backup), if callers wait for a row that is not PAUSED from an
\* earlier pause.
THEOREM ResumesFindPausedStep == OnePauseAtATime => (Spec => ResumeFindsPausedStep)
<1> SUFFICES ASSUME OnePauseAtATime PROVE Spec => ResumeFindsPausedStep
  OBVIOUS
<1>1. PauseInv /\ [Next]_vars =>
        [\A s \in Steps : pc[s] = "waiting" /\ pc'[s] = "running" => log.paused]_vars
  BY DEF PauseInv, LogIsNewest
<1> QED
  BY <1>1, PauseInvariant, PTL DEF Spec, ResumeFindsPausedStep
=============================================================================
