---------------------------- MODULE FlowRunResume ----------------------------
(***************************************************************************)
(* One flow run that pauses and is resumed: its row, its waitpoints, the   *)
(* reports of the engine on their way to the row, and the jobs that        *)
(* execute it.                                                             *)
(*                                                                         *)
(* The row's status is written by the runs-metadata worker only.  A        *)
(* reporter merges its fields into a Redis hash and adds a deduplicated    *)
(* job; the worker copies the hash into the row and clears it.  The worker,*)
(* a resume and a cancel each work under the lock runs_metadata_<run>; the *)
(* engine, its reports, the timers and a failing subflow do not take it.   *)
(*                                                                         *)
(* The flow is a sequence of steps that each arm one waitpoint: a step of  *)
(* Links hands out its link and goes on, any other pauses the run.  A      *)
(* waitpoint's id, its step and the resume job named after it are all the  *)
(* step's number, and job 0 is the BEGIN job.  The run starts queued, its  *)
(* row written.  There is no barrier here (module FanOutDispatch), no      *)
(* retry, no failing step, and no deadline of a webhook waitpoint.         *)
(***************************************************************************)
EXTENDS Integers, FiniteSets

CONSTANTS
    NSteps,         \* the steps of the flow
    Links,          \* the steps that hand out a link and do not pause
    Delays,         \* the pausing steps that a timer resumes
    MaxSignals,     \* bound: how often one waitpoint is signalled
    MaxFlushes,     \* bound: the progress flushes of one execution
    Events          \* what else may happen, of AllEvents

\* "hasty": a waitpoint is signalled although the row still reads PAUSED from an earlier
\* pause; "cancel": an operator cancels the run; "subflow": a subflow of the run fails;
\* "deliveryFails": a delivery of the metadata worker throws.  Each but the first
\* happens once.
AllEvents == {"hasty", "cancel", "subflow", "deliveryFails"}

Steps == 1..NSteps
Jobs  == 0..NSteps
BEGIN_JOB == 0

ASSUME FlowRunAssumption ==
    /\ NSteps \in Nat \ {0}
    /\ Links \subseteq Steps
    /\ Delays \subseteq Steps \ Links
    /\ MaxSignals \in Nat \ {0}
    /\ MaxFlushes \in Nat
    /\ Events \subseteq AllEvents

VARIABLES
    row,         \* flow_run.status
    waitpoint,   \* the waitpoint of each step: "none", "PENDING", "COMPLETED" or "gone"
    timer,       \* the waitpoints whose RESUME_DELAY_WAITPOINT job is scheduled
    hash,        \* the runs_metadata hash: the merged status, and whether finishTime is set
    touched,     \* a report was merged since the worker read the hash: its requestId differs
    queue,       \* the update-run-metadata jobs that wait
    dedupKey,    \* whether their deduplication key is taken
    holder,      \* who holds the lock: "none", "worker", "resume" or "cancel"
    at,          \* where the holder is
    finishing,   \* the report the worker saved had a finishTime
    target,      \* the waitpoint the holder resumes, or 0
    calls,       \* the resume calls for each waitpoint that wait for the lock
    signals,     \* how often each waitpoint was signalled
    events,      \* the events left
    canceling,   \* a cancel found the run cancellable and waits for the lock
    log,         \* the saved state: how many steps are done, and whether the next is paused
    pc,          \* where each execution of the run is
    done,        \* how many steps it has behind it
    flushing,    \* where its progress flush is, which runs beside the steps
    flushes      \* how many it began

lockVars   == <<holder, at, finishing, target>>
reportVars == <<hash, touched, queue, dedupKey>>
callVars   == <<calls, signals, events, canceling>>
engineVars == <<log, pc, done, flushing, flushes>>
vars == <<row, waitpoint, timer, hash, touched, queue, dedupKey, holder, at, finishing,
          target, calls, signals, events, canceling, log, pc, done, flushing, flushes>>

Status   == {"QUEUED", "RUNNING", "PAUSED", "SUCCEEDED", "CANCELED"}
Terminal == {"SUCCEEDED", "CANCELED"}

\* A hash of timings alone has no status
HashType == [exists : BOOLEAN, status : Status \cup {"none"}, finish : BOOLEAN]
NoHash   == [exists |-> FALSE, status |-> "none", finish |-> FALSE]

\* "waiting": the job is queued.  An execution with a verdict goes through "upload" (its
\* log), "report" and "wake", and its worker then through "timings" and "timingsWake".
ExecPC == {"none", "waiting", "running", "upload", "report", "wake", "timings", "timingsWake",
           "done", "removed"}

TypeOK ==
    /\ row \in Status
    /\ waitpoint \in [Steps -> {"none", "PENDING", "COMPLETED", "gone"}]
    /\ timer \subseteq Steps
    /\ hash \in HashType
    /\ touched \in BOOLEAN
    /\ queue \in Nat
    /\ dedupKey \in BOOLEAN
    /\ holder \in {"none", "worker", "resume", "cancel"}
    /\ at \in {"idle", "save", "clear", "finish", "deliver", "check", "dispatch",
               "remove", "discard", "report", "wake"}
    /\ finishing \in BOOLEAN
    /\ target \in Jobs
    /\ calls \in [Steps -> Nat]
    /\ signals \in [Steps -> 0..MaxSignals]
    /\ events \subseteq AllEvents
    /\ canceling \in BOOLEAN
    /\ log \in [steps : 0..NSteps, paused : BOOLEAN]
    /\ pc \in [Jobs -> ExecPC]
    /\ done \in [Jobs -> 0..NSteps]
    /\ flushing \in [Jobs -> {"no", "report", "wake"}]
    /\ flushes \in [Jobs -> 0..MaxFlushes]

Init ==
    /\ row = "QUEUED"
    /\ waitpoint = [s \in Steps |-> "none"]
    /\ timer = {}
    /\ hash = NoHash
    /\ touched = FALSE
    /\ queue = 0
    /\ dedupKey = FALSE
    /\ holder = "none"
    /\ at = "idle"
    /\ finishing = FALSE
    /\ target = 0
    /\ calls = [s \in Steps |-> 0]
    /\ signals = [s \in Steps |-> 0]
    /\ events = Events
    /\ canceling = FALSE
    /\ log = [steps |-> 0, paused |-> FALSE]
    /\ pc = [j \in Jobs |-> IF j = BEGIN_JOB THEN "waiting" ELSE "none"]
    /\ done = [j \in Jobs |-> 0]
    /\ flushing = [j \in Jobs |-> "no"]
    /\ flushes = [j \in Jobs |-> 0]

Happens(event) == event \in events /\ events' = events \ {event}

\* Some execution of the run is queued or under way
Executing == \E j \in Jobs : pc[j] \notin {"none", "done", "removed"}

(***************************************************************************)
(* A report: the fields that are set are merged into the hash under a new  *)
(* requestId, and a job is added unless one with the key already waits.    *)
(***************************************************************************)
Merge(fields) ==
    /\ hash' = [exists |-> TRUE,
                status |-> IF fields.status = "none" THEN hash.status ELSE fields.status,
                finish |-> hash.finish \/ fields.finish]
    /\ touched' = TRUE
    /\ UNCHANGED <<queue, dedupKey>>

AddJob ==
    /\ queue' = IF dedupKey THEN queue ELSE queue + 1
    /\ dedupKey' = TRUE
    /\ UNCHANGED <<hash, touched>>

StatusReport(status) ==
    [exists |-> TRUE, status |-> status, finish |-> status = "SUCCEEDED"]
Timings == [exists |-> TRUE, status |-> "none", finish |-> FALSE]

(***************************************************************************)
(* The engine.                                                             *)
(***************************************************************************)
ExecGoto(j, label) == pc' = [pc EXCEPT ![j] = label]

\* A resume downloads the saved log and completes the step that is paused in it
StartJob(j) ==
    /\ pc[j] = "waiting"
    /\ ExecGoto(j, "running")
    /\ done' = [done EXCEPT ![j] =
                  IF j = BEGIN_JOB THEN 0
                  ELSE IF log.paused THEN log.steps + 1 ELSE log.steps]
    /\ UNCHANGED <<row, waitpoint, timer, reportVars, lockVars, callVars, log, flushing, flushes>>

\* createForPause: a COMPLETED waitpoint of the step is returned as it is, a PENDING one is
\* kept and its timer armed again.  A bound keeps a step from arming a second waitpoint.
Arm(s) ==
    /\ waitpoint[s] # "gone"
    /\ waitpoint' = [waitpoint EXCEPT ![s] = IF @ = "none" THEN "PENDING" ELSE @]
    /\ timer' = IF s \in Delays /\ waitpoint[s] # "COMPLETED" THEN timer \cup {s} ELSE timer

RunStep(j) ==
    /\ pc[j] = "running"
    /\ done[j] < NSteps
    /\ LET s == done[j] + 1
       IN /\ Arm(s)
          /\ IF s \in Links
             THEN done' = [done EXCEPT ![j] = s] /\ UNCHANGED pc
             ELSE ExecGoto(j, "upload") /\ UNCHANGED done
    /\ UNCHANGED <<row, reportVars, lockVars, callVars, log, flushing, flushes>>

FinishFlow(j) ==
    /\ pc[j] = "running"
    /\ done[j] = NSteps
    /\ ExecGoto(j, "upload")
    /\ UNCHANGED <<row, waitpoint, timer, reportVars, lockVars, callVars, log, done, flushing,
                   flushes>>

\* runFlushLoop: the log of the steps so far, and then RUNNING.  The verdict's own backup
\* waits for it (stateLock).
Flush(j) ==
    /\ flushing[j] = "no"
    /\ pc[j] \in {"running", "upload"}
    /\ flushes[j] < MaxFlushes
    /\ flushes' = [flushes EXCEPT ![j] = @ + 1]
    /\ flushing' = [flushing EXCEPT ![j] = "report"]
    /\ log' = [steps |-> done[j], paused |-> FALSE]
    /\ UNCHANGED <<row, waitpoint, timer, reportVars, lockVars, callVars, pc, done>>

FlushReport(j) ==
    /\ flushing[j] = "report"
    /\ flushing' = [flushing EXCEPT ![j] = "wake"]
    /\ Merge(StatusReport("RUNNING"))
    /\ UNCHANGED <<row, waitpoint, timer, lockVars, callVars, log, pc, done, flushes>>

FlushWake(j) ==
    /\ flushing[j] = "wake"
    /\ flushing' = [flushing EXCEPT ![j] = "no"]
    /\ AddJob
    /\ UNCHANGED <<row, waitpoint, timer, lockVars, callVars, log, pc, done, flushes>>

\* (slip) the status is reported before the log is uploaded
ReportWithoutLog(j) ==
    /\ pc[j] = "upload" /\ flushing[j] = "no"
    /\ ExecGoto(j, "report")
    /\ UNCHANGED <<row, waitpoint, timer, reportVars, lockVars, callVars, log, done, flushing,
                   flushes>>

\* backup of the verdict: the log first
UploadLog(j) ==
    /\ pc[j] = "upload" /\ flushing[j] = "no"
    /\ log' = [steps |-> done[j], paused |-> done[j] < NSteps]
    /\ ExecGoto(j, "report")
    /\ UNCHANGED <<row, waitpoint, timer, reportVars, lockVars, callVars, done, flushing,
                   flushes>>

\* ... then the status, and after the verdict the worker's timings
Report(j) ==
    /\ \/ /\ pc[j] = "report"
          /\ Merge(StatusReport(IF done[j] = NSteps THEN "SUCCEEDED" ELSE "PAUSED"))
          /\ ExecGoto(j, "wake")
       \/ pc[j] = "timings" /\ Merge(Timings) /\ ExecGoto(j, "timingsWake")
    /\ UNCHANGED <<row, waitpoint, timer, lockVars, callVars, log, done, flushing, flushes>>

WakeWorker(j) ==
    /\ \/ pc[j] = "wake"        /\ ExecGoto(j, "timings")
       \/ pc[j] = "timingsWake" /\ ExecGoto(j, "done")
    /\ AddJob
    /\ UNCHANGED <<row, waitpoint, timer, lockVars, callVars, log, done, flushing, flushes>>

(***************************************************************************)
(* Signals.  None of these holds the lock.                                 *)
(***************************************************************************)
\* Whoever signals waits for a row that is not PAUSED from an earlier pause
Timely == "hasty" \in Events \/ ~(row = "PAUSED" /\ Executing)

Call(s) == calls' = [calls EXCEPT ![s] = @ + 1]

\* A callback, a click on a link, or a repeat of either
Signal(s) ==
    /\ s \notin Delays
    /\ waitpoint[s] # "none"
    /\ signals[s] < MaxSignals
    /\ Timely
    /\ signals' = [signals EXCEPT ![s] = @ + 1]
    /\ Call(s)
    /\ UNCHANGED <<row, waitpoint, timer, reportVars, lockVars, events, canceling, engineVars>>

\* handleResumeDelayWaitpoint: a run that is not PAUSED is skipped
TimerFires(s) ==
    /\ s \in timer
    /\ Timely
    /\ timer' = timer \ {s}
    /\ IF row = "PAUSED" /\ waitpoint[s] = "PENDING" THEN Call(s) ELSE UNCHANGED calls
    /\ UNCHANGED <<row, waitpoint, reportVars, lockVars, signals, events, canceling, engineVars>>

\* (slip) the sweep looks for overdue waitpoints of running runs
SweepRunning(s) ==
    /\ row = "RUNNING" /\ waitpoint[s] = "PENDING" /\ s \in Delays
    /\ s \notin timer /\ calls[s] = 0
    /\ timer' = timer \cup {s}
    /\ UNCHANGED <<row, waitpoint, reportVars, lockVars, callVars, engineVars>>

\* sweepOverdueDeadlines: an overdue waitpoint of a paused run whose job is gone
SweepOverdue(s) ==
    /\ row = "PAUSED" /\ waitpoint[s] = "PENDING" /\ s \in Delays
    /\ s \notin timer /\ calls[s] = 0
    /\ timer' = timer \cup {s}
    /\ UNCHANGED <<row, waitpoint, reportVars, lockVars, callVars, engineVars>>

\* markParentRunAsFailed: the newest pending waitpoint is completed first and resumed then
SubflowFails ==
    /\ Timely
    /\ row \notin Terminal
    /\ Happens("subflow")
    /\ \E s \in Steps :
         /\ waitpoint[s] = "PENDING"
         /\ \A t \in Steps : waitpoint[t] = "PENDING" => t <= s
         /\ waitpoint' = [waitpoint EXCEPT ![s] = "COMPLETED"]
         /\ Call(s)
    /\ UNCHANGED <<row, timer, reportVars, lockVars, signals, canceling, engineVars>>

(***************************************************************************)
(* The lock.                                                               *)
(***************************************************************************)
Acquire(who, label) == holder = "none" /\ holder' = who /\ at' = label
HolderGoto(who, from, label) == holder = who /\ at = from /\ at' = label /\ UNCHANGED holder
Release == holder' = "none" /\ at' = "idle" /\ target' = 0 /\ finishing' = FALSE

HasPendingTerminalStatus == hash.status \in Terminal

\* addToQueue under the id <run>-resume-<waitpoint>: no second job of an id that is kept
EnqueueResume(s) ==
    pc' = [pc EXCEPT ![s] = IF @ \in {"none", "done", "removed"} THEN "waiting" ELSE @]

ResumeAcquires(s) ==
    /\ calls[s] > 0
    /\ Acquire("resume", "check")
    /\ target' = s
    /\ calls' = [calls EXCEPT ![s] = @ - 1]
    /\ UNCHANGED <<row, waitpoint, timer, reportVars, finishing, signals, events, canceling,
                   engineVars>>

\* (slip) a terminal status on its way to the row is not looked for
CheckNothing ==
    /\ at = "check"
    /\ at' = "dispatch"
    /\ UNCHANGED <<row, waitpoint, timer, reportVars, holder, target, finishing, callVars,
                   engineVars>>

\* resumeTrustedWithoutLock, entered by a resume and by the worker.  The row is read here
\* and used by the dispatch: it cannot change in between, since only the worker writes it.
CheckTerminal ==
    /\ at = "check"
    /\ IF HasPendingTerminalStatus
       THEN Release
       ELSE at' = "dispatch" /\ UNCHANGED <<holder, target, finishing>>
    /\ UNCHANGED <<row, waitpoint, timer, reportVars, callVars, engineVars>>

\* (slip) the resume job is queued and the waitpoint stays
DispatchWithoutConsume ==
    /\ at = "dispatch"
    /\ row = "PAUSED" /\ waitpoint[target] \in {"PENDING", "COMPLETED"}
    /\ EnqueueResume(target)
    /\ Release
    /\ UNCHANGED <<row, waitpoint, timer, reportVars, callVars, log, done, flushing,
                   flushes>>

\* handleResumeSignal of a PAUSED run: the job is queued and the waitpoint consumed in one
\* transaction, the timer removed after it
DispatchResume ==
    /\ at = "dispatch"
    /\ row = "PAUSED" /\ waitpoint[target] \in {"PENDING", "COMPLETED"}
    /\ EnqueueResume(target)
    /\ waitpoint' = [waitpoint EXCEPT ![target] = "gone"]
    /\ timer' = timer \ {target}
    /\ Release
    /\ UNCHANGED <<row, reportVars, callVars, log, done, flushing,
                   flushes>>

\* ... of a RUNNING or QUEUED one: the signal is parked on the waitpoint
ParkSignal ==
    /\ at = "dispatch"
    /\ row \in {"RUNNING", "QUEUED"} /\ waitpoint[target] = "PENDING"
    /\ waitpoint' = [waitpoint EXCEPT ![target] = "COMPLETED"]
    /\ Release
    /\ UNCHANGED <<row, timer, reportVars, callVars, engineVars>>

\* ... and a signal that is stale
DropSignal ==
    /\ at = "dispatch"
    /\ \/ row \in Terminal
       \/ row = "PAUSED" /\ waitpoint[target] \notin {"PENDING", "COMPLETED"}
       \/ row \in {"RUNNING", "QUEUED"} /\ waitpoint[target] # "PENDING"
    /\ Release
    /\ UNCHANGED <<row, waitpoint, timer, reportVars, callVars, engineVars>>

(***************************************************************************)
(* The runs-metadata worker.                                               *)
(***************************************************************************)
\* (slip) the deduplication key stays, and later reports add no job
TakeJobKeepingKey ==
    /\ queue > 0
    /\ Acquire("worker", "save")
    /\ queue' = queue - 1
    /\ UNCHANGED <<row, waitpoint, timer, hash, touched, dedupKey, finishing, target,
                   callVars, engineVars>>

\* The key goes first, so that a report merged after the read brings a job of its own
TakeJob ==
    /\ queue > 0
    /\ Acquire("worker", "save")
    /\ queue' = queue - 1
    /\ dedupKey' = FALSE
    /\ UNCHANGED <<row, waitpoint, timer, hash, touched, finishing, target, callVars, engineVars>>

\* (slip) the fields that no report set are written too
SaveEveryField ==
    /\ HolderGoto("worker", "save", "clear") /\ hash.exists
    /\ touched' = FALSE
    /\ finishing' = hash.finish
    /\ row' = hash.status
    /\ UNCHANGED <<waitpoint, timer, hash, queue, dedupKey, target, callVars, engineVars>>

\* The hash is read and its fields written to the row
SaveReport ==
    /\ HolderGoto("worker", "save", "clear") /\ hash.exists
    /\ touched' = FALSE
    /\ finishing' = hash.finish
    /\ row' = IF hash.status = "none" THEN row ELSE hash.status
    /\ UNCHANGED <<waitpoint, timer, hash, queue, dedupKey, target, callVars, engineVars>>

SkipMissingReport ==
    /\ holder = "worker" /\ at = "save" /\ ~hash.exists
    /\ Release
    /\ UNCHANGED <<row, waitpoint, timer, reportVars, callVars, engineVars>>

\* (slip) the hash is deleted whatever was merged into it
ClearAnyReport ==
    /\ HolderGoto("worker", "clear", IF finishing THEN "finish" ELSE "deliver")
    /\ hash' = NoHash
    /\ UNCHANGED <<row, waitpoint, timer, touched, queue, dedupKey, finishing, target, callVars,
                   engineVars>>

\* deleteKeyIfFieldValueMatches on the requestId that was read
ClearReport ==
    /\ HolderGoto("worker", "clear", IF finishing THEN "finish" ELSE "deliver")
    /\ hash' = IF touched THEN hash ELSE NoHash
    /\ UNCHANGED <<row, waitpoint, timer, touched, queue, dedupKey, finishing, target, callVars,
                   engineVars>>

DiscardWaitpoints ==
    /\ waitpoint' = [s \in Steps |-> IF waitpoint[s] = "none" THEN "none" ELSE "gone"]
    /\ timer' = {}

\* onFinish: a terminal run loses its waitpoints
FinishRun ==
    /\ HolderGoto("worker", "finish", "deliver")
    /\ IF row \in Terminal THEN DiscardWaitpoints ELSE UNCHANGED <<waitpoint, timer>>
    /\ UNCHANGED <<row, reportVars, finishing, target, callVars, engineVars>>

\* (slip) a run that still has a pending waitpoint is left alone
UndeliveredUnlessPending ==
    IF \E s \in Steps : waitpoint[s] = "PENDING" THEN {}
    ELSE {s \in Steps : waitpoint[s] = "COMPLETED"}

\* findUndeliveredCompletedWaitpoint
Undelivered == {s \in Steps : waitpoint[s] = "COMPLETED"}

\* The newest undelivered waitpoint of a PAUSED run is resumed under the worker's lock
DeliverParked ==
    /\ holder = "worker" /\ at = "deliver"
    /\ IF row = "PAUSED" /\ Undelivered # {}
       THEN /\ at' = "check"
            /\ target' \in Undelivered
            /\ \A s \in Undelivered : s <= target'
            /\ UNCHANGED <<holder, finishing>>
       ELSE Release
    /\ UNCHANGED <<row, waitpoint, timer, reportVars, callVars, engineVars>>

\* The delivery throws: BullMQ retries the job, which reads the hash again
DeliveryFails ==
    /\ Happens("deliveryFails")
    /\ holder = "worker" /\ at = "dispatch"
    /\ Release
    /\ queue' = queue + 1
    /\ UNCHANGED <<row, waitpoint, timer, hash, touched, dedupKey, calls, signals, canceling,
                   engineVars>>

(***************************************************************************)
(* Cancel: the filter on the row, and then cancelSingleRun under the lock, *)
(* which looks at the row no more.                                         *)
(***************************************************************************)
CancelFilters ==
    /\ Happens("cancel")
    /\ row \in {"PAUSED", "QUEUED"}
    /\ canceling' = TRUE
    /\ UNCHANGED <<row, waitpoint, timer, reportVars, lockVars, calls, signals, engineVars>>

CancelAcquires ==
    /\ canceling
    /\ canceling' = FALSE
    /\ Acquire("cancel", "remove")
    /\ UNCHANGED <<row, waitpoint, timer, reportVars, finishing, target, calls, signals, events,
                   engineVars>>

\* removeAllFlowRunJobs: of the queued jobs those that the rate limiter or a retry delays,
\* since a job with a priority, as every flow run has, is not among the waiting ones
RemoveJobs ==
    /\ HolderGoto("cancel", "remove", "discard")
    /\ \E delayed \in SUBSET {j \in Jobs : pc[j] = "waiting"} :
         pc' = [j \in Jobs |-> IF j \in delayed THEN "removed" ELSE pc[j]]
    /\ UNCHANGED <<row, waitpoint, timer, reportVars, finishing, target, callVars, log, done,
                   flushing, flushes>>

DeleteWaitpoints ==
    /\ HolderGoto("cancel", "discard", "report")
    /\ DiscardWaitpoints
    /\ UNCHANGED <<row, reportVars, finishing, target, callVars, engineVars>>

ReportCanceled ==
    /\ HolderGoto("cancel", "report", "wake")
    /\ Merge(StatusReport("CANCELED"))
    /\ UNCHANGED <<row, waitpoint, timer, finishing, target, callVars, engineVars>>

CancelReleases ==
    /\ holder = "cancel" /\ at = "wake"
    /\ AddJob
    /\ Release
    /\ UNCHANGED <<row, waitpoint, timer, callVars, engineVars>>

(***************************************************************************)
(* The specification.                                                      *)
(***************************************************************************)
Execution(j) ==
    \/ StartJob(j) \/ RunStep(j) \/ FinishFlow(j)
    \/ Flush(j) \/ FlushReport(j) \/ FlushWake(j)
    \/ UploadLog(j) \/ Report(j) \/ WakeWorker(j)

\* resumeTrustedWithoutLock from its check to the release of the lock
ResumeStep ==
    /\ UNCHANGED <<events, canceling>>
    /\ \/ CheckTerminal
       \/ DispatchResume \/ ParkSignal \/ DropSignal

WorkerStep == SaveReport \/ SkipMissingReport \/ ClearReport \/ FinishRun \/ DeliverParked

CancelStep == RemoveJobs \/ DeleteWaitpoints \/ ReportCanceled \/ CancelReleases

Next ==
    \/ \E j \in Jobs : Execution(j)
    \/ \E s \in Steps : Signal(s) \/ TimerFires(s) \/ SweepOverdue(s) \/ ResumeAcquires(s)
    \/ TakeJob \/ WorkerStep \/ ResumeStep
    \/ SubflowFails \/ DeliveryFails
    \/ CancelFilters \/ CancelAcquires \/ CancelStep

Spec == Init /\ [][Next]_vars

\* The app and its workers go on, a timer fires, the sweep comes round, and whoever holds a
\* callback URL calls it once.  Nobody has to cancel, and nothing has to fail.
Fairness ==
    /\ \A j \in Jobs : WF_vars(Execution(j))
    /\ \A s \in Steps : /\ WF_vars(signals[s] = 0 /\ Signal(s))
                        /\ WF_vars(TimerFires(s))
                        /\ WF_vars(SweepOverdue(s))
                        /\ SF_vars(ResumeAcquires(s))
    /\ SF_vars(TakeJob)
    /\ WF_vars(WorkerStep)
    /\ WF_vars(ResumeStep)
    /\ WF_vars(CancelStep)

FairSpec == Spec /\ Fairness

(***************************************************************************)
(* Properties.                                                             *)
(***************************************************************************)
\* Nothing of the run is under way, on the app, on a worker or in a queue
Quiet ==
    /\ holder = "none"
    /\ queue = 0
    /\ ~Executing
    /\ \A s \in Steps : calls[s] = 0

Resumes(s) == pc[s] # "waiting" /\ pc'[s] = "waiting"

\* A report merged into the hash reaches the row: when nothing is under way the hash is
\* empty (the job's deduplication key is removed before the hash is read, and the hash is
\* cleared only under the requestId that was read: flow-runs-queue.ts worker).
NoReportIsLost == Quiet => hash = NoHash

\* The hash is cleared only when the row holds the status that was merged last
\* (deleteKeyIfFieldValueMatches on the requestId, flow-runs-queue.ts).
ReportIsClearedOnceSaved ==
    [][hash.exists /\ hash' = NoHash => hash.status \in {"none", row}]_vars

\* A signal that came while the run was RUNNING is delivered when its PAUSED is written: no
\* run stays PAUSED with a COMPLETED waitpoint (flow-runs.md on resumes while RUNNING).
NoParkedSignalIsForgotten ==
    Quiet /\ row = "PAUSED" => \A s \in Steps : waitpoint[s] # "COMPLETED"

\* ... if no delivery of the metadata worker threw (findUndeliveredCompletedWaitpoint and
\* the delivery at the end of the worker, flow-runs-queue.ts).
ParkedSignalIsDelivered ==
    "deliveryFails" \in Events \ events \/ NoParkedSignalIsForgotten

\* Repeated callbacks, a timer, a failing subflow and the worker's own delivery resume a
\* run from one waitpoint once (handleResumeSignal's transaction, waitpoint-service.ts).
ResumedAtMostOnce ==
    [][\A s \in Steps : Resumes(s) => pc[s] = "none"]_vars

\* Once a cancel is reported, on its way to the row or there, no resume job is queued
\* (hasPendingTerminalStatus, and handleResumeSignal's look at the status).
CanceledRunIsNotResumed ==
    [][(row = "CANCELED" \/ hash.status = "CANCELED") => \A s \in Steps : ~Resumes(s)]_vars

\* A run whose steps are all called back, or delayed, ends unless it is canceled: a parked
\* signal is delivered, and a timer that came before PAUSED was written is armed again
\* (flow-runs-queue.ts worker, waitpoint-deadline-sweep.ts).
RunCompletes == <>(row = "SUCCEEDED" \/ "cancel" \in Events \ events)

\* A resume finds its step paused in the log: the engine uploads the log before the status
\* that lets anyone resume the run (flow-run-progress-reporter.ts backup).
ResumeFindsPausedStep ==
    [][\A s \in Steps : pc[s] = "waiting" /\ pc'[s] = "running" => log.paused]_vars
=============================================================================
