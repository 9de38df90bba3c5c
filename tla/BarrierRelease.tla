---------------------------- MODULE BarrierRelease ----------------------------
(***************************************************************************)
(* The barriers of one run, from create to resume.                         *)
(*                                                                         *)
(* A barrier waits for its signals: decisions that people take behind a    *)
(* link, and child runs that report their end.  Whoever writes a signal    *)
(* then queues an evaluation, deduplicated per barrier; a barrier whose    *)
(* policy is satisfied, or whose deadline has passed, is closed and its    *)
(* run is resumed with the summary.  Closing is one transaction; resuming  *)
(* is a later one under the run's lock, and what fails in between is taken *)
(* up by the next evaluation, by the runs-metadata worker when it saves    *)
(* PAUSED, or by the sweep.                                                *)
(*                                                                         *)
(* The run comes to one barrier after the other.  Its row reads RUNNING    *)
(* again before it creates the next (FlowRunResume shows what a stale      *)
(* PAUSED does); how child runs are dispatched is in FanOutDispatch.       *)
(***************************************************************************)
EXTENDS Integers, FiniteSets

CONSTANTS
    NBarriers,    \* the barriers the run comes to
    Approvals,    \* signals a person decides
    Children,     \* signals a child run reports
    SignalSets,   \* the sets of signals a barrier may be created with
    Policies,     \* the policies it may have
    Evaluators,   \* concurrent handlers of the barrier queue
    Deadline,     \* the handler of the deadline job
    FaultSets     \* bound: what may go wrong in one behaviour, each once

\* "crash": a handler dies or throws and its job is run again; "stall": a job is run a second
\* time beside the first; "create": the request that creates a barrier dies after its
\* commit; "wake": a written signal's enqueueEvaluation fails; "deliver": the delivery of the
\* runs-metadata worker fails; "retry": a child run that ended is retried and ends again;
\* "cancel": the run is cancelled.
AllFaults == {"crash", "stall", "create", "wake", "deliver", "retry", "cancel"}

Barriers == 1..NBarriers
Signals  == Approvals \cup Children
Handlers == Evaluators \cup {Deadline}

\* FAILED stands for every unfavourable status
Settled == {"SUCCEEDED", "FAILED"}
Status  == {"none", "PENDING"} \cup Settled
Nothing == [s \in Signals |-> "none"]

ASSUME BarrierAssumption ==
    /\ NBarriers \in Nat \ {0}
    /\ Approvals \cap Children = {}
    /\ IsFiniteSet(Signals)
    /\ SignalSets \subseteq SUBSET Signals
    /\ Policies \subseteq [requiredSuccesses : Nat, releaseOnFirstFailure : BOOLEAN]
    /\ Policies # {}
    /\ Deadline \notin Evaluators
    /\ "free" \notin Handlers /\ "waiting" \notin Handlers
    /\ FaultSets \subseteq SUBSET AllFaults

VARIABLES
    run,       \* flow_run.status
    engine,    \* where the run's execution is
    at,        \* the barrier it came to last
    saving,    \* the metadata worker saved PAUSED and holds the run's lock
    policy,    \* the policy of the run's barriers
    barrier,   \* the status of each waitpoint row
    signal,    \* its signals; "none" where it has none
    summary,   \* what it was closed with
    timedOut,  \* it was closed by its deadline
    timer,     \* the barriers whose deadline job is scheduled
    key,       \* the deduplication key: free, or the evaluation that owns it
    extra,     \* the waiting evaluations that do not own it
    pc,        \* where each handler is
    on,        \* the barrier it handles
    calls,     \* decisions and reports under way
    reported,  \* the children of each barrier that have ended
    decided,   \* the decision each person was told is recorded
    resumes,   \* how often the resume job of each barrier was queued
    faults     \* what has gone wrong

runVars   == <<run, engine, at, saving>>
rowVars   == <<barrier, signal, summary, timedOut>>
queueVars == <<key, extra>>
callVars  == <<calls, reported, decided>>
vars == <<run, engine, at, saving, policy, barrier, signal, summary, timedOut, timer, key,
          extra, pc, on, calls, reported, decided, resumes, faults>>

Call == [barrier : Barriers, signal : Signals, status : Settled, step : {"write", "wake"}]

TypeOK ==
    /\ run \in {"RUNNING", "PAUSED", "ENDED"}
    /\ engine \in {"running", "arm", "wake", "pause", "idle"}
    /\ at \in 0..NBarriers
    /\ saving \in BOOLEAN
    /\ policy \in Policies
    /\ barrier \in [Barriers -> {"none", "PENDING", "COMPLETED", "CONSUMED", "gone"}]
    /\ signal \in [Barriers -> [Signals -> Status]]
    /\ summary \in [Barriers -> [Signals -> Status]]
    /\ timedOut \in [Barriers -> BOOLEAN]
    /\ timer \subseteq Barriers
    /\ key \in [Barriers -> {"free", "waiting"} \cup Evaluators]
    /\ extra \in [Barriers -> Nat]
    /\ pc \in [Handlers -> {"idle", "clear", "read", "count", "close", "resume", "done"}]
    /\ on \in [Handlers -> 0..NBarriers]
    /\ calls \subseteq Call
    /\ reported \in [Barriers -> SUBSET Children]
    /\ decided \in [Barriers -> [Signals -> Settled \cup {"none"}]]
    /\ resumes \in [Barriers -> Nat]
    /\ faults \subseteq AllFaults

Init ==
    /\ run = "RUNNING" /\ engine = "running" /\ at = 0 /\ saving = FALSE
    /\ policy \in Policies
    /\ barrier = [b \in Barriers |-> "none"]
    /\ signal = [b \in Barriers |-> Nothing]
    /\ summary = [b \in Barriers |-> Nothing]
    /\ timedOut = [b \in Barriers |-> FALSE]
    /\ timer = {}
    /\ key = [b \in Barriers |-> "free"]
    /\ extra = [b \in Barriers |-> 0]
    /\ pc = [h \in Handlers |-> "idle"]
    /\ on = [h \in Handlers |-> 0]
    /\ calls = {}
    /\ reported = [b \in Barriers |-> {}]
    /\ decided = [b \in Barriers |-> Nothing]
    /\ resumes = [b \in Barriers |-> 0]
    /\ faults = {}

Happens(fault) == /\ fault \notin faults
                  /\ faults' = faults \cup {fault}
                  /\ \E together \in FaultSets : faults' \subseteq together

(***************************************************************************)
(* The barrier queue.  An evaluation owns the key from its enqueue until   *)
(* it is cleared or BullMQ finishes the job.                               *)
(***************************************************************************)
EnqueueEvaluation(b) ==
    /\ key' = [key EXCEPT ![b] = IF @ = "free" THEN "waiting" ELSE @]
    /\ UNCHANGED extra

Goto(h, label) == pc' = [pc EXCEPT ![h] = label] /\ UNCHANGED on

\* The evaluation e works on is waiting once more
RunAgain(e) ==
    IF key[on[e]] = e
    THEN key' = [key EXCEPT ![on[e]] = "waiting"] /\ UNCHANGED extra
    ELSE extra' = [extra EXCEPT ![on[e]] = @ + 1] /\ UNCHANGED key

TakeEvaluation(e, b) ==
    /\ pc[e] = "idle"
    /\ \/ key[b] = "waiting" /\ key' = [key EXCEPT ![b] = e] /\ UNCHANGED extra
       \/ extra[b] > 0 /\ extra' = [extra EXCEPT ![b] = @ - 1] /\ UNCHANGED key
    /\ pc' = [pc EXCEPT ![e] = "clear"]
    /\ on' = [on EXCEPT ![e] = b]
    /\ UNCHANGED <<runVars, policy, rowVars, timer, callVars, resumes, faults>>

\* (slip) the key is left to BullMQ, which frees it when the job ends
LeaveDedupKey(e) ==
    /\ pc[e] = "clear" /\ Goto(e, "read")
    /\ UNCHANGED <<runVars, policy, rowVars, timer, queueVars, callVars, resumes, faults>>

\* The key is freed whoever owns it
ClearEvaluationDedupKey(e) ==
    /\ pc[e] = "clear" /\ Goto(e, "read")
    /\ key' = [key EXCEPT ![on[e]] = "free"]
    /\ extra' = IF key[on[e]] = "waiting" THEN [extra EXCEPT ![on[e]] = @ + 1] ELSE extra
    /\ UNCHANGED <<runVars, policy, rowVars, timer, callVars, resumes, faults>>

(***************************************************************************)
(* releaseIfReady and release.                                             *)
(***************************************************************************)
ReadBarrier(e) ==
    /\ pc[e] = "read"
    /\ \/ barrier[on[e]] = "PENDING" /\ Goto(e, "count")
       \/ barrier[on[e]] = "COMPLETED" /\ Goto(e, "resume")
       \/ barrier[on[e]] \notin {"PENDING", "COMPLETED"} /\ Goto(e, "done")
    /\ UNCHANGED <<runVars, policy, rowVars, timer, queueVars, callVars, resumes, faults>>

CountOf(signals, status) == Cardinality({s \in Signals : signals[s] = status})

\* (slip) the veto counts every signal that is not a success
ReadyWithoutSuccess(signals) ==
    \/ policy.releaseOnFirstFailure /\ CountOf(signals, "SUCCEEDED") < Cardinality(Signals)
    \/ CountOf(signals, "PENDING") = 0

\* shouldReleaseBarrier: 0 required successes stand for none.  Every barrier is sealed.
ShouldRelease(signals) ==
    \/ policy.releaseOnFirstFailure /\ CountOf(signals, "FAILED") > 0
    \/ policy.requiredSuccesses > 0 /\ CountOf(signals, "SUCCEEDED") >= policy.requiredSuccesses
    \/ CountOf(signals, "PENDING") = 0

CountSignals(e) ==
    /\ pc[e] = "count"
    /\ Goto(e, IF ShouldRelease(signal[on[e]]) THEN "close" ELSE "done")
    /\ UNCHANGED <<runVars, policy, rowVars, timer, queueVars, callVars, resumes, faults>>

\* One transaction: the summary, the status, and the signals are gone.  A barrier that
\* is closed already is left to the release that closed it.
CloseBarrier(h) ==
    LET b == on[h]
    IN  /\ pc[h] = "close"
        /\ \/ /\ barrier[b] = "PENDING"
              /\ barrier' = [barrier EXCEPT ![b] = "COMPLETED"]
              /\ summary' = [summary EXCEPT ![b] = signal[b]]
              /\ timedOut' = [timedOut EXCEPT ![b] = h = Deadline]
              /\ signal' = [signal EXCEPT ![b] = Nothing]
              /\ Goto(h, "resume")
           \/ barrier[b] # "PENDING" /\ Goto(h, "done") /\ UNCHANGED rowVars
        /\ UNCHANGED <<runVars, policy, timer, queueVars, callVars, resumes, faults>>

\* (slip) the delivery of a consumed barrier is repeated
DeliverAgain(b) ==
    IF run = "PAUSED" /\ barrier[b] # "gone"
    THEN /\ resumes' = [resumes EXCEPT ![b] = @ + 1]
         /\ barrier' = [barrier EXCEPT ![b] = "CONSUMED"]
         /\ timer' = timer \ {b}
    ELSE UNCHANGED <<resumes, barrier, timer>>

\* handleResumeSignal of a closed barrier: unless the run is PAUSED the signal is dropped,
\* as there is no PENDING waitpoint to complete
Deliver(b) ==
    IF run = "PAUSED" /\ barrier[b] \notin {"CONSUMED", "gone"}
    THEN /\ resumes' = [resumes EXCEPT ![b] = @ + 1]
         /\ barrier' = [barrier EXCEPT ![b] = "CONSUMED"]
         /\ timer' = timer \ {b}
    ELSE UNCHANGED <<resumes, barrier, timer>>

ResumeRun(h) ==
    /\ pc[h] = "resume" /\ ~saving
    /\ Deliver(on[h])
    /\ Goto(h, "done")
    /\ UNCHANGED <<runVars, policy, signal, summary, timedOut, queueVars, callVars, faults>>

\* BullMQ finishes the job, and frees the key if it is still this job's
Finish(h) ==
    /\ pc[h] = "done"
    /\ pc' = [pc EXCEPT ![h] = "idle"]
    /\ on' = [on EXCEPT ![h] = 0]
    /\ key' = [b \in Barriers |-> IF key[b] = h THEN "free" ELSE key[b]]
    /\ UNCHANGED <<runVars, policy, rowVars, timer, extra, callVars, resumes, faults>>

(***************************************************************************)
(* The deadline and the sweep.                                             *)
(***************************************************************************)
DeadlineFires(b) ==
    /\ b \in timer /\ pc[Deadline] = "idle"
    /\ timer' = timer \ {b}
    /\ IF run = "PAUSED" /\ barrier[b] = "PENDING"
       THEN pc' = [pc EXCEPT ![Deadline] = "close"] /\ on' = [on EXCEPT ![Deadline] = b]
       ELSE UNCHANGED <<pc, on>>
    /\ UNCHANGED <<runVars, policy, rowVars, queueVars, callVars, resumes, faults>>

SweepOverdue(b) ==
    /\ run = "PAUSED" /\ barrier[b] = "PENDING"
    /\ b \notin timer /\ on[Deadline] # b
    /\ timer' = timer \cup {b}
    /\ UNCHANGED <<runVars, policy, rowVars, queueVars, pc, on, callVars, resumes, faults>>

\* (slip) the sweep looks for barriers that are still open
SweepOpen(b) ==
    /\ run = "PAUSED" /\ barrier[b] = "PENDING"
    /\ EnqueueEvaluation(b)
    /\ UNCHANGED <<runVars, policy, rowVars, timer, pc, on, callVars, resumes, faults>>

\* redeliverUndeliveredBarriers; the grace of two minutes is no guard, as a release may be slow
SweepUndelivered(b) ==
    /\ run = "PAUSED" /\ barrier[b] = "COMPLETED"
    /\ EnqueueEvaluation(b)
    /\ UNCHANGED <<runVars, policy, rowVars, timer, pc, on, callVars, resumes, faults>>

(***************************************************************************)
(* Decisions and reports.                                                  *)
(***************************************************************************)
Write(b, s, status) == [barrier |-> b, signal |-> s, status |-> status, step |-> "write"]

\* resolveOpenSignal
OpenLink(b, s, status) ==
    /\ s \in Approvals
    /\ run # "ENDED" /\ barrier[b] = "PENDING" /\ signal[b][s] = "PENDING"
    /\ calls' = calls \cup {Write(b, s, status)}
    /\ UNCHANGED <<runVars, policy, rowVars, timer, queueVars, pc, on, reported, decided,
                   resumes, faults>>

\* The metadata worker saved the end of a child, which may be told again after a retry
ChildEnds(b, s, status) ==
    /\ s \in Children /\ barrier[b] # "none"
    /\ signal[b][s] # "none"
    /\ \A c \in calls : c.barrier # b \/ c.signal # s
    /\ IF s \in reported[b] THEN Happens("retry") ELSE UNCHANGED faults
    /\ reported' = [reported EXCEPT ![b] = @ \cup {s}]
    /\ calls' = calls \cup {Write(b, s, status)}
    /\ UNCHANGED <<runVars, policy, rowVars, timer, queueVars, pc, on, decided, resumes>>

\* (slip) the decision is stored as it was submitted
StoreSubmission(c) == signal' = [signal EXCEPT ![c.barrier][c.signal] = "APPROVED"]

SetSignal(c) == signal' = [signal EXCEPT ![c.barrier][c.signal] = c.status]
GoesOn(c) == calls' = (calls \ {c}) \cup {[c EXCEPT !.step = "wake"]}
Dropped(c) == calls' = calls \ {c}

\* What the first who decided was told
Told(c) == decided' = [decided EXCEPT ![c.barrier][c.signal] = IF @ = "none" THEN c.status ELSE @]

\* (slip) the decision is taken whatever the signal says
DecideAgain(c) ==
    /\ c.signal \in Approvals /\ c.step = "write"
    /\ \/ barrier[c.barrier] = "PENDING" /\ SetSignal(c) /\ GoesOn(c) /\ Told(c)
       \/ barrier[c.barrier] # "PENDING" /\ Dropped(c) /\ UNCHANGED <<signal, decided>>
    /\ UNCHANGED <<runVars, policy, barrier, summary, timedOut, timer, queueVars, pc, on,
                   reported, resumes, faults>>

\* The transaction takes a share lock on the barrier, which closeBarrier waits for
RecordDecision(c) ==
    LET open == barrier[c.barrier] = "PENDING" /\ signal[c.barrier][c.signal] = "PENDING"
    IN  /\ c.signal \in Approvals /\ c.step = "write"
        /\ \/ open /\ SetSignal(c) /\ GoesOn(c) /\ Told(c)
           \/ ~open /\ Dropped(c) /\ UNCHANGED <<signal, decided>>
        /\ UNCHANGED <<runVars, policy, barrier, summary, timedOut, timer, queueVars, pc, on,
                       reported, resumes, faults>>

\* No lock, any status: the last write wins, and nothing matches once the row is deleted
ReceiveSignal(c) ==
    /\ c.signal \in Children /\ c.step = "write"
    /\ IF signal[c.barrier][c.signal] # "none"
       THEN SetSignal(c) /\ GoesOn(c)
       ELSE Dropped(c) /\ UNCHANGED signal
    /\ UNCHANGED <<runVars, policy, barrier, summary, timedOut, timer, queueVars, pc, on,
                   reported, decided, resumes, faults>>

Wake(c) ==
    /\ c.step = "wake"
    /\ EnqueueEvaluation(c.barrier)
    /\ Dropped(c)
    /\ UNCHANGED <<runVars, policy, rowVars, timer, pc, on, reported, decided, resumes, faults>>

\* The metadata job is run again and receives the signal again; the decision's request fails
WakeFails(c) ==
    /\ c.step = "wake" /\ Happens("wake")
    /\ calls' = (calls \ {c}) \cup (IF c.signal \in Children THEN {[c EXCEPT !.step = "write"]} ELSE {})
    /\ UNCHANGED <<runVars, policy, rowVars, timer, queueVars, pc, on, reported, decided, resumes>>

(***************************************************************************)
(* The run.                                                                *)
(***************************************************************************)
\* create: the row and its signals, then the deadline job, then the first evaluation
Create ==
    /\ engine = "running" /\ at < NBarriers
    /\ at' = at + 1
    /\ \E asked \in SignalSets :
           signal' = [signal EXCEPT ![at'] = [s \in Signals |-> IF s \in asked THEN "PENDING" ELSE "none"]]
    /\ barrier' = [barrier EXCEPT ![at'] = "PENDING"]
    /\ engine' = "arm"
    /\ UNCHANGED <<run, saving, policy, summary, timedOut, timer, queueVars, pc, on, callVars,
                   resumes, faults>>

ScheduleDeadline ==
    /\ engine = "arm"
    /\ timer' = timer \cup {at}
    /\ engine' = "wake"
    /\ UNCHANGED <<run, at, saving, policy, rowVars, queueVars, pc, on, callVars, resumes, faults>>

FirstEvaluation ==
    /\ engine = "wake"
    /\ EnqueueEvaluation(at)
    /\ engine' = "pause"
    /\ UNCHANGED <<run, at, saving, policy, rowVars, timer, pc, on, callVars, resumes, faults>>

\* The engine's second request finds the barrier and neither schedules nor queues anything
CreateFails ==
    /\ engine \in {"arm", "wake"} /\ Happens("create")
    /\ engine' = "pause"
    /\ UNCHANGED <<run, at, saving, policy, rowVars, timer, queueVars, pc, on, callVars, resumes>>

\* runsMetadataQueue's worker, under the run's lock: PAUSED, and then ...
SavePaused ==
    /\ engine = "pause"
    /\ engine' = "idle"
    /\ run' = "PAUSED"
    /\ saving' = TRUE
    /\ UNCHANGED <<at, policy, rowVars, timer, queueVars, pc, on, callVars, resumes, faults>>

\* ... a waitpoint that is completed and undelivered, unless a barrier of the run is open
DeliverUndelivered ==
    LET Completed == {b \in Barriers : barrier[b] = "COMPLETED"}
    IN  /\ saving /\ saving' = FALSE
        /\ \/ /\ \A b \in Barriers : barrier[b] # "PENDING"
              /\ \E b \in Completed : Deliver(b) /\ \A c \in Completed : c <= b
              /\ UNCHANGED faults
           \/ /\ Completed = {} \/ \E b \in Barriers : barrier[b] = "PENDING"
              /\ UNCHANGED <<resumes, barrier, timer, faults>>
           \/ Happens("deliver") /\ UNCHANGED <<resumes, barrier, timer>>
        /\ UNCHANGED <<run, engine, at, policy, signal, summary, timedOut, queueVars, pc, on,
                       callVars>>

StartResume ==
    /\ engine = "idle" /\ run = "PAUSED" /\ ~saving
    /\ resumes[at] > 0
    /\ run' = "RUNNING" /\ engine' = "running"
    /\ UNCHANGED <<at, saving, policy, rowVars, timer, queueVars, pc, on, callVars, resumes, faults>>

\* onFinish, or a cancel: the waitpoints, their signals and their deadline jobs are deleted
EndRun ==
    /\ run # "ENDED" /\ ~saving
    /\ \/ engine = "running" /\ at = NBarriers /\ UNCHANGED faults
       \/ Happens("cancel")
    /\ run' = "ENDED" /\ engine' = "idle"
    /\ barrier' = [b \in Barriers |-> "gone"]
    /\ signal' = [b \in Barriers |-> Nothing]
    /\ timer' = {}
    /\ UNCHANGED <<at, saving, policy, summary, timedOut, queueVars, pc, on, callVars, resumes>>

(***************************************************************************)
(* Crashes and stalled jobs.                                               *)
(***************************************************************************)
Crash(h) ==
    /\ pc[h] # "idle" /\ Happens("crash")
    /\ \/ h \in Evaluators /\ RunAgain(h) /\ UNCHANGED timer
       \/ h = Deadline /\ timer' = timer \cup {on[h]} /\ UNCHANGED queueVars
    /\ pc' = [pc EXCEPT ![h] = "idle"]
    /\ on' = [on EXCEPT ![h] = 0]
    /\ UNCHANGED <<runVars, policy, rowVars, callVars, resumes>>

Stall(e) ==
    /\ pc[e] # "idle" /\ Happens("stall")
    /\ RunAgain(e)
    /\ UNCHANGED <<runVars, policy, rowVars, timer, pc, on, callVars, resumes>>

HandlerStep(h) ==
    \/ ClearEvaluationDedupKey(h)
    \/ ReadBarrier(h)
    \/ CountSignals(h)
    \/ CloseBarrier(h)
    \/ ResumeRun(h)
    \/ Finish(h)

CallStep(c) == RecordDecision(c) \/ ReceiveSignal(c) \/ Wake(c)

EngineStep ==
    \/ Create
    \/ ScheduleDeadline
    \/ FirstEvaluation
    \/ SavePaused
    \/ DeliverUndelivered
    \/ StartResume

BarrierStep(b) ==
    \/ DeadlineFires(b)
    \/ SweepOverdue(b)
    \/ SweepUndelivered(b)
    \/ \E e \in Evaluators : TakeEvaluation(e, b)

Next ==
    \/ EngineStep
    \/ CreateFails
    \/ EndRun
    \/ \E h \in Handlers : HandlerStep(h) \/ Crash(h)
    \/ \E e \in Evaluators : Stall(e)
    \/ \E b \in Barriers : BarrierStep(b)
    \/ \E b \in Barriers, s \in Signals, status \in Settled :
           OpenLink(b, s, status) \/ ChildEnds(b, s, status)
    \/ \E c \in calls : CallStep(c) \/ WakeFails(c)

Spec == Init /\ [][Next]_vars

\* Handlers, requests, the engine and the queue go on, deadlines pass and the sweep comes.
\* Nobody has to decide and no child has to end.
FairSpec ==
    /\ Spec
    /\ WF_vars(EngineStep)
    /\ \A h \in Handlers : WF_vars(HandlerStep(h))
    /\ WF_vars(\E c \in calls : CallStep(c))
    /\ \A b \in Barriers : WF_vars(\E e \in Evaluators : TakeEvaluation(e, b))
    /\ \A b \in Barriers : WF_vars(DeadlineFires(b)) /\ WF_vars(SweepOverdue(b))
    /\ \A b \in Barriers : WF_vars(SweepUndelivered(b))

-----------------------------------------------------------------------------
Closed(b) == barrier[b] \in {"COMPLETED", "CONSUMED"}

\* A decision that was recorded is what the barrier says of its signal, and what its summary
\* says when it has closed: a second click, another approver or a close at the same moment
\* neither changes nor drops it (barrier-service.ts:167).
RecordedDecisionCounts ==
    \A b \in Barriers, s \in Signals : decided[b][s] # "none" =>
        /\ barrier[b] = "PENDING" => signal[b][s] = decided[b][s]
        /\ Closed(b) => summary[b][s] = decided[b][s]

\* The signals are counted before the barrier is locked.  Unless a child was retried, a
\* barrier closed before its deadline still satisfies its policy when it is closed
\* (barrier-service.ts:200).
ReleaseIsJustified ==
    "retry" \notin faults =>
        \A b \in Barriers : Closed(b) /\ ~timedOut[b] =>
            \/ \A s \in Signals : summary[b][s] # "PENDING"
            \/ policy.releaseOnFirstFailure /\ \E s \in Signals : summary[b][s] = "FAILED"
            \/ /\ policy.requiredSuccesses > 0
               /\ Cardinality({s \in Signals : summary[b][s] = "SUCCEEDED"}) >= policy.requiredSuccesses

\* An evaluation, or a request on its way to queue one, will look at the signals of b
WillBeEvaluated(b) ==
    \/ key[b] = "waiting" \/ extra[b] > 0
    \/ \E e \in Evaluators : on[e] = b /\ pc[e] \in {"clear", "read", "count", "close"}
    \/ \E c \in calls : c.barrier = b /\ c.step = "wake"
    \/ at = b /\ engine \in {"arm", "wake"}

\* "A sealed barrier releases once no signal is still PENDING": unless an enqueue failed, a
\* barrier that is open and ready does not wait for its deadline.  The deduplication of the
\* evaluations never swallows the last signal (barrier-queue.ts:94).
ReadyBarrierIsEvaluated ==
    faults \cap {"wake", "create"} = {} =>
        \A b \in Barriers : barrier[b] = "PENDING" /\ ShouldRelease(signal[b]) => WillBeEvaluated(b)

\* Each barrier hears its signals while it is open, closes once with what it has heard, and
\* resumes its run at most once with that, although a release, an evaluation, the metadata
\* worker and the sweep may all deliver it (barrier-service.ts:206).
Phase ==
    [b \in Barriers |->
        CASE barrier[b] = "PENDING" -> "open"
          [] barrier[b] = "COMPLETED" -> "closed"
          [] barrier[b] = "CONSUMED" -> IF resumes[b] = 1 THEN "resumed" ELSE "resumed again"
          [] OTHER -> barrier[b]]

Says ==
    [b \in Barriers |-> IF barrier[b] = "PENDING" THEN signal[b]
                        ELSE IF Closed(b) THEN summary[b] ELSE Nothing]

Promise == INSTANCE BarrierPromise WITH Heard <- Settled, phase <- Phase, says <- Says

KeepsPromise == Promise!Spec

\* Every barrier resumes its run in the end, by its policy or by its deadline, whatever
\* failed on the way; unless the run ends first.
BarrierIsDelivered ==
    \A b \in Barriers : barrier[b] = "PENDING" ~> (resumes[b] > 0 \/ run = "ENDED")
=============================================================================
