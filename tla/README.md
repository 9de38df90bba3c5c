# A verification of Activepieces' run protocols

Activepieces runs flows: a trigger starts a run, an engine process executes its steps, a
step may pause the run until somebody calls back, and a batch step fans out into child runs
and waits for them. Several processes share this work through Postgres, Redis and BullMQ:
replicas of the app, workers that boot engines, timers and sweeps. This project models the
protocols between them in TLA+, checks small instances with TLC and proves the central
properties for every instance with TLAPS.

## The system

| Component | State | Operations | Hard parts |
|---|---|---|---|
| Fan-out dispatch (`waitpoints/fan-out-dispatcher-job.ts`, `barrier-queue.ts`, `child-run-dispatch-service.ts`) | dispatch job, source in Redis, claims in `waitpoint_signal.refId`, child runs | claim a chunk, create and enqueue children, release a claim, give up, settle | redelivered jobs beside their first copy, a crash or a failed enqueue between claim and enqueue, cancel and release at any moment |
| Barriers (`waitpoints/barrier-service.ts`) | barrier waitpoint, signals, decisions | create, receive a signal, record a decision, evaluate, release, close | two signals at once, a decision against a close, a crash between close and resume |
| Waitpoints and resume (`waitpoint-service.ts`, `resume-service.ts`) | waitpoint rows | arm, signal, park, deliver, consume, discard | a signal before the pause is written, repeated signals, a stale status |
| Runs-metadata queue (`flow-runs-queue.ts`, `runs-metadata-queue-factory.ts`) | hash per run in Redis, deduplicated job, `flow_run` | merge, save, clear, finish, deliver | reports merged while one is being saved, failures after the clear |
| Flow run service (`flow-run-service.ts`) | `flow_run` | start, retry, cancel | cancel against resume and against a running engine |
| Delays and the deadline sweep (`resume-delay-handler.ts`, `waitpoint-deadline-sweep.ts`) | delayed system jobs | fire, re-arm, dead-letter, redeliver closed barriers | a timer before the pause, a lost job |
| Engine (`engine/src/lib`) | step outputs, saved log | walk the flow, call steps, flush progress, pause, restore | log and status in two stores; every job of a run walks the whole flow again over what is recorded |
| Job queue and broker (`workers/job-queue`) | BullMQ queues, assignments of jobs to worker connections | poll, dispatch, complete, return on disconnect, stalled scan | a job completing beside its redelivery, lost connections |
| Rate limiter, polling exclusivity, zombie polling (`job-queue/interceptors`) | slots, parked jobs, a lock per polled flow | acquire, release, promote, reject | a slot never returned, release of another job's lock |
| Worker groups, queue migration (`workers/worker-groups`) | queue per group, migration journal | assign, move jobs | jobs added while a queue is moved |
| Worker (`packages/server/worker`) | engine processes | execute, report timings, retry | process death |
| Triggers and webhooks (`trigger`) | trigger sources | enable, disable, dedupe | calls of external services |
| Pieces, web UI, CLI, enterprise and billing, deployment | none shared with the above | | not modelled: integrations and request handlers without a protocol between processes |

What makes each correct:

- fan-out: a batch is handed to at most one child run; the barrier neither loses a batch nor
  waits for a child that will never report; a cancel reaches every child.
- engine: over pauses, failures, retries and redelivered jobs a finished step is not called
  again, an order of steps holds, and a payload goes to the step it was meant for.
- waitpoints and resume: a signal resumes the run once and is never lost, a cancelled run is
  not resumed.
- runs-metadata queue: the last report of a run reaches its row, whatever is merged meanwhile.
- sweep and timers: no paused run waits for a job that no longer exists.
- broker and interceptors: a job has one owner, slots come back, a flow is polled once.

How they interact: an engine arms waitpoints over HTTP and reports its status through the
runs-metadata hash; the metadata worker writes the row, passes a child's end to the barrier
it reports to, and resumes a run whose signal came early; a resume is one more
`EXECUTE_FLOW` job named after its waitpoint; the barrier's release is a resume of its run;
timers and sweeps stand behind both.

## Modules

| Module | What it is |
|---|---|
| `FanOutDispatch` | one batch step: barrier, signals, claims, children, dispatchers, the give-up job |
| `FanOutPromise` | what dispatch promises of each batch, implemented by `FanOutDispatch` (`KeepsPromise`) |
| `FanOutDispatch_proofs`, `FanOutPromise_proofs` | proofs about `FanOutDispatch`: its safety; the refinement and what holds once dispatch is over |
| `FlowRunResume` | one run that pauses and is resumed: row, hash, metadata worker, waitpoints, timers, cancel, engine |
| `FlowRunResume_proofs` | proofs about `FlowRunResume` |
| `BarrierRelease` | the barriers of one run: create, decisions and reports, evaluation and its deduplication, close, resume, deadline, sweep |
| `BarrierPromise` | what a barrier promises the step that paused on it, implemented by `BarrierRelease` (`KeepsPromise`) |
| `BarrierRelease_proofs` | proofs about `BarrierRelease` |
| `JobDispatch` | one BullMQ queue and one app replica: dispatcher, broker, assignments, the rate limiter, the polling interceptors, the workers' connections |
| `JobDispatch_proofs`, `JobLimits_proofs` | proofs about `JobDispatch`: deliveries and what they hold; the limits and the types |
| `FlowExecutor` | one flow as the engine walks it, over all the jobs the run takes |
| `FlowExecutor_proofs`, `FlowReplay_proofs` | proofs about `FlowExecutor`: types, reuse and routes, with faults; the order of calls, of waits and of what reads a payload |
| `MCFanOut`, `MCFlowRun`, `MCBarrier`, `MCJobDispatch`, `MCFlowExecutor` | what TLC instantiates |

Each action carries the name of the function or of the step it stands for. An await between
two stores is a boundary between actions; a database transaction that locks what it reads is
one action. Definitions marked `(slip)` are plausible mistakes in one action: they are no
part of the specification, and each is there to show that a property notices it.

### FanOutDispatch

`barrier`, `signal`, `refId` are the waitpoint and signal rows, `run` the child's row and job,
`source` the Redis key, `job`/`holder`/`attempts`/`stalls` the BullMQ job `dispatch-<id>`,
`giveUpJob` the job that settles what was given up and how far it is; `pc`, `cursor`, `todo`,
`swept` are each dispatcher's local variables between awaits; `reporting` counts the outcomes
that are recorded and whose evaluation is still to be asked for. The sweep of the unclaimed
signals (Postgres) and the request for an evaluation (Redis) are two steps in each place where
the code does both: `SettleUnclaimedSignals` and `EvaluateAndReturn`, `SettleIfGaveUp` and
`EvaluateLate`, `GiveUpSettles` and `GiveUpEvaluates`, `ReceiveSignal` and `ReportEvaluates`.
Either may fail, and a process may die in between. `deserted` is history: somebody stopped
between the two and nothing runs that step again. Child ids are pairs of a signal and a count
and stand for fresh random ids. Choices of abstraction:

- transactions that take a share lock on the barrier are single actions; a chunk's SKIP
  LOCKED read is part of its transaction, a rolled-back claim is not distinguished;
- `"outage"` is a failing call of the create request, of a settlement, of the give-up job or
  of the `'failed'` handler that adds it, and an evaluation that a report could not ask for on
  any attempt of its metadata job; a report that fails before it records the outcome is
  repeated by that job and is left out, as is a `reportChildRunStarted` that fails;
- `EnqueueTxAborts` stands for a `cancelUnstartedChildRun` that throws, too;
- evaluation, release policies and decisions are reduced to "all signals settled" (they are in
  `BarrierRelease`);
- a reply of the queue that is an error although the job was kept is not modelled; the slip
  `ReleaseOfQueued` shows what one would break.

### FlowRunResume

`row` is `flow_run.status`, `hash`, `touched`, `queue`, `dedupKey` the report in Redis and its
deduplicated job, `holder`, `at`, `target` the lock `runs_metadata_<run>` and its holder's
place, `waitpoint`, `timer` the waitpoints and their delayed jobs, `calls` the resumes
waiting for the lock, and `log`, `pc`, `done`, `flushing` the executions of the run. The flow
is a sequence of steps that pause or hand out a link. Choices of abstraction:

- the lock is held until released: its TTL of 30 s and redlock's retries are not modelled;
- resuming reads the row once inside the lock; since only the lock's holder writes it, the
  branch of `resumeTrustedWithoutLock` that re-reads the row finds nothing new and is left out;
- the transaction that queues the resume job and consumes the waitpoint is one action;
- the run starts with its row written; a live run's first report writes it;
- a cancel is two actions, the filter on the row and, under the lock, `cancelSingleRun`, which
  does not look at the row again; whether it ever gets the lock is left open;
- the engine does not crash and no step fails; retries, webhook deadlines, barriers and the
  v1 resume by run are not in this module. A step does not arm a second waitpoint after its
  first was consumed.

### BarrierRelease

`run` is `flow_run.status`, `engine` and `at` how far the run's execution has come, `saving`
the metadata worker holding the run's lock after it saved PAUSED; `barrier`, `signal`,
`summary`, `timedOut` are the waitpoint row, its signals and its resume payload, `timer` the
deadline jobs, `key` and `extra` the deduplication key of the evaluations and the evaluations
that do not own it, `pc` and `on` the handlers of the barrier queue and of the deadline,
`calls` the decisions and reports under way. `reported`, `decided`, `resumes` and `faults` are
history: who has ended, what a person was told, how often a resume was queued. Every await is
a boundary: an evaluation frees its key, reads the barrier, counts the signals, closes and
resumes in five steps, and anything may happen between them. Choices of abstraction:

- recording a decision is one action, because its transaction takes a share lock that
  `closeBarrier` waits for; a child's report takes no lock and is an action of its own;
- a signal is PENDING, SUCCEEDED or FAILED, which stands for every unfavourable status;
- resuming is `handleResumeSignal` reduced to its branches: dispatched when the run is PAUSED,
  otherwise dropped, as a closed barrier is not PENDING and nothing parks it;
- left out: a stale PAUSED row (the hazard is in `FlowRunResume`), a commit that fails after
  the resume was queued, dead-lettered deadlines, paging and cursors of the sweep, the source
  key, the signal cap, the validation of a decision's reason, a create that races a cancel.

### JobDispatch

`queue`, `lock`, `failures`, `stalls` are BullMQ's record of each job; `slot` and `parked` the
pool's two sorted sets, `polling` the exclusivity lock; `loop` and `waiters` the dispatcher,
`assigned` and `keys` the assignment tracker's two maps, `open` the sockets the app holds;
`tasks` the calls of `completeJob` and `returnJobToQueue` under way, which go to Redis two or
three times each; `conn`, `work` and `killed` the workers. The two sides of a connection
notice that it broke at different times (`Drop`, `Disconnect`), so a worker may be back on a
new connection before the app has returned the jobs of the old one. A token is fresh when
nobody uses it (`InUse`); the code's are random. Choices of abstraction:

- `slot` remembers the token that took it, which Redis does not: only the expiry of a slot
  refers to it, since its score is the time of that delivery;
- timing enters as guards: a lock lapses, a slot or a polling lock expires only when nobody
  attends to the delivery that took it, unless the fault says otherwise (`lapse`, `slow`);
- `leaked` is history: the jobs whose slot a release should have given back and did not.
  `CleanupFails` is an `onJobFinished` that throws, or one whose lookup of the pool fails, so
  that it releases the slot of another pool; which slot it took there does not show;
- a crash of the app ends its loop, its polls and its calls under way and keeps what is in
  Redis (`AppDies`); the workers come back on new connections;
- left out: an acquire under the fallback key of a pool that cannot be looked up, a report whose
  read of the job throws, other replicas, adding jobs, priorities, schema migration, waiting
  callers, more than one pool or queue, a pool that changes while a job runs, workers of a
  concurrency above one.

### FlowExecutor

`flow` is the tree of steps; `stack` the recursion of `flowExecutor.execute` and the handlers,
outermost first, each frame with its step, the loop iterations around it (`path`) and what it
has left to do; `journal` and `verdict` are the execution context, `log` the run's log file,
`status` the run's row, `armed` the keys of pending waitpoints, `job` and `phase` the job and
how far it is. A verdict other than RUNNING empties the stack: every level of the recursion
returns it. `succeeded` and `readers` are history. A call of a step is three actions or more:
it starts (`Call`), may arm a waitpoint (`Arm`), and ends in a pause, a success, a failure or
another attempt; a worker may die or the log be flushed between them. Choices of abstraction:

- a call succeeds or fails as it likes, an AI router answers with any of its routes; values
  of outputs are left out, but a router may test how a step ended (`Seen`);
- a signal is the dispatch of a resume job for any pending waitpoint of a paused run; early
  and repeated signals, the metadata worker and cancel are in `FlowRunResume`;
- settings that cannot be resolved are a fault (`ResolveFails`) of loops and routers; for an
  action they are one way of failing its call. An error that escapes from the steps of a branch
  (branch-execution.ts:33) fails the router in the code and is left out: the handlers of those
  steps catch their own;
- `Kill` is the sandbox's timeout; memory and log limits end a run in the same way, with other
  statuses;
- left out: test runs of one step, runs that enter at a step with seeded outputs (fan-out
  children), the trigger, the size limit of the log, responses and tags, items that are not a
  list, an AI router that cannot pause or has nothing to ask.

## Runs

| Run | Instance | Shows |
|---|---|---|
| `FanOutFaults` | 2 batches in chunks of 1, 2 dispatchers, 2 attempts, any 2 of crash, aborted transaction and failed call, or a stall, or the cancel of a child | types; a batch has at most one child; a live child is the one its signal waits for; a cancel of the parent reaches every child that has not started; the last settlement is followed by an evaluation, unless the step that owed it is never run again; dispatch implements `FanOutPromise`, aborted enqueues and cancelled children included |
| `FanOutLive` | 3 batches in chunks of 2, 1 dispatcher, a repeated create | dispatch that is over leaves no batch unclaimed and no claim without a child, an unstarted child of a closed barrier is cancelled, and the barrier closes in the end |
| `ResumeSafe` | a link and a pause, each signalled up to twice at any moment, a failing subflow, a failing delivery | types; nothing is cleared before it is saved; a parked signal is delivered unless the delivery threw; no waitpoint resumes twice |
| `ResumeLive` | two callbacks and a delay, one flush per execution, a cancel | the run ends unless cancelled; no report is lost; a run with CANCELED on its way is not resumed; a resume finds its step paused |
| `BarrierRelease` | a barrier with an approval and a child, or with no signal; all, or the first; one evaluator; each fault, and a crash with a failing delivery or a failed create with a failed enqueue | types; a recorded decision is in the summary; a barrier closes when ready or overdue; one that is ready has an evaluation coming; it implements `BarrierPromise`; it resumes its run in the end |
| `DispatchSafe` | two flows in a pool of one slot, or two polls of one flow version; 2 workers, 3 connections, 8 sets of faults | types; the limit and the exclusivity of a poll hold while no connection breaks, no lock lapses, no cleanup fails and the app does not die; a slot has a job that will give it back, unless its release failed; a live worker keeps its job |
| `DispatchLive` | the same with 1 worker, 2 connections, 9 sets of faults | every job ends |
| `DispatchLateReport` | two flows, 2 workers, a broken connection | finding: the report of a killed execution frees the slot of the redelivered copy |
| `ExecutorPauses` | seven flows: waits and a retried step in a loop, a failure branch with a router on it, an AI router with the best route, with and without a fallback, one with all routes in a loop, a wait in two nested loops, two waits in a row; 2 retries of the run | types; what succeeded is never called again; a call finds nothing before it unfinished; a paused run waits for one step, whose waitpoint is pending; a payload is read once; the best route alone runs |
| `ExecutorFaults` | three of them, 1 retry, a redelivery, a kill and unresolvable settings anywhere | a job that resumes a run calls no step the log records as succeeded, unless its loop failed; every job ends |
| `ExecutorCrash` | a loop behind a step, a redelivery | finding: a redelivered BEGIN job calls finished steps again |
| `ResumeFailedDelivery` | one pause, a failing delivery | finding: the retried metadata job finds no hash and does not deliver |

The runs whose name a finding carries each state a sentence of the repository's own
documentation or comments, quoted in `PROJECT.json`, and end in a counterexample.

**Deviations.** Beyond the findings, the models reach these behaviours, which the texts named
do not expect. Each shows under the settings given; no run is kept for it.

- A child cancelled between its claim and its enqueue is enqueued from the dispatcher's copy
  of its row (`FanOutDispatch` with `"cancel"`; brain/knowledge/flows-execution/flow-runs.md:68).
- A claim released after the job was completed by its copy is not taken again before the
  deadline (`NoSignalLeftUnclaimed` with `"stall"`; server-side-fan-out.md:47).
- A step that settles the last signal ends between the settlement and its request for an
  evaluation, and nothing runs it again: a dispatcher that has lost its job, the `'failed'`
  handler, a give-up or a report on its last attempt. All signals are settled and the barrier
  waits for its deadline (`LastSettlementIsEvaluated` exempts it as `deserted`;
  fan-out-dispatcher-job.ts:164-168, barrier-service.ts:148-165).
- A queued resume outlives the cancel of its run, as `removeAllFlowRunJobs` lists waiting and
  delayed jobs and an `EXECUTE_FLOW` job is a prioritized one (`FlowRunResume` with `"cancel"`;
  flow-runs.md:61).
- A cleanup that throws, or a crash of the app between the move of a job and the release of
  its slot, leaves the slot taken for as long as one execution may last, with no job behind it
  (`SlotIsHeldForAJob` exempts it as `leaked`; job-broker.ts:178-183, 316-322).
- The cleanup of a failed poll reads the polling lock and pauses until it has expired; its DEL
  then takes the lock of the next poll, and two run (`OnePollUndisturbed` without its hypothesis,
  with `"slow"` and `"failure"`; polling-exclusivity-interceptor.ts:26-33).
- A run is killed in its second wait and retried; a step before it that had failed and was
  allowed to is called again and waits, and the payload of its signal is read by both
  (`PayloadIsReadOnce` with `"kill"`; the comment at flow.operation.ts:296).
- A resume job that uploaded a failure is delivered again: the failed step passes for
  completed and the steps behind it are called (`CalledInOrder` with `"redeliver"`;
  error_handling.md:26).
- A loop whose items cannot be resolved on a resume loses its iterations, and a retry repeats
  them (`SucceedsOnce` with `"resolve"`; durable-execution.mdx:46).
- An AI router with two routes of one name runs the first, and both when a later resume
  replays it (`OneRoute` with such a flow; ai-router.mdx:65).
- A router that tests a step behind it (one moved forward keeps its conditions) finds nothing
  on the first walk and what is recorded on a resume: it takes another branch, whose steps are
  called while a step behind it waits (`CalledInOrder` with such a flow; passing-data.mdx:21).

**Bounds.** Two batches, or three in chunks of two, give a chunk boundary and a batch that is
behind it; two dispatchers are the job and its redelivered copy, of which there is none without
a stall, and BullMQ fails a job that stalls a second time; two claims per batch are a claim, its
release and the next one; two faults let one recovery meet another fault, and a stall or the
cancel of a child comes alone (`LoneFaults`; the proofs have no such bound). In `FlowRunResume`
two steps are a resume after which another pause or link is still open; two signals are a
callback and its repeat; a flush per execution is one report beside the verdict's. `ResumeSafe`
leaves the flushes and the cancel to `ResumeLive`, and the proofs hold for every bound. In
`BarrierRelease` one approval and one child are the two kinds of signal, and the two policies
use every branch of `shouldReleaseBarrier`; a stalled evaluation runs beside the next one even
with one evaluator (`extra`); two barriers in a row and two evaluators at once are left to the
theorems. In `JobDispatch` two jobs are one that holds the slot and one that waits for it, three
connections are a worker that comes back while the other takes over; one stall (the code allows
three) makes a job's last failure by stalling reachable, and two attempts a retry. `FaultSets`
says which faults meet in one behaviour; each but broken connections comes once. In
`FlowExecutor` two items make an iteration that is passed and one that is next, two attempts a
failed one and a last, two retries a retry of a retry; each fault comes once. `ExecutorPauses`
has no faults: what a redelivery, a kill or a lost loop breaks of its properties is listed under
the deviations.

**Fairness.** `FanOutLive`: weak fairness of creation, of each dispatcher, of the give-up, of
the evaluation, of the request for one by a report and of each child's start and report; BullMQ
redelivers and workers go on, but nothing has to fail and no deadline has to fire. `ResumeLive`:
weak fairness of each execution, the worker, a resume and a cancel that hold the lock, the
timers, the sweep and of the first call of each callback URL; strong fairness of taking the
lock, which redlock's random retries give to a run with finitely many competitors. The sweep is
needed: a timer that fires before PAUSED is written is skipped. `BarrierRelease`: weak fairness
of the engine, each handler, the calls under way, the queue, deadlines and the two sweeps;
nobody has to decide and no child has to end, so that what is shown rests on the deadline.
`DispatchLive`: weak fairness of the dispatcher, of the calls under way, of a worker that
connects, polls and ends what it executes, of each side noticing a broken connection, and of
BullMQ's promotion, stalled scan and the expiry of what nobody attends to; strong fairness of
dequeuing each job, as a job keeps its turn in the queue. A late report need not come.

`ExecutorFaults`: weak fairness of taking the job, of the walk, the upload, the report and the
completion; flushes, faults, signals and retries need not come.

**Deadlock** is not checked: a closed fan-out whose children ended, a run that ended or waits
for a call that never comes, a delivered barrier and a queue whose jobs are all done really
stop.

In `ResumeLive` callers signal a pause only when the row no longer reads PAUSED from an
earlier one (`Timely`): `handleResumeSignal` chooses between parking and dispatching by the
row's status (waitpoint-service.ts:119), which lags behind the run, and a signal in that
window is dispatched while the run executes. `ResumeSafe` makes no such assumption.

## Proofs

From the assumptions on the constants alone (`FanOutAssumption`, `FlowRunAssumption`,
`BarrierAssumption`, `JobDispatchAssumption`, `FlowExecutorAssumption`), for any number of
batches, dispatchers, attempts, faults, steps, signals, flushes, barriers, approvers, children,
evaluators, jobs, workers, connections and tokens, and for every flow:

- `TypeCorrect`: `FanOutDispatch` is type correct.
- `AtMostOneChildPerSignal`, `LiveChildrenAreAwaited`, `CancelIsComplete`: the safety
  properties of `FanOutFaults`. None is inductive. The invariant `Claims` adds what the claim
  columns mean: ids above the count are fresh (`FreshAbove`); while the barrier waits, an
  existing child is the one its signal names and the signal is pending until it reports
  (`ClaimHolds`); what a dispatcher has yet to enqueue is its own and has no job
  (`TodoIsUnstarted`); a cancel is under way only on a deleted barrier (`CancelOfGone`). The
  proof takes the actions that touch one child, a sweep, and those that close the barrier
  apart.
- `FanOutPromise_proofs!Implements`: every step of dispatch is a step of `FanOutPromise` or a
  stutter. `PInv` adds to `Claims` what a settled signal means (its child reported, or it was
  given up without one), so that a step which settles a signal finds it open, and a child that
  starts was not started for its batch before.
- `LastSettlementHasEvaluation`, with every fault: settled signals have somebody who owes their
  evaluation (`SettledIsOwed`): a dispatcher between sweep and request, or one that holds the
  job and is on its way there again (`Toward`), the waiting job, the give-up that is queued, at
  work or about to be queued, a create or a report that has yet to ask. What was owed by a step
  that nobody repeats is `deserted`, and only then may the evaluation be missing.
- `NothingIsLeftUnclaimed` under `NoRetreat` (no crash, no stall, no failed call);
  `ClaimsHaveChildren` and `UnstartedChildrenAreCanceled` under `NoLoss` (no crash, no
  transaction that aborts): the hypotheses are on the constant `FaultKinds`, and each run that
  checks the property satisfies them; without them the properties fail (see Deviations).
- `ReportsAreSaved` and `ReportsAreClearedOnceSaved`: the invariant `ReportInv` says who will
  still look at the hash. A report in it has a waiting job, a worker about to read, or a
  reporter about to add a job, unless the worker has read exactly this report and is about to
  clear it (`HashIsAwaited`); a taken deduplication key has its job waiting (`KeyHasJob`); and
  what the worker read and nobody touched is in the row (`ReadIsSaved`).
- `WaitpointsResumeOnce`: `ResumeInv` says that a waitpoint whose resume job was ever queued
  is gone, and that the holder resumes a real waitpoint.
- `FlowRunResume_proofs!TypeCorrect`; `CanceledRunsAreNotResumed`: the one action that
  resumes is the dispatch inside the run's lock (`OnlyDispatchResumes`), and its holder has read
  a row that a cancel had not yet changed, or a report of the cancel is in the hash.
- `ParkedSignalsAreDelivered`: a parked signal has the report of the pause still to come
  (`ParkedIsAwaited`), and the worker that saves PAUSED delivers before it lets go of the lock
  (`WorkerDelivers`), unless its delivery threw.
- `ResumesFindPausedStep`, under `OnePauseAtATime` (no step hands out a link, callers are not
  hasty): `PauseInv` orders the waitpoints of the run. A step is armed after the one before it
  was resumed (`OneAfterTheOther`, `ArmedByPrevious`), so the newest log is that of the armed
  step (`LogIsNewest`), and a report or a row that is behind (`StaleReport`, `StaleRow`) cannot
  resume a step that is not armed yet. TLC refutes the property with a link, and with a hasty
  caller, so neither hypothesis can be dropped.
- `BarrierRelease_proofs!TypeCorrect`, `DecisionsCount`, `Implements`: the invariant `BInv`
  says what exists when: barriers the run has not come to are absent and nothing handles them,
  a closed barrier has no signals and a summary that stays, a barrier that was never consumed
  never resumed its run, and a decision that was recorded is the signal's value until the
  close and the summary's after it. Every step then maps to a step of `BarrierPromise` or a
  stutter.
- `ReadyIsEvaluated`: `EInv` adds what the deduplication key means. A taken key belongs to an
  evaluation that waits or is about to free it (`OwnerIsAtClear`), so an enqueue that finds it
  taken has an evaluation behind it that has yet to read; and one that reads has freed the key,
  so what is written afterwards queues another.
- `ReleaseJustified`: `JInv` adds that a barrier counted as ready stays ready until it is
  closed. A policy counts settled signals, a decision changes only a pending one, and without
  a retry a child reports one status (`ReportsAgree`); settling one more signal never makes a
  ready barrier unready.
- `SlotsComeBack` and `LiveWorkersKeepTheirJobs`, with every fault: `JobDispatch_proofs!Inv`
  says that what the loop holds is active, locked for it and known to nobody else (`LoopHolds`,
  from fresh tokens); that only an active job is locked; that a delivery is with the loop, with
  one worker or killed (`OnePlace`); that a worker executes what was assigned to its present
  connection; and, unless a lock lapsed, that the tracker's two maps and the locks agree on open
  connections (`AssignedIsLocked`, `KeysMatch`). The disconnect of an earlier connection then
  returns only jobs no live worker executes (`LiveIsUntouched`). A slot is of a job that is
  active, about to be released or put back by the stalled scan, of one that stalled too often,
  or it is `leaked`.

- `LimitHolds` and `OnePollRuns`: `Limits` holds while nothing but the `Harmless` faults has
  happened. A delivery that has passed the interceptors is handed over, executed or reported in
  one place (`WaitersPoll`, `OneTask`) and has the slot, or the polling lock, under its own
  token until its release (`SlotOfAcquired`, `PollOfAcquired`); a slot is of such a delivery
  (`SlotIsAcquired`), which is not parked and not due before its release (`NotParked`,
  `TasksHold`), and there are no more slots than the limit (`SlotsAreFew`). The map from running
  workers to slots is then injective. The faults that are excluded break the properties, as the
  finding of `DispatchLateReport` shows for a broken connection.
- `JobLimits_proofs!TypeCorrect`: only a failed job has used up its attempts, and a job that
  stalled too often is not active again (`Counters`).

- `FlowExecutor_proofs!TypeCorrect`: `TInv` says where a frame of the recursion and an entry of
  a journal can be. The loops around a recorded step or a frame are recorded (`JournalOk`,
  `FrameOk`), which the restore of a log and the loss of a loop's iterations keep; only the
  innermost frame is at work (`StackIs`); a step that is called is not recorded as succeeded.
- `ResumedJobsReuse`, with every fault: while a job that resumes a run walks, what the log has as
  succeeded the journal has as well, or a loop around it is recorded as failed (`Restored`). The
  restore drops a step that succeeded only for such a loop, a walk never takes back a success
  (`SucceededStays`), and a log that is uploaded meanwhile is the journal's.
- `UndisturbedRunsReuse`: as long as no fault has happened, what ever succeeded is in the journal
  of the walk and, between walks, in the log, and no loop has failed (`Kept`).
  `FaultlessRunsReuse` is `SucceedsOnce` for a run that meets no faults: each of the three breaks
  it (see Deviations).
- `OneRouteRuns`, with every fault: a recorded child of an AI router that takes the best route
  hangs on a recorded answer that names its route (`RoutesOk`), a frame as well
  (`RoutedFrame`), and an answer is never replaced (`Keeps`) nor restored without what it
  was given to. The theorem rests on `DistinctRoutes`, which the settings of a router are
  checked for (action.ts:318), and on the flow being a tree (`IsFlow`).

- `FaultlessRunsAreInOrder`, `FaultlessRunsAwaitOneStep` and `FaultlessRunsReadOnce` are
  `CalledInOrder`, `AwaitsOneStep` and `PayloadIsReadOnce` for a run without faults; the first
  fault ends what they say of any other (`UndisturbedRunsAreInOrder`). All three need that a
  job that resumes a run finds its way back to the step that waits. The invariant `Ordered`
  says this without induction over the tree of steps, in three parts:
  - `Behind`: every step before a frame or around it is passed in the journal, in the iterations
    the frame is in (at the prefix of its path as long as `Depth` says). A condition that looks
    back therefore reads what no later step changes (`SeenStays`, `MatchingStays`).
  - `Clean`: what is recorded is passed, but for the step that waits; a step that is called has
    no record, or that of its own pause (`Fresh`).
  - `Trail`: a set of stacks that holds the head of the flow and the step that waits, and of
    every other stack in it the next one: what the walk makes of it over this journal, which is
    determined as long as it calls nothing (`Passes`, `After`). A pause leaves the trail that
    the next job will follow (`Waiting`); the walk of that job stays on it (`OnTrail`) and
    begins a call only at its end (`AtEnd`).

  `LogOrder` carries the invariant over the upload, the retry and the restore, and `ReadOrder`
  says that what has read the payload is the step that waited, while it is called. Two
  hypotheses are about the flow: `DistinctRoutes`, and `RoutersLookBack`, that a router tests
  steps before or around it, which are the steps the builder offers
  (data-selector/index.tsx:55). TLC evaluates both on the flows of the runs
  (`ProofHypotheses`). Neither they nor the absence of faults can be left out (see Deviations).

Only model-checked: everything that must eventually happen, as liveness under fairness is
outside the prover's reach. Every invariant and every other action property of a passing run
is stated by a theorem.

## Not modelled

Pieces, the web UI, the CLI, the enterprise request handlers and the deployment hold most of the
repository's lines and no state that two processes of the system share: a piece is a call of
an external service, a handler one transaction. Of the flow executor, the values of
outputs and the resolution of inputs are left out: they are expressions over data. Queue migration
moves the jobs of a worker group between queues and needs several queues in `JobDispatch`.
Triggers are enabled and disabled by calls of piece hooks over HTTP.

## Plan

1. `FlowRunResume`: retry of a finished run (stale `finishTime` and timings), a webhook's
   expiry against its signal, loss of the lock, a reporter that dies between merge and add.
2. `JobDispatch`: several app replicas, whose trackers do not know of each other, and the
   migration of a worker group's queue.
3. A parent and its children: `FlowRunResume` composed with `BarrierRelease`.
4. Proofs: with the faults, what remains of `CalledInOrder`, `AwaitsOneStep` and
   `PayloadIsReadOnce` after each of them; liveness when a prover for it is at hand. No module
   that is proved about declares a recursive operator.
