--------------------------- MODULE FanOutDispatch ---------------------------
(***************************************************************************)
(* The server-side fan-out of one batch step: a barrier with one signal    *)
(* per batch, and a queue job that claims the signals chunk by chunk,      *)
(* creates one child run per claim and enqueues it.  Two copies of the job *)
(* may run at once (a stalled job is redelivered while its first copy      *)
(* still runs), the barrier may be released or cancelled at any moment,    *)
(* and every enqueue may fail.                                             *)
(*                                                                         *)
(* A database transaction that locks what it reads is one action; every    *)
(* await between transactions, queue calls and Redis calls is a boundary   *)
(* at which other actors step.  Signals are numbered by their sequence     *)
(* from 1; the n-th child run created for signal s is the pair <<s, n>>,   *)
(* which stands for a fresh random id, and a null refId is 0.              *)
(*                                                                         *)
(* The evaluation of the barrier and its release are kept to what dispatch *)
(* can see of them.                                                        *)
(***************************************************************************)
EXTENDS Integers, FiniteSets

CONSTANTS
    NSignals,       \* batches of the step, one signal each
    ChunkSize,      \* CLAIM_CHUNK_SIZE
    MaxClaims,      \* bound: claims of one signal the model follows
    MaxAttempts,    \* attempts of a barrier-queue job
    Dispatchers,    \* processor slots that may run the dispatch job
    FaultKinds,     \* the faults that may happen, of AllFaults
    LoneFaults,     \* bound: those of them that no other joins
    FaultBudget     \* bound: how many of the others happen in all

\* "stall": a live dispatcher loses its job lock; "crash": its process dies;
\* "abort": the database aborts an enqueue transaction; "repeat": the engine
\* sends POST /v1/waitpoints again; "cancel": an operator cancels one child run;
\* "outage": a call on the way to an evaluation fails, or the give-up job does
AllFaults == {"stall", "crash", "abort", "repeat", "cancel", "outage"}

ASSUME FanOutAssumption ==
    /\ NSignals \in Nat \ {0}
    /\ ChunkSize \in Nat \ {0}
    /\ MaxClaims \in Nat \ {0}
    /\ MaxAttempts \in Nat \ {0}
    /\ LoneFaults \subseteq FaultKinds /\ FaultKinds \subseteq AllFaults
    /\ FaultBudget \in Nat

MaxStalledCount == 1    \* the BullMQ default the barrier worker runs on
START_OF_BARRIER == 0   \* before the first sequence

Signals  == 1..NSignals
Children == Signals \X (1..MaxClaims)

VARIABLES
    barrier,      \* the waitpoint row: "PENDING", "COMPLETED" or "GONE" (cancelled)
    signal,       \* the status column of each waitpoint_signal row
    refId,        \* its refId column: which child of the signal claimed it
    claims,       \* how many child ids have been drawn for the signal
    run,          \* the row and the queue job of each child run
    source,       \* whether barrier_source:<id> is stored
    job,          \* the job dispatch-<id>: "none", "waiting", "active" or "failed"
    holder,       \* the dispatcher that holds the lock of the active job, if any
    attempts,     \* failed attempts of the job
    stalls,       \* times the job was found stalled
    giveUpJob,    \* the job give-up-<id>, and how far its handler is
    evaluation,   \* whether an evaluate-barrier job is due
    creator,      \* how far the create request is
    releasing,    \* a release closed the barrier and has yet to delete the source
    cancelling,   \* a cancel deleted the barrier and has yet to cancel the children
    pc,           \* where each dispatcher is in handleFanOutDispatch
    cursor,       \* its afterSequence
    todo,         \* the claims of its chunk whose enqueue transaction is to come
    late,         \* the claims it released and has yet to look at the source for
    swept,        \* how many of those it swept for and has yet to ask an evaluation for
    verdict,      \* what its chunk came to so far: "ok", "closed" or "failed"
    reporting,    \* how many recorded outcomes have yet to ask for an evaluation
    deserted,     \* (history) a step that owed an evaluation ended with no retry to come
    faults        \* what is left of the fault budget

rows     == <<signal, refId, claims, run>>
jobVars  == <<job, holder, attempts, stalls>>
local    == <<pc, cursor, todo, late, swept, verdict>>
requests == <<creator, releasing, cancelling>>
reports  == <<reporting, deserted>>
vars     == <<barrier, signal, refId, claims, run, source, job, holder, attempts, stalls,
              giveUpJob, evaluation, creator, releasing, cancelling,
              pc, cursor, todo, late, swept, verdict, reporting, deserted, faults>>

SignalStatus == {"PENDING", "NOT_DISPATCHED", "REPORTED", "DELETED"}

\* "created": a QUEUED row without a job; "queued": its job waits for a worker.
\* Of a run that was cancelled: "canceled" has no job, "stopped" no longer has one (or is
\* paused for good), "lingering" has a job that still waits, "revived" one that runs
RunState == {"none", "created", "queued", "running", "finished", "deleted",
             "canceled", "stopped", "lingering", "revived"}

DispatchPC == {"idle", "check", "source", "probe", "claim", "enqueue", "settle",
               "evaluate", "return", "throw", "gaveUp"}

TypeOK ==
    /\ barrier \in {"PENDING", "COMPLETED", "GONE"}
    /\ signal \in [Signals -> SignalStatus]
    /\ refId \in [Signals -> 0..MaxClaims]
    /\ claims \in [Signals -> 0..MaxClaims]
    /\ run \in [Children -> RunState]
    /\ source \in BOOLEAN
    /\ job \in {"none", "waiting", "active", "failed"}
    /\ holder \in SUBSET Dispatchers
    /\ attempts \in Nat
    /\ stalls \in Nat
    /\ giveUpJob \in {"none", "waiting", "settle", "evaluate", "failed"}
    /\ evaluation \in BOOLEAN
    /\ creator \in {"put", "add", "evaluate", "putAgain", "addAgain", "done"}
    /\ releasing \in BOOLEAN
    /\ cancelling \in BOOLEAN
    /\ pc \in [Dispatchers -> DispatchPC]
    /\ cursor \in [Dispatchers -> 0..NSignals]
    /\ todo \in [Dispatchers -> SUBSET Children]
    /\ late \in [Dispatchers -> SUBSET Children]
    /\ swept \in [Dispatchers -> Nat]
    /\ verdict \in [Dispatchers -> {"ok", "closed", "failed"}]
    /\ reporting \in Nat
    /\ deserted \in BOOLEAN
    /\ faults \in 0..FaultBudget

(***************************************************************************)
(* The barrier row and its signals.                                        *)
(***************************************************************************)
Unclaimed(s) == signal[s] = "PENDING" /\ refId[s] = 0

\* A child whose job waits or runs, and one whose job was ever added
Live(c) == run[c] \in {"queued", "running"}
Enqueued(c) == Live(c) \/ run[c] \in {"finished", "stopped", "lingering", "revived"}

\* (slip) the sweep forgets refId IS NULL
SweepEveryPending ==
    signal' = [s \in Signals |-> IF signal[s] = "PENDING" THEN "NOT_DISPATCHED" ELSE signal[s]]

\* markUnclaimedNotDispatched
SweepUnclaimed ==
    signal' = [s \in Signals |-> IF Unclaimed(s) THEN "NOT_DISPATCHED" ELSE signal[s]]

DeleteSignals == signal' = [s \in Signals |-> "DELETED"]

\* (slip) the claim forgets refId IS NULL
ChunkOfPending(after) ==
    LET open == {s \in Signals : signal[s] = "PENDING" /\ s > after}
    IN  {s \in open : Cardinality({t \in open : t <= s}) <= ChunkSize}

\* cancelSingleRun of a child, by the state of its run.  Only a row that reads QUEUED or
\* PAUSED is cancelled, and the row of a run that just began still reads QUEUED.  Jobs
\* are looked for among the waiting and delayed ones: a job with a priority, which every
\* flow run has, is in neither unless the rate limiter or a retry delays it.
AfterCancel(state) ==
    IF state = "created" THEN {"canceled"}
    ELSE IF state = "queued" THEN {"stopped", "lingering"}
    ELSE {"stopped", "revived", "running"}

\* The candidates of one claim: the first ChunkSize unclaimed signals past after
Chunk(after) ==
    LET open == {s \in Signals : Unclaimed(s) /\ s > after}
    IN  {s \in open : Cardinality({t \in open : t <= s}) <= ChunkSize}

(***************************************************************************)
(* The create request.  The row and its signals are committed; the source, *)
(* the dispatch job and the first evaluation follow, one call each.  The   *)
(* engine repeats the request on a 5xx: a PENDING barrier is reused, its   *)
(* source is stored and its job added again, and no evaluation is queued.  *)
(***************************************************************************)
Init ==
    /\ barrier = "PENDING"
    /\ signal = [s \in Signals |-> "PENDING"]
    /\ refId = [s \in Signals |-> 0]
    /\ claims = [s \in Signals |-> 0]
    /\ run = [c \in Children |-> "none"]
    /\ source = FALSE
    /\ job = "none"
    /\ holder = {}
    /\ attempts = 0
    /\ stalls = 0
    /\ giveUpJob = "none"
    /\ evaluation = FALSE
    /\ creator = "put"
    /\ releasing = FALSE
    /\ cancelling = FALSE
    /\ pc = [d \in Dispatchers |-> "idle"]
    /\ cursor = [d \in Dispatchers |-> START_OF_BARRIER]
    /\ todo = [d \in Dispatchers |-> {}]
    /\ late = [d \in Dispatchers |-> {}]
    /\ swept = [d \in Dispatchers |-> 0]
    /\ verdict = [d \in Dispatchers |-> "ok"]
    /\ reporting = 0
    /\ deserted = FALSE
    /\ faults = FaultBudget

SpendFault(kind) ==
    /\ kind \in FaultKinds
    /\ faults > 0
    /\ \/ kind \notin LoneFaults /\ faults' = faults - 1
       \/ kind \in LoneFaults /\ faults = FaultBudget /\ faults' = 0

PutSource ==
    /\ creator \in {"put", "putAgain"}
    /\ source' = TRUE
    /\ creator' = IF creator = "put" THEN "add" ELSE "addAgain"
    /\ UNCHANGED <<barrier, rows, jobVars, giveUpJob, evaluation, releasing,
                   cancelling, local, reports, faults>>

\* The job id is dispatch-<barrierId>: while a job of that id is kept, adding is a no-op
AddFanOutDispatch ==
    /\ creator \in {"add", "addAgain"}
    /\ job' = IF job = "none" THEN "waiting" ELSE job
    /\ creator' = IF creator = "add" THEN "evaluate" ELSE "done"
    /\ UNCHANGED <<barrier, rows, source, holder, attempts, stalls, giveUpJob, evaluation,
                   releasing, cancelling, local, reports, faults>>

CreateEnqueuesEvaluation ==
    /\ creator = "evaluate"
    /\ evaluation' = TRUE
    /\ creator' = "done"
    /\ UNCHANGED <<barrier, rows, source, jobVars, giveUpJob, releasing,
                   cancelling, local, reports, faults>>

\* A call of the request fails: what it had yet to do is left to a repeated request
CreateFails ==
    /\ creator # "done"
    /\ SpendFault("outage")
    /\ creator' = "done"
    /\ UNCHANGED <<barrier, rows, source, jobVars, giveUpJob, evaluation, releasing,
                   cancelling, local, reports>>

RepeatCreate ==
    /\ SpendFault("repeat")
    /\ barrier = "PENDING"
    /\ creator' = "putAgain"
    /\ UNCHANGED <<barrier, rows, source, jobVars, giveUpJob, evaluation,
                   releasing, cancelling, local, reports>>

(***************************************************************************)
(* The dispatch job.  Goto moves dispatcher d; the lock of the job is held *)
(* by at most one dispatcher, and only the holder can complete or fail it. *)
(***************************************************************************)
Goto(d, label) ==
    /\ pc' = [pc EXCEPT ![d] = label]
    /\ UNCHANGED <<cursor, todo, late, swept, verdict>>

\* The handler is over for d, whatever it held is forgotten
Leave(d, label) ==
    /\ pc' = [pc EXCEPT ![d] = label]
    /\ cursor' = [cursor EXCEPT ![d] = START_OF_BARRIER]
    /\ todo' = [todo EXCEPT ![d] = {}]
    /\ late' = [late EXCEPT ![d] = {}]
    /\ swept' = [swept EXCEPT ![d] = 0]
    /\ verdict' = [verdict EXCEPT ![d] = "ok"]

\* The job goes back to waiting, its lock given up
Requeue == job' = "waiting" /\ holder' = {}

TakeDispatch(d) ==
    /\ pc[d] = "idle"
    /\ job = "waiting"
    /\ IF stalls > MaxStalledCount
       THEN \* the deferred failure: an UnrecoverableError without running the handler
            /\ job' = "failed"
            /\ UNCHANGED holder
            /\ Goto(d, "gaveUp")
       ELSE /\ job' = "active"
            /\ holder' = {d}
            /\ Goto(d, "check")
    /\ UNCHANGED <<barrier, rows, attempts, stalls, source, giveUpJob, evaluation, requests,
                   reports, faults>>

CheckBarrier(d) ==
    /\ pc[d] = "check"
    /\ Goto(d, IF barrier = "PENDING" THEN "source" ELSE "return")
    /\ UNCHANGED <<barrier, rows, source, jobVars, giveUpJob, evaluation, requests, reports,
                   faults>>

LoadSource(d) ==
    /\ pc[d] = "source"
    /\ Goto(d, IF source THEN "probe" ELSE "settle")
    /\ UNCHANGED <<barrier, rows, source, jobVars, giveUpJob, evaluation, requests, reports,
                   faults>>

\* hasUnclaimedSignals, then prepareChildDispatch, which throws when the parent run or
\* its entry step is gone
ProbeUnclaimed(d) ==
    /\ pc[d] = "probe"
    /\ IF \E s \in Signals : Unclaimed(s)
       THEN \/ Goto(d, "claim")
            \/ Goto(d, "throw")
       ELSE Goto(d, "evaluate")
    /\ UNCHANGED <<barrier, rows, source, jobVars, giveUpJob, evaluation, requests, reports,
                   faults>>

\* shouldBlockRunOnCredits, asked once per chunk
CreditsExhausted(d) ==
    /\ pc[d] = "claim"
    /\ Goto(d, "settle")
    /\ UNCHANGED <<barrier, rows, source, jobVars, giveUpJob, evaluation, requests, reports,
                   faults>>

\* The chunk transaction: the open barrier FOR SHARE, claimNextSignals, createChildRuns.
\* A bound keeps a signal from being claimed more than MaxClaims times.
ClaimChunk(d) ==
    /\ pc[d] = "claim"
    /\ barrier = "PENDING"
    /\ \E last \in Signals :
         LET chunk == Chunk(cursor[d])
             child(s) == <<s, claims[s] + 1>>
         IN /\ last \in chunk
            /\ \A s \in chunk : s <= last
            /\ \A s \in chunk : claims[s] < MaxClaims
            /\ refId' = [s \in Signals |-> IF s \in chunk THEN claims[s] + 1 ELSE refId[s]]
            /\ claims' = [s \in Signals |-> IF s \in chunk THEN claims[s] + 1 ELSE claims[s]]
            /\ run' = [c \in Children |-> IF c[1] \in chunk /\ c = child(c[1])
                                          THEN "created" ELSE run[c]]
            /\ todo' = [todo EXCEPT ![d] = {child(s) : s \in chunk}]
            /\ cursor' = [cursor EXCEPT ![d] = last]
            /\ pc' = [pc EXCEPT ![d] = "enqueue"]
            /\ UNCHANGED <<late, swept, verdict>>
    /\ UNCHANGED <<barrier, signal, source, jobVars, giveUpJob, evaluation, requests, reports,
                   faults>>

\* An empty chunk: scan once more from the start, or stop when this scan began there
ClaimNothing(d) ==
    /\ pc[d] = "claim"
    /\ barrier = "PENDING"
    /\ Chunk(cursor[d]) = {}
    /\ IF cursor[d] = START_OF_BARRIER
       THEN Goto(d, "evaluate")
       ELSE /\ cursor' = [cursor EXCEPT ![d] = START_OF_BARRIER]
            /\ UNCHANGED <<pc, todo, late, swept, verdict>>
    /\ UNCHANGED <<barrier, rows, source, jobVars, giveUpJob, evaluation, requests, reports,
                   faults>>

ClaimClosed(d) ==
    /\ pc[d] = "claim"
    /\ barrier # "PENDING"
    /\ Goto(d, "return")
    /\ UNCHANGED <<barrier, rows, source, jobVars, giveUpJob, evaluation, requests, reports,
                   faults>>

(***************************************************************************)
(* enqueueChild, for one claim c = <<s, n>> of the chunk.  Its transaction *)
(* holds the open barrier FOR SHARE while the job is added to the queue.   *)
(***************************************************************************)
Handled(d, c) == todo' = [todo EXCEPT ![d] = @ \ {c}]

\* (slip) the job is added without the open barrier locked
EnqueueUnlocked(d, c) ==
    /\ pc[d] = "enqueue"
    /\ c \in todo[d]
    /\ run' = [run EXCEPT ![c] = "queued"]
    /\ Handled(d, c)
    /\ UNCHANGED <<barrier, signal, refId, claims, source, jobVars, giveUpJob, evaluation,
                   requests, pc, cursor, late, swept, verdict, reports, faults>>

\* The row of the child is not looked at: one cancelled since its claim gets its job too
EnqueueChild(d, c) ==
    /\ pc[d] = "enqueue"
    /\ c \in todo[d]
    /\ barrier = "PENDING"
    /\ run' = [run EXCEPT ![c] = IF @ = "created" THEN "queued" ELSE "lingering"]
    /\ Handled(d, c)
    /\ UNCHANGED <<barrier, signal, refId, claims, source, jobVars, giveUpJob, evaluation,
                   requests, pc, cursor, late, swept, verdict, reports, faults>>

\* (slip) the claim is released although the queue kept the job
ReleaseOfQueued(d, c) ==
    /\ pc[d] = "enqueue"
    /\ c \in todo[d]
    /\ barrier = "PENDING"
    /\ run' = [run EXCEPT ![c] = "queued"]
    /\ refId' = [refId EXCEPT ![c[1]] = IF @ = c[2] THEN 0 ELSE @]
    /\ Handled(d, c)
    /\ late' = [late EXCEPT ![d] = @ \cup {c}]
    /\ verdict' = [verdict EXCEPT ![d] = "failed"]
    /\ UNCHANGED <<barrier, signal, claims, source, jobVars, giveUpJob, evaluation,
                   requests, pc, cursor, swept, reports, faults>>

\* (slip) the child is deleted and its claim kept
DeleteWithoutRelease(d, c) ==
    /\ pc[d] = "enqueue"
    /\ c \in todo[d]
    /\ barrier = "PENDING"
    /\ run' = [run EXCEPT ![c] = "deleted"]
    /\ Handled(d, c)
    /\ late' = [late EXCEPT ![d] = @ \cup {c}]
    /\ verdict' = [verdict EXCEPT ![d] = "failed"]
    /\ UNCHANGED <<barrier, signal, refId, claims, source, jobVars, giveUpJob, evaluation,
                   requests, pc, cursor, swept, reports, faults>>

\* The queue refused the job: deleteChildRun and releaseClaim, in the same transaction
EnqueueFails(d, c) ==
    /\ pc[d] = "enqueue"
    /\ c \in todo[d]
    /\ barrier = "PENDING"
    /\ claims[c[1]] < MaxClaims
    /\ run' = [run EXCEPT ![c] = "deleted"]
    /\ refId' = [refId EXCEPT ![c[1]] = IF @ = c[2] THEN 0 ELSE @]
    /\ Handled(d, c)
    /\ late' = [late EXCEPT ![d] = @ \cup {c}]
    /\ verdict' = [verdict EXCEPT ![d] = "failed"]
    /\ UNCHANGED <<barrier, signal, claims, source, jobVars, giveUpJob, evaluation,
                   requests, pc, cursor, swept, reports, faults>>

\* The transaction itself aborts (the lock query, the delete or the release throws):
\* nothing of it is kept, and nothing was added to the queue
EnqueueTxAborts(d, c) ==
    /\ pc[d] = "enqueue"
    /\ c \in todo[d]
    /\ SpendFault("abort")
    /\ Handled(d, c)
    /\ verdict' = [verdict EXCEPT ![d] = "failed"]
    /\ UNCHANGED <<barrier, rows, source, jobVars, giveUpJob, evaluation, requests,
                   pc, cursor, late, swept, reports>>

\* (slip) the closed barrier ends the job and the claimed child is forgotten
ForgetUnstartedChild(d, c) ==
    /\ pc[d] = "enqueue"
    /\ c \in todo[d]
    /\ barrier # "PENDING"
    /\ Handled(d, c)
    /\ verdict' = [verdict EXCEPT ![d] = IF @ = "ok" THEN "closed" ELSE @]
    /\ UNCHANGED <<barrier, rows, source, jobVars, giveUpJob, evaluation,
                   requests, pc, cursor, late, swept, reports, faults>>

\* The barrier closed after the claim: cancelUnstartedChildRun
CancelUnstartedChild(d, c) ==
    /\ pc[d] = "enqueue"
    /\ c \in todo[d]
    /\ barrier # "PENDING"
    /\ run' = [run EXCEPT ![c] = IF @ = "created" THEN "canceled" ELSE @]
    /\ Handled(d, c)
    /\ verdict' = [verdict EXCEPT ![d] = IF @ = "ok" THEN "closed" ELSE @]
    /\ UNCHANGED <<barrier, signal, refId, claims, source, jobVars, giveUpJob, evaluation,
                   requests, pc, cursor, late, swept, reports, faults>>

\* settleIfDispatchGaveUp: the source key is gone once a give-up began
SettleIfGaveUp(d, c) ==
    /\ pc[d] = "enqueue"
    /\ c \in late[d]
    /\ late' = [late EXCEPT ![d] = @ \ {c}]
    /\ IF source THEN UNCHANGED <<signal, swept>>
       ELSE SweepUnclaimed /\ swept' = [swept EXCEPT ![d] = @ + 1]
    /\ UNCHANGED <<barrier, refId, claims, run, source, jobVars, giveUpJob, evaluation,
                   requests, pc, cursor, todo, verdict, reports, faults>>

\* ... and once it swept, settleUnclaimedSignals asks for an evaluation
EvaluateLate(d) ==
    /\ pc[d] = "enqueue"
    /\ swept[d] > 0
    /\ swept' = [swept EXCEPT ![d] = @ - 1]
    /\ evaluation' = TRUE
    /\ UNCHANGED <<barrier, rows, source, jobVars, giveUpJob, requests, pc, cursor, todo,
                   late, verdict, reports, faults>>

\* A call of either fails: the claim's promise rejects with that error, which was to
\* reject anyway; only the holder's failure has the job run again
LateSettleFails(d) ==
    /\ pc[d] = "enqueue"
    /\ SpendFault("outage")
    /\ \/ /\ \E c \in late[d] : late' = [late EXCEPT ![d] = @ \ {c}]
          /\ UNCHANGED <<swept, deserted>>
       \/ /\ swept[d] > 0
          /\ swept' = [swept EXCEPT ![d] = @ - 1]
          /\ deserted' = (deserted \/ d \notin holder)
          /\ UNCHANGED late
    /\ UNCHANGED <<barrier, rows, source, jobVars, giveUpJob, evaluation, requests,
                   pc, cursor, todo, verdict, reporting>>

\* Promise.allSettled returned: a rejection is thrown, a closed barrier ends the job
FinishChunk(d) ==
    /\ pc[d] = "enqueue"
    /\ todo[d] = {}
    /\ late[d] = {}
    /\ swept[d] = 0
    /\ Goto(d, CASE verdict[d] = "failed" -> "throw"
               [] verdict[d] = "closed" -> "return"
               [] verdict[d] = "ok"     -> "claim")
    /\ UNCHANGED <<barrier, rows, source, jobVars, giveUpJob, evaluation, requests, reports,
                   faults>>

\* (slip) the sweep is committed and nothing asks for an evaluation
SettleWithoutEvaluation(d) ==
    /\ pc[d] = "settle"
    /\ SweepUnclaimed
    /\ Goto(d, "return")
    /\ UNCHANGED <<barrier, refId, claims, run, source, jobVars, giveUpJob, evaluation,
                   requests, reports, faults>>

\* settleUnclaimedSignals: the source is gone or the credits are exhausted.  The sweep is
\* committed before the evaluation is asked for.
SettleUnclaimedSignals(d) ==
    /\ pc[d] = "settle"
    /\ SweepUnclaimed
    /\ Goto(d, "evaluate")
    /\ UNCHANGED <<barrier, refId, claims, run, source, jobVars, giveUpJob, evaluation,
                   requests, reports, faults>>

EvaluateAndReturn(d) ==
    /\ pc[d] = "evaluate"
    /\ evaluation' = TRUE
    /\ Goto(d, "return")
    /\ UNCHANGED <<barrier, rows, source, jobVars, giveUpJob, requests, reports, faults>>

\* The sweep or the evaluation throws, and the handler with it
SettleFails(d) ==
    /\ pc[d] \in {"settle", "evaluate"}
    /\ SpendFault("outage")
    /\ Goto(d, "throw")
    /\ deserted' = (deserted \/ (pc[d] = "evaluate" /\ d \notin holder))
    /\ UNCHANGED <<barrier, rows, source, jobVars, giveUpJob, evaluation, requests, reporting>>

\* removeOnComplete: only the holder of the job's lock can complete it
CompleteJob(d) ==
    /\ pc[d] = "return"
    /\ IF d \in holder
       THEN job' = "none" /\ holder' = {} /\ attempts' = 0 /\ stalls' = 0
       ELSE UNCHANGED jobVars
    /\ Leave(d, "idle")
    /\ UNCHANGED <<barrier, rows, source, giveUpJob, evaluation, requests, reports,
                   faults>>

\* The holder's failure is retried, or fails the job for good on the last attempt
FailJob(d) ==
    /\ pc[d] = "throw"
    /\ IF d \notin holder
       THEN UNCHANGED jobVars /\ Leave(d, "idle")
       ELSE /\ attempts' = attempts + 1
            /\ UNCHANGED stalls
            /\ IF attempts + 1 < MaxAttempts
               THEN Requeue /\ Leave(d, "idle")
               ELSE job' = "failed" /\ holder' = {} /\ Leave(d, "gaveUp")
    /\ UNCHANGED <<barrier, rows, source, giveUpJob, evaluation, requests, reports,
                   faults>>

\* The worker's 'failed' handler
AddGiveUp(d) ==
    /\ pc[d] = "gaveUp"
    /\ giveUpJob' = IF giveUpJob = "none" THEN "waiting" ELSE giveUpJob
    /\ Leave(d, "idle")
    /\ UNCHANGED <<barrier, rows, source, jobVars, evaluation, requests, reports,
                   faults>>

\* ... throws in adding the job, and is not run again
AddGiveUpFails(d) ==
    /\ pc[d] = "gaveUp"
    /\ SpendFault("outage")
    /\ Leave(d, "idle")
    /\ deserted' = TRUE
    /\ UNCHANGED <<barrier, rows, source, jobVars, giveUpJob, evaluation, requests, reporting>>

\* handleFanOutDispatchGaveUp: the key goes first, then the sweep, then the evaluation
GiveUpDeletesSource ==
    /\ giveUpJob = "waiting"
    /\ source' = FALSE
    /\ giveUpJob' = "settle"
    /\ UNCHANGED <<barrier, rows, jobVars, evaluation, requests, local, reports, faults>>

\* (slip) the give-up asks for an evaluation and sweeps nothing
GiveUpWithoutSweep ==
    /\ giveUpJob = "settle"
    /\ giveUpJob' = "evaluate"
    /\ UNCHANGED <<barrier, rows, source, jobVars, evaluation, requests, local, reports, faults>>

GiveUpSettles ==
    /\ giveUpJob = "settle"
    /\ SweepUnclaimed
    /\ giveUpJob' = "evaluate"
    /\ UNCHANGED <<barrier, refId, claims, run, source, jobVars, evaluation, requests, local,
                   reports, faults>>

GiveUpEvaluates ==
    /\ giveUpJob = "evaluate"
    /\ evaluation' = TRUE
    /\ giveUpJob' = "none"
    /\ UNCHANGED <<barrier, rows, source, jobVars, requests, local, reports, faults>>

\* A call of the give-up fails or its process dies: the job starts over, or has failed for
\* good, which keeps its id
GiveUpFails ==
    /\ giveUpJob \in {"waiting", "settle", "evaluate"}
    /\ \E kind \in {"outage", "crash"} : SpendFault(kind)
    /\ giveUpJob' \in {"waiting", "failed"}
    /\ deserted' = (deserted \/ giveUpJob' = "failed")
    /\ UNCHANGED <<barrier, rows, source, jobVars, evaluation, requests, local, reporting>>

(***************************************************************************)
(* What the queue, the process and the clock may do to a dispatcher.       *)
(***************************************************************************)
\* The job lock expires while d still runs; the job goes back to waiting
Stall(d) ==
    /\ d \in holder
    /\ SpendFault("stall")
    /\ Requeue
    /\ stalls' = stalls + 1
    /\ UNCHANGED <<barrier, rows, attempts, source, giveUpJob, evaluation, requests, local,
                   reports>>

\* The process dies; if it held the job, the stalled check puts it back
Crash(d) ==
    /\ pc[d] # "idle"
    /\ SpendFault("crash")
    /\ Leave(d, "idle")
    /\ IF d \in holder
       THEN Requeue /\ stalls' = stalls + 1 /\ UNCHANGED attempts
       ELSE UNCHANGED jobVars
    /\ deserted' = (deserted \/ (/\ d \notin holder
                                 /\ pc[d] \in {"evaluate", "gaveUp"} \/ swept[d] > 0))
    /\ UNCHANGED <<barrier, rows, source, giveUpJob, evaluation, requests, reporting>>

\* SOURCE_TTL_SECONDS passed
SourceExpires ==
    /\ source
    /\ source' = FALSE
    /\ UNCHANGED <<barrier, rows, jobVars, giveUpJob, evaluation, requests, local, reports, faults>>

(***************************************************************************)
(* The child runs and the life of the barrier, as far as dispatch sees it. *)
(***************************************************************************)
ChildStarts(c) ==
    /\ run[c] \in {"queued", "lingering"}
    /\ run' = [run EXCEPT ![c] = IF @ = "queued" THEN "running" ELSE "revived"]
    /\ UNCHANGED <<barrier, signal, refId, claims, source, jobVars, giveUpJob,
                   evaluation, requests, local, reports, faults>>

\* (slip) the outcome is recorded and nothing asks for an evaluation
ReceiveWithoutEvaluation(c) ==
    /\ signal' = IF refId[c[1]] = c[2] /\ signal[c[1]] # "DELETED"
                 THEN [signal EXCEPT ![c[1]] = "REPORTED"] ELSE signal
    /\ UNCHANGED reporting

\* (slip) the run's status is stored where the signal's outcome belongs
ReceiveRunStatus(c) ==
    /\ signal' = [signal EXCEPT ![c[1]] = run'[c]]
    /\ reporting' = reporting + 1

\* receiveSignal: the row whose refId is the child takes its outcome, and an evaluation is
\* to follow; with no such row the outcome is dropped and nothing is evaluated
ReceiveSignal(c) ==
    IF refId[c[1]] = c[2] /\ signal[c[1]] # "DELETED"
    THEN signal' = [signal EXCEPT ![c[1]] = "REPORTED"] /\ reporting' = reporting + 1
    ELSE UNCHANGED <<signal, reporting>>

ChildReports(c) ==
    /\ run[c] \in {"running", "revived"}
    /\ run' = [run EXCEPT ![c] = "finished"]
    /\ ReceiveSignal(c)
    /\ UNCHANGED <<barrier, refId, claims, source, jobVars, giveUpJob, evaluation, requests,
                   local, deserted, faults>>

\* receiveSignal goes on: the evaluation is asked for after the outcome is committed
ReportEvaluates ==
    /\ reporting > 0
    /\ reporting' = reporting - 1
    /\ evaluation' = TRUE
    /\ UNCHANGED <<barrier, rows, source, jobVars, giveUpJob, requests, local, deserted, faults>>

\* ... fails, on every attempt of the runs-metadata job (a retry records the same again)
ReportFails ==
    /\ reporting > 0
    /\ SpendFault("outage")
    /\ reporting' = reporting - 1
    /\ deserted' = TRUE
    /\ UNCHANGED <<barrier, rows, source, jobVars, giveUpJob, evaluation, requests, local>>

\* An operator cancels one child by its id, which reports it CANCELED
CancelChild(c) ==
    /\ run[c] = "created" \/ Live(c)
    /\ SpendFault("cancel")
    /\ \E after \in AfterCancel(run[c]) \ {run[c]} : run' = [run EXCEPT ![c] = after]
    /\ ReceiveSignal(c)
    /\ UNCHANGED <<barrier, refId, claims, source, jobVars, giveUpJob, evaluation, requests,
                   local, deserted>>

\* An evaluation of a fan-out barrier (no policy): release once nothing is pending
Evaluate ==
    /\ evaluation
    /\ evaluation' = FALSE
    /\ IF barrier = "PENDING" /\ \A s \in Signals : signal[s] # "PENDING"
       THEN barrier' = "COMPLETED" /\ releasing' = TRUE /\ DeleteSignals
       ELSE UNCHANGED <<barrier, releasing, signal>>
    /\ UNCHANGED <<refId, claims, run, source, jobVars, giveUpJob, creator,
                   cancelling, local, reports, faults>>

\* The deadline releases the barrier with whatever is still pending
DeadlineRelease ==
    /\ barrier = "PENDING"
    /\ barrier' = "COMPLETED"
    /\ releasing' = TRUE
    /\ DeleteSignals
    /\ UNCHANGED <<refId, claims, run, source, jobVars, giveUpJob, evaluation,
                   creator, cancelling, local, reports, faults>>

ReleaseDeletesSource ==
    /\ releasing
    /\ releasing' = FALSE
    /\ source' = FALSE
    /\ UNCHANGED <<barrier, rows, jobVars, giveUpJob, evaluation, creator,
                   cancelling, local, reports, faults>>

\* Cancelling the parent deletes the waitpoint, its signals with it, and the source
CancelParent ==
    /\ barrier = "PENDING"
    /\ barrier' = "GONE"
    /\ cancelling' = TRUE
    /\ DeleteSignals
    /\ source' = FALSE
    /\ UNCHANGED <<refId, claims, run, jobVars, giveUpJob, evaluation, creator,
                   releasing, local, reports, faults>>

\* ... and then every child run whose row reads QUEUED or PAUSED
CancelChildren ==
    /\ cancelling
    /\ cancelling' = FALSE
    /\ \E after \in [{c \in Children : Live(c)} ->
                    AfterCancel("queued") \cup AfterCancel("running")] :
         /\ \A c \in Children : Live(c) => after[c] \in AfterCancel(run[c])
         /\ run' = [c \in Children |-> IF run[c] = "created" THEN "canceled"
                                       ELSE IF Live(c) THEN after[c] ELSE run[c]]
    /\ UNCHANGED <<barrier, signal, refId, claims, source, jobVars, giveUpJob,
                   evaluation, creator, releasing, local, reports, faults>>

(***************************************************************************)
(* The specification.                                                      *)
(***************************************************************************)
Creation == PutSource \/ AddFanOutDispatch \/ CreateEnqueuesEvaluation

DispatcherStep(d) ==
    \/ TakeDispatch(d) \/ CheckBarrier(d) \/ LoadSource(d) \/ ProbeUnclaimed(d)
    \/ CreditsExhausted(d) \/ ClaimChunk(d) \/ ClaimNothing(d) \/ ClaimClosed(d)
    \/ \E c \in Children :
         \/ EnqueueChild(d, c) \/ EnqueueFails(d, c) \/ CancelUnstartedChild(d, c)
         \/ SettleIfGaveUp(d, c)
    \/ EvaluateLate(d) \/ FinishChunk(d) \/ SettleUnclaimedSignals(d) \/ EvaluateAndReturn(d)
    \/ CompleteJob(d) \/ FailJob(d) \/ AddGiveUp(d)

GiveUpStep == GiveUpDeletesSource \/ GiveUpSettles \/ GiveUpEvaluates

ChildStep == \E c \in Children : ChildStarts(c) \/ ChildReports(c) \/ CancelChild(c)

Outage ==
    \/ CreateFails \/ GiveUpFails \/ ReportFails
    \/ \E d \in Dispatchers : LateSettleFails(d) \/ SettleFails(d) \/ AddGiveUpFails(d)

Fault ==
    \/ RepeatCreate \/ SourceExpires \/ Outage
    \/ \E d \in Dispatchers : Stall(d) \/ Crash(d) \/ \E c \in Children : EnqueueTxAborts(d, c)

BarrierStep ==
    \/ ReportEvaluates \/ Evaluate \/ DeadlineRelease \/ ReleaseDeletesSource
    \/ CancelParent \/ CancelChildren

Next ==
    \/ Creation
    \/ \E d \in Dispatchers : DispatcherStep(d)
    \/ GiveUpStep
    \/ ChildStep
    \/ BarrierStep
    \/ Fault

Spec == Init /\ [][Next]_vars

(***************************************************************************)
(* Safety.                                                                 *)
(***************************************************************************)
\* Nothing is left that could still dispatch, settle or give up
DispatchOver ==
    /\ creator = "done"
    /\ job \in {"none", "failed"}
    /\ giveUpJob \in {"none", "failed"}
    /\ \A d \in Dispatchers : pc[d] = "idle"

\* However many dispatchers, redeliveries and retries there are, a batch is handed to
\* at most one child run (the claim of claimNextSignals, guarded by refId IS NULL).
OneChildPerSignal ==
    \A s \in Signals : \A m, n \in 1..MaxClaims :
        Enqueued(<<s, m>>) /\ Enqueued(<<s, n>>) => m = n

\* While the barrier waits, a child that runs or will run is the one its signal names,
\* and its signal is still pending: no sweep and no released claim takes the row away
\* from a live child, whose outcome would then report into nothing.
LiveChildIsAwaited ==
    barrier = "PENDING" =>
        \A c \in Children : Live(c) => signal[c[1]] = "PENDING" /\ refId[c[1]] = c[2]

\* A cancel of the parent reaches every child that has not started: once it went through
\* the children none is left that it did not cancel, and none is enqueued afterwards,
\* although a dispatcher may still be in the middle of a chunk.
CancelReachesEveryChild ==
    barrier = "GONE" /\ ~cancelling =>
        \A c \in Children : run[c] \notin {"created", "queued"}

\* When dispatch is over, each signal of a waiting barrier is claimed or settled: a claim
\* released after a failed enqueue is claimed again by a later attempt, or settled by the
\* give-up or by the dispatcher that released it.
NoSignalLeftUnclaimed ==
    barrier = "PENDING" /\ DispatchOver => \A s \in Signals : ~Unclaimed(s)

\* ... and each claimed signal that is still pending has a child that will report.
NoClaimWithoutChild ==
    barrier = "PENDING" /\ DispatchOver =>
        \A s \in Signals : signal[s] = "PENDING" /\ refId[s] # 0 => Live(<<s, refId[s]>>)

\* Once every signal of a waiting barrier is settled and nobody is left in the middle of a
\* settlement, an evaluation is due.  A sweep or an outcome is committed before the
\* evaluation is asked for, and what stops in between is run again: the job by the queue,
\* the report by the runs-metadata queue.  Exempt is what nothing runs again (deserted):
\* a dispatcher that has lost the job, a 'failed' handler that dies or throws, a give-up
\* job or a report that failed on its last attempt.
LastSettlementIsEvaluated ==
    barrier = "PENDING" /\ DispatchOver /\ reporting = 0 /\ ~deserted =>
        evaluation \/ \E s \in Signals : signal[s] = "PENDING"

\* A child whose barrier was released between its claim and its enqueue is cancelled,
\* never left as a QUEUED run that no job will ever start.
UnstartedChildIsCanceled ==
    barrier = "COMPLETED" /\ DispatchOver => \A c \in Children : run[c] # "created"

(***************************************************************************)
(* Liveness.  The queue redelivers, its workers keep working and children  *)
(* end; faults, the deadline and a cancel are never owed.                  *)
(***************************************************************************)
Fairness ==
    /\ WF_vars(Creation)
    /\ \A d \in Dispatchers : WF_vars(DispatcherStep(d))
    /\ WF_vars(GiveUpStep)
    /\ WF_vars(Evaluate)
    /\ \A c \in Children : WF_vars(ChildStarts(c) \/ ChildReports(c))
    /\ WF_vars(ReportEvaluates)

FairSpec == Spec /\ Fairness

\* A fan-out barrier is closed in the end, and not only by its deadline.
BarrierEventuallyCloses == <>(barrier # "PENDING")

(***************************************************************************)
(* What dispatch promises the batch step, batch by batch.                  *)
(***************************************************************************)
OutcomeOf(s) ==
    IF barrier # "PENDING" THEN "over"
    ELSE IF signal[s] = "NOT_DISPATCHED" THEN "skipped"
    ELSE IF signal[s] = "REPORTED"
    THEN IF \E n \in 1..MaxClaims : Enqueued(<<s, n>>) THEN "reported" ELSE "called off"
    ELSE IF \E n \in 1..MaxClaims : Live(<<s, n>>) THEN "running" ELSE "waiting"

Outcome == [s \in Signals |-> OutcomeOf(s)]
Started == {s \in Signals : \E n \in 1..MaxClaims : Enqueued(<<s, n>>)}

Promise == INSTANCE FanOutPromise WITH
    Batches <- Signals, open <- barrier = "PENDING", outcome <- Outcome, started <- Started

\* Dispatch, with its claims, redeliveries, retries, give-up and faults, only ever does
\* what module FanOutPromise allows: start a waiting batch once and while the barrier is
\* open, report a running one, give up waiting ones, or close the barrier; only a batch
\* whose child an operator cancelled by its id may start afterwards.
KeepsPromise == Promise!Spec

=============================================================================
