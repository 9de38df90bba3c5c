----------------------------- MODULE JobDispatch -----------------------------
(***************************************************************************)
(* How one app process hands the jobs of one BullMQ queue to workers.      *)
(*                                                                         *)
(* A worker polls over its socket; its poll waits in the dispatcher, whose *)
(* one loop takes a job off the queue under a fresh token, lets the        *)
(* interceptors look at it and gives it to the first waiter still          *)
(* connected.  BullMQ keeps the job active and locked by that token until  *)
(* somebody who names the token moves it on, or the lock lapses and the    *)
(* stalled scan puts the job back.  Besides the lock the app keeps, under  *)
(* the job's id and without the token: the slot of the project's           *)
(* concurrency pool (flow jobs), the exclusivity lock of the flow version  *)
(* (polling jobs) and the assignment of the job to a connection.           *)
(*                                                                         *)
(* A report (completeJob) and the return of a job are handlers that call   *)
(* Redis several times; each is a task with a step.  One pool, one polled  *)
(* flow version, workers of concurrency 1.  What a job does, priorities,   *)
(* schema migration and the caller waiting for an answer are left out.     *)
(***************************************************************************)
EXTENDS Integers, Sequences, SequencesExt, FiniteSets, FiniteSetsExt

CONSTANTS
    FlowJobs,         \* EXECUTE_FLOW jobs of one concurrency pool
    PollJobs,         \* EXECUTE_POLLING jobs of one flow version
    Loads,            \* the sets of jobs that may be on the queue at the start
    Workers,
    MaxConnections,   \* bound: the connections ever made
    NTokens,          \* bound: tokens in use at one time for one job
    Limit,            \* the pool's limit of concurrent jobs
    Attempts,         \* defaultJobOptions.attempts
    MaxStalledCount,
    FaultSets         \* bound: the kinds of faults that may come together in one behaviour

\* "drop": connections break; and each of these once: "lapse": extendLock fails until a
\* running job's lock is gone; "redis": the move of a reported job throws; "cleanup": an
\* onJobFinished throws, or cannot tell the project's pool and releases the slot of another;
\* "dequeue": a call throws between getNextJob and the hand-over; "failure": an execution
\* fails; "timeout": a poll waits for 50 s; "slow": a handler pauses for longer than a returned
\* job is delayed or the polling lock lives; "disable": the polled trigger is disabled;
\* "crash": the app process dies and is started again.
AllFaults == {"drop", "lapse", "redis", "cleanup", "dequeue", "failure", "timeout", "slow",
              "disable", "crash"}

Jobs        == FlowJobs \cup PollJobs
Tokens      == 1..NTokens
NoToken     == 0
Connections == Workers \X (1..MaxConnections)

ASSUME JobDispatchAssumption ==
    /\ FlowJobs \cap PollJobs = {}
    /\ Loads \subseteq SUBSET Jobs
    /\ MaxConnections \in Nat \ {0}
    /\ NTokens \in Nat \ {0}
    /\ Limit \in Nat \ {0}
    /\ Attempts \in Nat \ {0}
    /\ MaxStalledCount \in Nat
    /\ FaultSets \subseteq SUBSET AllFaults

VARIABLES
    queue,      \* the state BullMQ has a job in
    lock,       \* the token that holds the job, or NoToken
    failures,   \* attemptsMade
    stalls,     \* how often the stalled scan found the job
    slot,       \* the token that took the job's slot of the pool, or NoToken (no slot)
    parked,     \* the pool's parked jobs, oldest first
    leaked,     \* the jobs whose slot a release should have given back, and did not
    polling,    \* the holder of the flow version's polling lock: a delivery, or {}
    triggerLive,\* the flow version has a live trigger source
    loop,       \* the dispatcher's loop: where it is, and the delivery it holds
    waiters,    \* the connections whose poll waits, oldest first
    open,       \* the connections the app holds for open
    assigned,   \* assignmentByKey: the connection and token a job was handed out to, or {}
    keys,       \* keysByConnectionId
    tasks,      \* the reports and returns the app is working on
    conn,       \* the number of the connection a worker uses, or 0
    made,       \* how many connections were made
    work,       \* what a worker does on its connection, and the delivery it executes
    killed,     \* executions killed by a disconnect that have yet to report
    faults      \* the faults that have happened

queueVars  == <<queue, lock, failures, stalls>>
limitVars  == <<slot, parked, leaked, polling>>
appVars    == <<waiters, open, assigned, keys>>
workerVars == <<conn, made, work, killed>>
vars == <<queue, lock, failures, stalls, slot, parked, leaked, polling, triggerLive, loop,
          waiters, open, assigned, keys, tasks, conn, made, work, killed, faults>>

Delivery == [job : Jobs, token : Tokens]
OneOrNone(S) == {{}} \cup {{x} : x \in S}
Idle     == [at |-> "idle", held |-> {}]
Task     == [held : Delivery, kind : {"ok", "fail", "return"},
             step : {"move", "release", "delete", "promote"}]

TypeOK ==
    /\ queue \in [Jobs -> {"waiting", "active", "delayed", "completed", "failed"}]
    /\ lock \in [Jobs -> Tokens \cup {NoToken}]
    /\ failures \in [Jobs -> 0..Attempts]
    /\ stalls \in [Jobs -> 0..MaxStalledCount + 1]
    /\ slot \in [FlowJobs -> Tokens \cup {NoToken}]
    /\ parked \in Seq(FlowJobs) /\ IsInjective(parked)
    /\ leaked \subseteq FlowJobs
    /\ polling \in OneOrNone(Delivery)
    /\ triggerLive \in BOOLEAN
    /\ loop \in [at : {"idle", "check", "reject", "discard", "hand", "return"},
                 held : OneOrNone(Delivery)]
    /\ waiters \in Seq(Connections)
    /\ open \subseteq Connections
    /\ assigned \in [Jobs -> OneOrNone([conn : Connections, token : Tokens])]
    /\ keys \in [Connections -> SUBSET Jobs]
    /\ tasks \subseteq Task
    /\ conn \in [Workers -> 0..MaxConnections]
    /\ made \in 0..MaxConnections
    /\ work \in [Workers -> [at : {"idle", "polling", "running"}, held : OneOrNone(Delivery)]]
    /\ killed \subseteq Workers \X Delivery
    /\ faults \subseteq AllFaults

Init ==
    /\ \E load \in Loads :
           queue = [j \in Jobs |-> IF j \in load THEN "waiting" ELSE "completed"]
    /\ lock = [j \in Jobs |-> NoToken]
    /\ failures = [j \in Jobs |-> 0]
    /\ stalls = [j \in Jobs |-> 0]
    /\ slot = [j \in FlowJobs |-> NoToken]
    /\ parked = <<>>
    /\ leaked = {}
    /\ polling = {}
    /\ triggerLive = TRUE
    /\ loop = Idle
    /\ waiters = <<>>
    /\ open = {}
    /\ assigned = [j \in Jobs |-> {}]
    /\ keys = [c \in Connections |-> {}]
    /\ tasks = {}
    /\ conn = [w \in Workers |-> 0]
    /\ made = 0
    /\ work = [w \in Workers |-> Idle]
    /\ killed = {}
    /\ faults = {}

Happens(fault) == /\ fault \notin faults
                  /\ faults' = faults \cup {fault}
                  /\ \E together \in FaultSets : faults' \subseteq together

Holds(at, d) == loop = [at |-> at, held |-> {d}]
At(at, d)    == [at |-> at, held |-> {d}]
Runs(w, d)   == d \in work[w].held

\* The worker's current connection, as the app knows it, is open
Online(w) == conn[w] # 0 /\ <<w, conn[w]>> \in open

\* A connection breaks only if another may still be made for each worker without one
Breaks == /\ Cardinality({w \in Workers : ~Online(w)}) < MaxConnections - made
          /\ faults' = faults \cup {"drop"}
          /\ "drop" \in faults \/ Happens("drop")

\* Somebody will deal with this delivery before its lock of two minutes lapses.  The ping of
\* a broken connection fails after 45 s, and its jobs are returned then.
Attended(d) ==
    \/ d \in loop.held
    \/ \E k \in tasks : k.held = d
    \/ \E a \in assigned[d.job] : a.token = d.token /\ a.conn \in open
    \/ \E w \in Workers : Runs(w, d) /\ Online(w)

InUse(j) ==
    LET Of(ds) == {d.token : d \in {e \in ds : e.job = j}}
    IN  {lock[j]} \cup Of(loop.held) \cup Of(polling)
        \cup (IF j \in FlowJobs THEN {slot[j]} ELSE {})
        \cup {a.token : a \in assigned[j]}
        \cup Of({k.held : k \in tasks})
        \cup Of(UNION {work[w].held : w \in Workers})
        \cup Of({x[2] : x \in killed})

(***************************************************************************)
(* The worker's side of polling, and the dispatcher's waiters.             *)
(***************************************************************************)
Connect(w) ==
    /\ conn[w] = 0 /\ made < MaxConnections
    /\ made' = made + 1
    /\ conn' = [conn EXCEPT ![w] = made']
    /\ open' = open \cup {<<w, made'>>}
    /\ UNCHANGED <<queueVars, limitVars, triggerLive, loop, waiters, assigned, keys, tasks,
                   work, killed, faults>>

Poll(w) ==
    /\ Online(w) /\ work[w] = Idle
    /\ work' = [work EXCEPT ![w] = [at |-> "polling", held |-> {}]]
    /\ waiters' = Append(waiters, <<w, conn[w]>>)
    /\ UNCHANGED <<queueVars, limitVars, triggerLive, loop, open, assigned, keys, tasks, conn,
                   made, killed, faults>>

\* The waiter leaves and the worker gets null
PollTimesOut(w) ==
    /\ Happens("timeout")
    /\ \E i \in DOMAIN waiters :
           /\ waiters[i] = <<w, conn[w]>>
           /\ waiters' = RemoveAt(waiters, i)
    /\ work' = [work EXCEPT ![w] = Idle]
    /\ UNCHANGED <<queueVars, limitVars, triggerLive, loop, open, assigned, keys, tasks, conn,
                   made, killed>>

(***************************************************************************)
(* The loop: getNextJob, the interceptors, and what follows a verdict.     *)
(***************************************************************************)
Deferred(j) == stalls[j] > MaxStalledCount

Dequeue(j) ==
    /\ loop = Idle /\ waiters # <<>>
    /\ queue[j] = "waiting" /\ ~Deferred(j)
    /\ \E t \in Tokens \ InUse(j) :
           /\ \A u \in Tokens \ InUse(j) : t <= u
           /\ lock' = [lock EXCEPT ![j] = t]
           /\ loop' = At("check", [job |-> j, token |-> t])
    /\ queue' = [queue EXCEPT ![j] = "active"]
    /\ UNCHANGED <<failures, stalls, limitVars, triggerLive, appVars, tasks, workerVars, faults>>

\* A job that stalled too often: moved to failed, and no interceptor hears of it
FailDeferred(j) ==
    /\ loop = Idle /\ waiters # <<>>
    /\ queue[j] = "waiting" /\ Deferred(j)
    /\ queue' = [queue EXCEPT ![j] = "failed"]
    /\ UNCHANGED <<lock, failures, stalls, limitVars, triggerLive, loop, appVars, tasks,
                   workerVars, faults>>

Slots == {j \in FlowJobs : slot[j] # NoToken}

\* (slip) the parked jobs in a list instead of a sorted set
ParkInAList(d) ==
    IF slot[d.job] = NoToken /\ Cardinality(Slots) >= Limit
    THEN parked' = Append(parked, d.job) /\ loop' = At("reject", d) /\ UNCHANGED slot
    ELSE /\ slot' = [slot EXCEPT ![d.job] = IF @ = NoToken THEN d.token ELSE @]
         /\ parked' = RemoveFirst(parked, d.job)
         /\ loop' = At("hand", d)

\* (slip) one job too many
AcquireBeyondLimit(d) ==
    /\ slot' = [slot EXCEPT ![d.job] = IF @ = NoToken /\ Cardinality(Slots) <= Limit THEN d.token ELSE @]
    /\ parked' = IF slot'[d.job] = NoToken THEN Append(RemoveFirst(parked, d.job), d.job)
                                           ELSE RemoveFirst(parked, d.job)
    /\ loop' = At(IF slot'[d.job] = NoToken THEN "reject" ELSE "hand", d)

\* The rate limiter's script.  A job that has a slot keeps it as it is.
AcquireSlot(d) ==
    IF slot[d.job] # NoToken THEN
        /\ parked' = RemoveFirst(parked, d.job)
        /\ loop' = At("hand", d)
        /\ UNCHANGED slot
    ELSE IF Cardinality(Slots) >= Limit THEN
        /\ parked' = Append(RemoveFirst(parked, d.job), d.job)
        /\ loop' = At("reject", d)
        /\ UNCHANGED slot
    ELSE
        /\ slot' = [slot EXCEPT ![d.job] = d.token]
        /\ parked' = RemoveFirst(parked, d.job)
        /\ loop' = At("hand", d)

CheckFlow(d) ==
    /\ Holds("check", d) /\ d.job \in FlowJobs
    /\ AcquireSlot(d)
    /\ UNCHANGED <<queueVars, leaked, polling, triggerLive, appVars, tasks, workerVars, faults>>

\* (slip) SET without NX
CheckPollWithoutNX(d) ==
    /\ Holds("check", d) /\ d.job \in PollJobs
    /\ loop' = At(IF triggerLive THEN "hand" ELSE "discard", d)
    /\ polling' = IF triggerLive THEN {d} ELSE polling
    /\ UNCHANGED <<queueVars, slot, parked, leaked, triggerLive, appVars, tasks, workerVars,
                   faults>>

\* The zombie check, then SET NX of the polling lock: a job that owns it is rejected too
CheckPoll(d) ==
    /\ Holds("check", d) /\ d.job \in PollJobs
    /\ loop' = At(IF ~triggerLive THEN "discard" ELSE IF polling = {} THEN "hand" ELSE "reject", d)
    /\ polling' = IF triggerLive /\ polling = {} THEN {d} ELSE polling
    /\ UNCHANGED <<queueVars, slot, parked, leaked, triggerLive, appVars, tasks, workerVars,
                   faults>>

\* moveToDelayed or moveToCompleted under the loop's own token
Reject(d) ==
    /\ Holds("reject", d)
    /\ queue' = [queue EXCEPT ![d.job] = "delayed"]
    /\ lock' = [lock EXCEPT ![d.job] = NoToken]
    /\ loop' = Idle
    /\ UNCHANGED <<failures, stalls, limitVars, triggerLive, appVars, tasks, workerVars, faults>>

Discard(d) ==
    /\ Holds("discard", d)
    /\ queue' = [queue EXCEPT ![d.job] = "completed"]
    /\ lock' = [lock EXCEPT ![d.job] = NoToken]
    /\ loop' = Idle
    /\ UNCHANGED <<failures, stalls, limitVars, triggerLive, appVars, tasks, workerVars, faults>>

\* An interceptor, the move or generateEngineToken throws: the loop goes on to the next job,
\* and this one stays active with all it has acquired
DequeueFails(d) ==
    /\ d \in loop.held /\ loop.at # "return"
    /\ Happens("dequeue")
    /\ loop' = Idle
    /\ UNCHANGED <<queueVars, limitVars, triggerLive, appVars, tasks, workerVars>>

FirstConnected == {i \in DOMAIN waiters : /\ waiters[i] \in open
                                          /\ \A h \in 1..i - 1 : waiters[h] \notin open}

\* Waiters whose socket is gone are dropped on the way.  The answer is lost when the worker
\* has left the connection; the job is assigned to it all the same.
HandOver(d) ==
    /\ Holds("hand", d)
    /\ \E i \in FirstConnected :
           LET c == waiters[i]
           IN  /\ waiters' = SubSeq(waiters, i + 1, Len(waiters))
               /\ assigned' = [assigned EXCEPT ![d.job] = {[conn |-> c, token |-> d.token]}]
               /\ keys' = [keys EXCEPT ![c] = @ \cup {d.job}]
               /\ work' = IF conn[c[1]] = c[2] THEN [work EXCEPT ![c[1]] = At("running", d)]
                                               ELSE work
    /\ loop' = Idle
    /\ UNCHANGED <<queueVars, limitVars, triggerLive, open, tasks, conn, made, killed, faults>>

\* Nobody is left to take it: onOrphanedJob, which the loop waits for
Orphan(d) ==
    /\ Holds("hand", d) /\ FirstConnected = {}
    /\ waiters' = <<>>
    /\ loop' = At("return", d)
    /\ tasks' = tasks \cup {[held |-> d, kind |-> "return", step |-> "move"]}
    /\ UNCHANGED <<queueVars, limitVars, triggerLive, open, assigned, keys, workerVars, faults>>

LoopGoesOn(d) ==
    /\ Holds("return", d)
    /\ \A k \in tasks : k.held # d \/ k.kind # "return"
    /\ loop' = Idle
    /\ UNCHANGED <<queueVars, limitVars, triggerLive, appVars, tasks, workerVars, faults>>

(***************************************************************************)
(* The end of an execution.                                                *)
(***************************************************************************)
\* completeJob, sent over the connection: it does not arrive on one the app has closed.
\* The worker waits for the answer or its timeout and polls again.
Finish(w, d, kind) ==
    /\ Runs(w, d)
    /\ tasks' = IF Online(w) THEN tasks \cup {[held |-> d, kind |-> kind, step |-> "move"]}
                             ELSE tasks
    /\ work' = [work EXCEPT ![w] = Idle]
    /\ IF kind = "fail" THEN Happens("failure") ELSE UNCHANGED faults
    /\ UNCHANGED <<queueVars, limitVars, triggerLive, loop, appVars, conn, made, killed>>

\* The report of an execution that a disconnect killed, over the worker's next connection
LateReport(w, d) ==
    /\ <<w, d>> \in killed /\ Online(w)
    /\ killed' = killed \ {<<w, d>>}
    /\ tasks' = tasks \cup {[held |-> d, kind |-> "fail", step |-> "move"]}
    /\ UNCHANGED <<queueVars, limitVars, triggerLive, loop, appVars, conn, made, work, faults>>

MoveTo(j, state) ==
    /\ queue' = [queue EXCEPT ![j] = state]
    /\ lock' = [lock EXCEPT ![j] = NoToken]

GoesOn(k, step) == tasks' = (tasks \ {k}) \cup {[k EXCEPT !.step = step]}
Ends(k)         == tasks' = tasks \ {k}

\* jobAssignmentTracker.clear
Clear(j) ==
    /\ assigned' = [assigned EXCEPT ![j] = {}]
    /\ keys' = [c \in Connections |-> IF \E a \in assigned[j] : a.conn = c THEN keys[c] \ {j}
                                                                         ELSE keys[c]]

\* A completed job is gone from Redis: the handler returns at once
ReportOfGone(k) ==
    /\ k \in tasks /\ k.step = "move" /\ queue[k.held.job] = "completed"
    /\ Ends(k)
    /\ UNCHANGED <<queueVars, limitVars, triggerLive, loop, appVars, workerVars, faults>>

\* The move needs the token that holds the lock; when it throws, the cleanup runs all the same
Complete(k) ==
    LET j == k.held.job
    IN  /\ k \in tasks /\ k.kind # "return" /\ k.step = "move" /\ queue[j] # "completed"
        /\ \/ /\ lock[j] = k.held.token /\ k.kind = "ok"
              /\ MoveTo(j, "completed")
              /\ UNCHANGED <<failures, faults>>
           \/ /\ lock[j] = k.held.token /\ k.kind = "fail"
              /\ failures' = [failures EXCEPT ![j] = @ + 1]
              /\ MoveTo(j, IF failures[j] + 1 < Attempts THEN "delayed" ELSE "failed")
              /\ UNCHANGED faults
           \/ /\ lock[j] # k.held.token
              /\ UNCHANGED <<queue, lock, failures, faults>>
           \/ /\ lock[j] = k.held.token /\ Happens("redis")
              /\ UNCHANGED <<queue, lock, failures>>
        /\ Clear(j)
        /\ GoesOn(k, "release")
        /\ UNCHANGED <<stalls, limitVars, triggerLive, loop, waiters, open, workerVars>>

\* (slip) a returned job keeps its slot
ReturnOnly(k) ==
    /\ k \in tasks /\ k.kind = "return" /\ k.step = "move" /\ queue[k.held.job] # "completed"
    /\ IF lock[k.held.job] = k.held.token THEN MoveTo(k.held.job, "delayed")
                                          ELSE UNCHANGED <<queue, lock>>
    /\ Ends(k)
    /\ UNCHANGED <<failures, stalls, limitVars, triggerLive, loop, appVars, workerVars, faults>>

\* returnJobToQueue: without the lock it throws, and nothing is cleaned up
Return(k) ==
    LET j == k.held.job
    IN  /\ k \in tasks /\ k.kind = "return" /\ k.step = "move" /\ queue[j] # "completed"
        /\ IF lock[j] = k.held.token
           THEN MoveTo(j, "delayed") /\ GoesOn(k, "release")
           ELSE Ends(k) /\ UNCHANGED <<queue, lock>>
        /\ UNCHANGED <<failures, stalls, limitVars, triggerLive, loop, appVars, workerVars, faults>>

\* onJobFinished of the rate limiter: ZREM by job id, then promoteNextParkedJob
ReleaseSlot(k) ==
    /\ k \in tasks /\ k.step = "release" /\ k.held.job \in FlowJobs
    /\ slot' = [slot EXCEPT ![k.held.job] = NoToken]
    /\ leaked' = leaked \ {k.held.job}
    /\ GoesOn(k, "promote")
    /\ UNCHANGED <<queueVars, parked, polling, triggerLive, loop, appVars, workerVars, faults>>

\* Up to three entries are popped until one is a delayed job, which is promoted
Popped == LET Delayed == {i \in DOMAIN parked : queue[parked[i]] = "delayed"}
          IN  Min({3, Len(parked)} \cup Delayed)

Promote(k) ==
    /\ k \in tasks /\ k.step = "promote"
    /\ parked' = SubSeq(parked, Popped + 1, Len(parked))
    /\ queue' = [j \in Jobs |-> IF Popped # 0 /\ j = parked[Popped] /\ queue[j] = "delayed"
                                THEN "waiting" ELSE queue[j]]
    /\ Ends(k)
    /\ UNCHANGED <<lock, failures, stalls, slot, leaked, polling, triggerLive, loop, appVars,
                   workerVars, faults>>

\* onJobFinished of the polling interceptor: GET, and DEL when the owner is this job
ReadPollingLock(k) ==
    /\ k \in tasks /\ k.step = "release" /\ k.held.job \in PollJobs
    /\ IF \E d \in polling : d.job = k.held.job THEN GoesOn(k, "delete") ELSE Ends(k)
    /\ UNCHANGED <<queueVars, limitVars, triggerLive, loop, appVars, workerVars, faults>>

DeletePollingLock(k) ==
    /\ k \in tasks /\ k.step = "delete"
    /\ polling' = {}
    /\ Ends(k)
    /\ UNCHANGED <<queueVars, slot, parked, leaked, triggerLive, loop, appVars, workerVars,
                   faults>>

\* The slot that a task had yet to give back
Unreleased(k) == {j \in Slots : k.step = "release" /\ j = k.held.job}

\* The callers log the error of an onJobFinished and go on: what it had yet to do is not done.
\* A promotion may have popped entries before it throws.
CleanupFails(k) ==
    /\ k \in tasks /\ k.step \in {"release", "delete", "promote"}
    /\ Happens("cleanup")
    /\ \E n \in 0..(IF k.step = "promote" THEN Popped ELSE 0) :
           parked' = SubSeq(parked, n + 1, Len(parked))
    /\ leaked' = leaked \cup Unreleased(k)
    /\ Ends(k)
    /\ UNCHANGED <<queueVars, slot, polling, triggerLive, loop, appVars, workerVars>>

(***************************************************************************)
(* A broken connection, as each side notices it.                           *)
(***************************************************************************)
\* The worker kills its runtime; the job it executed fails and will be reported
Drop(w) ==
    /\ conn[w] # 0 /\ IF Online(w) THEN Breaks ELSE UNCHANGED faults
    /\ conn' = [conn EXCEPT ![w] = 0]
    /\ killed' = killed \cup {<<w, d>> : d \in work[w].held}
    /\ work' = [work EXCEPT ![w] = Idle]
    /\ UNCHANGED <<queueVars, limitVars, triggerLive, loop, appVars, tasks, made>>

LateReportIsLost(w, d) ==
    /\ <<w, d>> \in killed
    /\ killed' = killed \ {<<w, d>>}
    /\ UNCHANGED <<queueVars, limitVars, triggerLive, loop, appVars, tasks, conn, made, work, faults>>

\* (slip) the tracker keyed by the worker and not by its connection
TakenByWorker(c) == {d \in Delivery : \E a \in assigned[d.job] : a.token = d.token /\ a.conn[1] = c[1]}

\* releaseConnectionJobs: every job among the connection's keys that has an assignment
TakenBy(c) == {d \in Delivery : d.job \in keys[c] /\ \E a \in assigned[d.job] : a.token = d.token}

Disconnect(c) ==
    /\ c \in open
    /\ \/ conn[c[1]] # c[2] /\ UNCHANGED faults
       \/ conn[c[1]] = c[2] /\ Breaks
    /\ open' = open \ {c}
    /\ keys' = [keys EXCEPT ![c] = {}]
    /\ assigned' = [j \in Jobs |-> IF j \in keys[c] THEN {} ELSE assigned[j]]
    /\ tasks' = tasks \cup {[held |-> d, kind |-> "return", step |-> "move"] : d \in TakenBy(c)}
    /\ UNCHANGED <<queueVars, limitVars, triggerLive, loop, waiters, workerVars>>

(***************************************************************************)
(* BullMQ, Redis expiry and the flow's owner.                              *)
(***************************************************************************)
\* A retry waits for minutes and a returned job for 100 ms: only a slow handler releases what
\* the job held after it is due again
Due(j) ==
    /\ queue[j] = "delayed"
    /\ IF \E k \in tasks : k.held.job = j /\ k.step = "release" THEN Happens("slow")
                                                                 ELSE UNCHANGED faults
    /\ queue' = [queue EXCEPT ![j] = "waiting"]
    /\ UNCHANGED <<lock, failures, stalls, limitVars, triggerLive, loop, appVars, tasks,
                   workerVars>>

Lapse(j) ==
    /\ lock[j] # NoToken
    /\ LET d == [job |-> j, token |-> lock[j]]
       IN  \/ ~Attended(d) /\ UNCHANGED faults
           \/ (\E w \in Workers : Runs(w, d) /\ Online(w)) /\ Happens("lapse")
    /\ lock' = [lock EXCEPT ![j] = NoToken]
    /\ UNCHANGED <<queue, failures, stalls, limitVars, triggerLive, loop, appVars, tasks, workerVars>>

StalledScan(j) ==
    /\ queue[j] = "active" /\ lock[j] = NoToken
    /\ queue' = [queue EXCEPT ![j] = "waiting"]
    /\ stalls' = [stalls EXCEPT ![j] = @ + 1]
    /\ UNCHANGED <<lock, failures, limitVars, triggerLive, loop, appVars, tasks, workerVars, faults>>

\* A slot outlives the flow timeout by a minute, counted from the delivery that took it
SlotExpires(j) ==
    /\ j \in Slots
    /\ ~Attended([job |-> j, token |-> slot[j]])
    /\ \A w \in Workers : ~Runs(w, [job |-> j, token |-> slot[j]])
    /\ slot' = [slot EXCEPT ![j] = NoToken]
    /\ leaked' = leaked \ {j}
    /\ UNCHANGED <<queueVars, parked, polling, triggerLive, loop, appVars, tasks, workerVars, faults>>

\* (slip) the polling lock without a TTL
PollingLockStays == FALSE /\ UNCHANGED vars

PollingLockExpires ==
    /\ polling # {}
    /\ \A d \in polling, w \in Workers : ~Runs(w, d)
    /\ \/ (\A d \in polling : ~Attended(d)) /\ UNCHANGED faults
       \/ (\E k \in tasks : k.held \in polling) /\ Happens("slow")
    /\ polling' = {}
    /\ UNCHANGED <<queueVars, slot, parked, leaked, triggerLive, loop, appVars, tasks, workerVars>>

Disable ==
    /\ Happens("disable")
    /\ triggerLive' = FALSE
    /\ UNCHANGED <<queueVars, limitVars, loop, appVars, tasks, workerVars>>

\* What is in Redis stays.  Without a connection that may still be made nothing could follow.
AppDies ==
    /\ Happens("crash") /\ made < MaxConnections
    /\ loop' = Idle
    /\ waiters' = <<>>
    /\ open' = {}
    /\ assigned' = [j \in Jobs |-> {}]
    /\ keys' = [c \in Connections |-> {}]
    /\ tasks' = {}
    /\ leaked' = leaked \cup UNION {Unreleased(k) : k \in tasks}
    /\ UNCHANGED <<queueVars, slot, parked, polling, triggerLive, workerVars>>

LoopStep(d) ==
    \/ CheckFlow(d)
    \/ CheckPoll(d)
    \/ Reject(d)
    \/ Discard(d)
    \/ HandOver(d)
    \/ Orphan(d)
    \/ LoopGoesOn(d)

TaskStep(k) ==
    \/ ReportOfGone(k)
    \/ Complete(k)
    \/ Return(k)
    \/ ReleaseSlot(k)
    \/ Promote(k)
    \/ ReadPollingLock(k)
    \/ DeletePollingLock(k)
    \/ CleanupFails(k)

WorkerStep(w) ==
    \/ Connect(w)
    \/ Poll(w)
    \/ PollTimesOut(w)
    \/ Drop(w)
    \/ \E d \in work[w].held, kind \in {"ok", "fail"} : Finish(w, d, kind)
    \/ \E x \in killed : LateReport(w, x[2]) \/ LateReportIsLost(w, x[2])

QueueStep(j) ==
    \/ Dequeue(j)
    \/ FailDeferred(j)
    \/ Due(j)
    \/ Lapse(j)
    \/ StalledScan(j)

Next ==
    \/ \E w \in Workers : WorkerStep(w)
    \/ \E d \in loop.held : LoopStep(d) \/ DequeueFails(d)
    \/ \E k \in tasks : TaskStep(k)
    \/ \E c \in Connections : Disconnect(c)
    \/ \E j \in Jobs : QueueStep(j)
    \/ \E j \in FlowJobs : SlotExpires(j)
    \/ PollingLockExpires
    \/ Disable
    \/ AppDies

Spec == Init /\ [][Next]_vars

\* The app's own steps go on; a worker reconnects, polls and ends what it executes, and each
\* side notices a broken connection; BullMQ's scans and Redis's expiry come.  Nobody has to
\* report late.  A job stays on the queue in its turn, so that it is dequeued if again and
\* again it could be.
FairSpec ==
    /\ Spec
    /\ WF_vars(\E d \in loop.held : LoopStep(d))
    /\ WF_vars(\E k \in tasks : TaskStep(k))
    /\ WF_vars(\E w \in Workers : Connect(w) \/ Poll(w))
    /\ WF_vars(\E w \in Workers : \E d \in work[w].held : Finish(w, d, "ok"))
    /\ WF_vars(\E w \in Workers : ~Online(w) /\ Drop(w))
    /\ WF_vars(\E c \in Connections : conn[c[1]] # c[2] /\ Disconnect(c))
    /\ WF_vars(\E j \in Jobs : Due(j))
    /\ WF_vars(\E j \in Jobs : StalledScan(j))
    /\ WF_vars(\E j \in FlowJobs : SlotExpires(j))
    /\ WF_vars(\E j \in Jobs : ~Attended([job |-> j, token |-> lock[j]]) /\ Lapse(j))
    /\ WF_vars((\A d \in polling : ~Attended(d)) /\ PollingLockExpires)
    /\ \A j \in Jobs : SF_vars(Dequeue(j) \/ FailDeferred(j))

-----------------------------------------------------------------------------
\* The workers known to execute a job of a kind
Running(kind) == {w \in Workers : Online(w) /\ \E d \in Delivery : Runs(w, d) /\ d.job \in kind}

\* "Concurrency limits control how many flow runs can execute simultaneously within a
\* project" (docs/admin-guide/guides/manage-concurrency.mdx:9).
ConcurrencyIsLimited == Cardinality(Running(FlowJobs)) <= Limit

\* As long as no connection breaks, no running job's lock lapses, no dequeue or cleanup fails
\* half-way and the app does not die: slots taken, kept, released by other deliveries of the
\* job and expired never let more flows run than the pool allows (rate-limiter-interceptor.ts).
Harmless == {"redis", "failure", "timeout", "disable"}
LimitHoldsUndisturbed == faults \subseteq Harmless => ConcurrencyIsLimited

\* Under the same conditions one poll of a flow version runs at a time, although the lock is
\* read and deleted in two steps (polling-exclusivity-interceptor.ts:26).
OnePollUndisturbed == faults \subseteq Harmless => Cardinality(Running(PollJobs)) <= 1

\* A slot of the pool always has a job that will give it back: one that is active, one whose
\* release is under way, or one the stalled scan has put back.  Two kinds of slots are left to
\* expire: that of a job failed for stalling too often (job-broker.ts:93), and one whose
\* release threw, went to another pool or was cut off by a crash (job-broker.ts:178-183,
\* 316-322).  No other step, in whatever order, leaves a slot behind.
SlotIsHeldForAJob ==
    \A j \in Slots :
        \/ queue[j] = "active"
        \/ \E k \in tasks : k.held.job = j /\ k.step = "release"
        \/ queue[j] = "waiting" /\ stalls[j] > 0
        \/ Deferred(j)
        \/ j \in leaked

\* Unless its lock lapsed, a job is never taken from the worker that executes it over an open
\* connection: not by the disconnect of an earlier connection, not by the late report of an
\* earlier delivery (job-assignment-tracker.ts:12-18).
LiveCopyKeepsItsJob ==
    "lapse" \notin faults =>
        \A w \in Workers, d \in Delivery : Runs(w, d) /\ Online(w) => lock[d.job] = d.token

\* Every job is completed or failed in the end, whatever breaks: none is lost with a
\* connection, starved by a leaked slot or a stale polling lock, or forgotten in "active".
EveryJobEnds == \A j \in Jobs : <>(queue[j] \in {"completed", "failed"})
=============================================================================
