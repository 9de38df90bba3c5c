----------------------------- MODULE FlowExecutor -----------------------------
(***************************************************************************)
(* How the engine executes one flow run, over all the jobs the run takes.  *)
(*                                                                         *)
(* A flow is a tree of steps.  The executor walks it with a recursion of   *)
(* its own (execute -> handler -> execute ...), which is here the stack of *)
(* frames; what the steps did is in the journal, keyed by the step and the *)
(* loop iterations around it.  A pause throws the stack away: the journal  *)
(* is uploaded as the run's log, and the job that resumes the run walks    *)
(* the whole flow again from its first step, over the journal restored     *)
(* from the log, passing what is recorded as completed.  A retry from the  *)
(* failed step does the same over the log without its failures.  A worker  *)
(* that dies leaves a job which is delivered again as it was queued.       *)
(*                                                                         *)
(* A call of a step (a piece's action, a code step, the question of an AI  *)
(* router) is an external effect that succeeds or fails.  Left out: test   *)
(* runs of one step, runs that enter at a step with seeded outputs, the    *)
(* size limit of the log, tags, responses, and the values of outputs.      *)
(***************************************************************************)
EXTENDS Integers, Sequences, SequencesExt, FiniteSets, FiniteSetsExt, Functions

CONSTANTS
    Flows,          \* the flows that may be run, records as described by IsFlow
    MaxAttempts,    \* retryConstants.maxAttempts
    MaxRetries,     \* bound: retries of the run from its failed step
    Faults          \* bound: the faults that may happen, each of them once

\* "redeliver": the worker dies, its job is delivered again; "kill": the sandbox reaches its
\* timeout; "resolve": the settings of a loop or a router cannot be resolved.
AllFaults == {"redeliver", "kill", "resolve"}
NoStep    == "none"
Kinds     == {"action", "loop", "router", "ai"}

\* A step hangs at the head of the flow, after a step, or as a child of one
Places(f) == {<<NoStep, 0>>} \cup
             UNION {{s} \X ({0} \cup DOMAIN f.children[s]) : s \in DOMAIN f.kind}
StepAt(f, p) == IF p[1] = NoStep THEN f.head
                ELSE IF p[2] = 0 THEN f.next[p[1]] ELSE f.children[p[1]][p[2]]

\* A step and what is behind it: what hangs below it or comes after it, and so on
AllSteps(f, s) ==
    {t \in DOMAIN f.kind : \A S \in SUBSET DOMAIN f.kind :
        /\ s \in S
        /\ \A r \in S : {f.next[r]} \cup ToSet(f.children[r]) \subseteq S \cup {NoStep}
        => t \in S}

\* The steps on the way to a step: those before it and those around it
PathTo(f, t) == {s \in DOMAIN f.kind \ {t} : t \in AllSteps(f, s)}

\* children: the loop's body, the branches of a router, or the <<onSuccess, onFailure>>
\* branches of an action; choices: what the branches of a router test of which step, or the
\* route names of an AI router.  The fields from skipped on are sets of steps.
IsFlow(f) ==
    /\ \A s \in DOMAIN f.kind : s # NoStep /\ f.kind[s] \in Kinds /\ f.items[s] \in Nat
    /\ f.head \in DOMAIN f.kind /\ DOMAIN f.kind = AllSteps(f, f.head)
    /\ IsFiniteSet(DOMAIN f.kind)
    /\ f.next \in [DOMAIN f.kind -> DOMAIN f.kind \cup {NoStep}]
    /\ \A s \in DOMAIN f.kind :
          /\ f.children[s] \in Seq(DOMAIN f.kind \cup {NoStep})
          /\ f.kind[s] = "loop" => 1 \in DOMAIN f.children[s]
          /\ f.kind[s] \in {"router", "ai"} => DOMAIN f.choices[s] = DOMAIN f.children[s]
          /\ s \in f.continues => {1, 2} \subseteq DOMAIN f.children[s]
    /\ \A p, q \in Places(f) : StepAt(f, p) = StepAt(f, q) /\ StepAt(f, p) # NoStep => p = q
    /\ f.continues \cup f.retries \cup f.waits \cup f.stops
          \subseteq {s \in DOMAIN f.kind : f.kind[s] = "action"}
    /\ f.skipped \cup f.takesAll \subseteq DOMAIN f.kind

ASSUME FlowExecutorAssumption ==
    /\ \A f \in Flows : IsFlow(f)
    /\ MaxAttempts \in Nat \ {0}
    /\ MaxRetries \in Nat
    /\ Faults \subseteq AllFaults

\* What a flow is checked for, or built with, beyond that.  The routes of an AI router have
\* names of their own; and a condition of a router is about a step on the way to it: the
\* builder offers no other, though moving the router away leaves its condition as it was.
DistinctRoutes ==
    \A f \in Flows : \A s \in DOMAIN f.kind : f.kind[s] = "ai" => IsInjective(f.choices[s])
RoutersLookBack ==
    \A f \in Flows : \A r \in DOMAIN f.kind : f.kind[r] = "router" =>
        \A n \in DOMAIN f.choices[r] :
            f.choices[r][n].on = "fallback" \/ f.choices[r][n].of \in PathTo(f, r)

VARIABLES
    flow,       \* the flow version of the run
    job,        \* the job on the queue or at the engine: how it begins and why it resumes
    phase,      \* where the job is: "idle" if there is none
    stack,      \* the executor's recursion, outermost frame first
    journal,    \* FlowExecutorContext.steps
    verdict,    \* FlowExecutorContext.verdict
    log,        \* the steps in the run's log file
    status,     \* FlowRun.status, and the failed step of the last report
    armed,      \* the keys of the run's pending waitpoints
    retriesDone,
    faults,     \* the faults that have yet to happen
    succeeded,  \* history: the steps that ever succeeded
    readers     \* history: the paused steps that were given the payload of this job

engineVars  == <<stack, journal, verdict>>
serverVars  == <<job, log, status, armed>>
historyVars == <<succeeded, readers>>
vars == <<flow, job, phase, stack, journal, verdict, log, status, armed, retriesDone, faults,
          succeeded, readers>>

Steps       == DOMAIN flow.kind
NoEntries   == [k \in {} |-> [status |-> "RUNNING", routes |-> {}]]
Entry(s, routes) == [status |-> s, routes |-> routes]
Verdict(s)  == [is |-> s, failed |-> NoStep]
Running     == Verdict("RUNNING")
BeginJob    == [kind |-> "begin", reason |-> "none"]
ResumeJob(reason) == [kind |-> "resume", reason |-> reason]

\* The entry of a step in a journal or a log
Has(j, k, s)  == k \in DOMAIN j /\ j[k].status = s
Paused(k)     == Has(journal, k, "PAUSED")
CompletedIfRecorded(k) == k \in DOMAIN journal          \* (slip) a paused step is completed
Completed(k)  == k \in DOMAIN journal /\ ~Paused(k)
Set(k, s, routes) == [x \in DOMAIN journal \cup {k} |->
                        IF x = k THEN Entry(s, routes) ELSE journal[x]]

-----------------------------------------------------------------------------
(* The stack *)

Frame(s, path) == [step |-> s, path |-> path, at |-> "enter", i |-> 0, todo |-> {}]
Execute(st, s, path) == IF s = NoStep THEN st ELSE Append(st, Frame(s, path))

Top    == Last(stack)
Key    == <<Top.path, Top.step>>
At(at) == phase = "executing" /\ stack # <<>> /\ Top.at = at
Is(kind) == flow.kind[Top.step] = kind

Become(frame) == Append(Front(stack), frame)
GoOn(at)      == Become([Top EXCEPT !.at = at])

\* The step is done: the while loop of execute goes on with its successor, or returns
Past == Execute(Front(stack), flow.next[Top.step], Top.path)

\* (slip) executors and handlers go on whatever the verdict
ReturnOn(v, st) == verdict' = v /\ stack' = st

\* A handler returned this verdict.  Every execute and every handler around it stops at a
\* verdict other than RUNNING.
Return(v, st) ==
    /\ verdict' = v
    /\ stack' = IF v = Running THEN st ELSE <<>>

Failure == [is |-> "FAILED", failed |-> Top.step]

Inner(vs) == UNCHANGED <<flow, job, phase, status, retriesDone>> /\ UNCHANGED vs

-----------------------------------------------------------------------------
(* The state an engine starts from *)

\* (slip) waitpoint resumes drop failed steps like retries
RestorableIfUnfailed(s) == s \in {"SUCCEEDED", "PAUSED"}

\* Retries drop what failed; waitpoint resumes keep it, so that a step that failed and was
\* allowed to is not called again
IsStepRestorable(s) == s \in {"SUCCEEDED", "PAUSED"} \/ (job.reason = "waitpoint" /\ s = "FAILED")

EnclosingLoops(k) == {<<SubSeq(k[1], 1, n - 1), k[1][n][1]>> : n \in 1..Len(k[1])}

\* (slip) the iterations of loops are not restored
RestoredOutsideLoops == {k \in DOMAIN log : k[1] = <<>> /\ IsStepRestorable(log[k].status)}

RestoredSteps == {k \in DOMAIN log : \A e \in {k} \cup EnclosingLoops(k) :
                                        IsStepRestorable(log[e].status)}

Start ==
    /\ phase = "queued"
    /\ phase' = "executing"
    /\ journal' = IF job.kind = "begin" THEN NoEntries ELSE Restrict(log, RestoredSteps)
    /\ verdict' = Running
    /\ stack' = Execute(<<>>, flow.head, <<>>)
    /\ UNCHANGED <<flow, serverVars, retriesDone, faults, historyVars>>

-----------------------------------------------------------------------------
(* Actions: pieces and code steps; and an AI router's question, which waits for its answer *)

MayWait(s) == flow.kind[s] = "ai" \/ s \in flow.waits

\* A skipped step is passed without a trace
Skip ==
    /\ At("enter") /\ Top.step \in flow.skipped
    /\ stack' = Past
    /\ Inner(<<journal, verdict, log, armed, faults, historyVars>>)

Entered == At("enter") /\ Top.step \notin flow.skipped

\* isCompleted: the handler returns at once
Reuse ==
    /\ Entered /\ Is("action") /\ Completed(Key)
    /\ stack' = GoOn("handled")
    /\ Inner(<<journal, verdict, log, armed, faults, historyVars>>)

\* (slip) a stored answer is not looked at
AsksUnlessPaused(k) == ~Paused(k)

\* A stored answer of an AI router is used; anything else but a pause makes it ask (again)
Asks(k) == ~Has(journal, k, "SUCCEEDED") /\ ~Paused(k)

\* A paused step is called with the payload that resumed the run
Call ==
    /\ Entered
    /\ \/ Is("action") /\ ~Completed(Key)
       \/ Is("ai") /\ Asks(Key)
    /\ stack' = Become([Top EXCEPT !.at = "calling", !.i = 1])
    /\ readers' = IF Paused(Key) THEN readers \cup {Key} ELSE readers
    /\ Inner(<<journal, verdict, log, armed, faults, succeeded>>)

\* createWaitpoint, during the call
Arm ==
    /\ At("calling") /\ MayWait(Top.step) /\ Key \notin armed
    /\ armed' = armed \cup {Key}
    /\ Inner(<<engineVars, log, faults, historyVars>>)

\* A step that was resumed may pause again
Pause ==
    /\ At("calling") /\ MayWait(Top.step) /\ Key \in armed
    /\ journal' = Set(Key, "PAUSED", {})
    /\ Return(Verdict("PAUSED"), stack)
    /\ Inner(<<log, armed, faults, historyVars>>)

\* A step that stops the flow ends it in success
Succeed ==
    /\ At("calling") /\ Is("action") /\ (MayWait(Top.step) => Paused(Key))
    /\ journal' = Set(Key, "SUCCEEDED", {})
    /\ succeeded' = succeeded \cup {Key}
    /\ Return(IF Top.step \in flow.stops THEN Verdict("SUCCEEDED") ELSE Running, GoOn("handled"))
    /\ Inner(<<log, armed, faults, readers>>)

\* runWithExponentialBackoff: the failure of an earlier attempt leaves no trace
AttemptAgain ==
    /\ At("calling") /\ Top.step \in flow.retries /\ Top.i < MaxAttempts
    /\ stack' = Become([Top EXCEPT !.i = @ + 1])
    /\ Inner(<<journal, verdict, log, armed, faults, historyVars>>)

\* failStep, then continueIfFailureHandler
Fail ==
    /\ At("calling") /\ (Top.step \in flow.retries => Top.i = MaxAttempts)
    /\ journal' = Set(Key, "FAILED", {})
    /\ Return(IF Top.step \in flow.continues THEN Running ELSE Failure, GoOn("handled"))
    /\ Inner(<<log, armed, faults, historyVars>>)

\* runContinueOnFailureBranchIfNeeded: the branch hangs on what is recorded of the step
Handled ==
    /\ At("handled")
    /\ stack' = IF Top.step \in flow.continues
                THEN Execute(GoOn("left"),
                             flow.children[Top.step][IF Has(journal, Key, "FAILED") THEN 2 ELSE 1],
                             Top.path)
                ELSE Past
    /\ Inner(<<journal, verdict, log, armed, faults, historyVars>>)

-----------------------------------------------------------------------------
(* Loops and routers *)

\* Everything recorded in the iterations of a loop
InIterationsOf(k) ==
    {j \in DOMAIN journal : /\ Len(j[1]) > Len(k[1])
                            /\ SubSeq(j[1], 1, Len(k[1])) = k[1]
                            /\ j[1][Len(k[1]) + 1][1] = k[2]}

\* A loop is recorded anew then, without its iterations
ResolveFails ==
    /\ "resolve" \in faults /\ faults' = faults \ {"resolve"}
    /\ Entered /\ ~Is("action")
    /\ Is("ai") => ~Has(journal, Key, "SUCCEEDED")
    /\ LET lost == IF Is("loop") THEN InIterationsOf(Key) ELSE {}
       IN journal' = Restrict(Set(Key, "FAILED", {}), (DOMAIN journal \cup {Key}) \ lost)
    /\ Return(Failure, stack)
    /\ Inner(<<log, armed, historyVars>>)

Inside(todo) == Become([Top EXCEPT !.at = "inside", !.todo = todo])

\* (slip) a loop starts over with a fresh output
EnterLoopAfresh ==
    /\ Entered /\ Is("loop")
    /\ journal' = Restrict(Set(Key, "SUCCEEDED", {}),
                           (DOMAIN journal \cup {Key}) \ InIterationsOf(Key))
    /\ stack' = Inside(1..flow.items[Top.step])
    /\ Inner(<<verdict, log, armed, faults, historyVars>>)

\* A loop goes through its items from the first; its earlier iterations stay recorded
EnterLoop ==
    /\ Entered /\ Is("loop")
    /\ journal' = IF Key \in DOMAIN journal THEN journal ELSE Set(Key, "SUCCEEDED", {})
    /\ stack' = Inside(1..flow.items[Top.step])
    /\ Inner(<<verdict, log, armed, faults, historyVars>>)

FirstOf(routes) == IF routes = {} THEN {} ELSE {Min(routes)}

\* What a step reads of another: the innermost iteration around it that recorded one
Seen(s) ==
    LET levels == {n \in 0..Len(Top.path) : <<SubSeq(Top.path, 1, n), s>> \in DOMAIN journal}
    IN IF levels = {} THEN "nothing" ELSE journal[<<SubSeq(Top.path, 1, Max(levels)), s>>].status

\* The branches whose condition holds; the fallback if no other one does
Matching ==
    LET tests   == flow.choices[Top.step]
        holds   == {n \in DOMAIN tests : tests[n].on \in {"fallback", Seen(tests[n].of)}}
        IsFallback(n) == tests[n].on = "fallback"
    IN {n \in holds : IsFallback(n) => holds = {n}}

\* A router evaluates its conditions whenever it is passed
EnterRouter ==
    /\ Entered /\ Is("router")
    /\ journal' = Set(Key, "SUCCEEDED", Matching)
    /\ stack' = Inside(IF Top.step \in flow.takesAll THEN Matching ELSE FirstOf(Matching))
    /\ Inner(<<verdict, log, armed, faults, historyVars>>)

\* An AI router that was answered runs all the routes it stored
Replay ==
    /\ Entered /\ Is("ai") /\ Has(journal, Key, "SUCCEEDED")
    /\ stack' = Inside(journal[Key].routes)
    /\ Inner(<<journal, verdict, log, armed, faults, historyVars>>)

\* The routes an answer can make true: all of the best route's name; or those of any set of
\* names, and the fallback for the empty set.  Without a fallback nothing may match.
Answers(s) ==
    LET names == flow.choices[s]
        Named(N) == {n \in DOMAIN names : names[n] \in N}
        listed == ToSet(names) \ {"fallback"}
    IN IF s \in flow.takesAll
       THEN {Named(IF N = {} THEN {"fallback"} ELSE N) : N \in SUBSET listed}
       ELSE {Named({name}) : name \in ToSet(names) \cup {"fallback"}}

\* The payload that resumed the run is the answer; only the first of its routes runs here
Answer ==
    /\ Entered /\ Is("ai") /\ Paused(Key)
    /\ readers' = readers \cup {Key}
    /\ \E routes \in Answers(Top.step) :
          /\ journal' = Set(Key, "SUCCEEDED", routes)
          /\ stack' = Inside(IF Top.step \in flow.takesAll THEN routes ELSE FirstOf(routes))
    /\ succeeded' = succeeded \cup {Key}
    /\ Inner(<<verdict, log, armed, faults>>)

\* The payload reports a failure, or that no answer came in time
NoAnswer ==
    /\ Entered /\ Is("ai") /\ Paused(Key)
    /\ readers' = readers \cup {Key}
    /\ journal' = Set(Key, "FAILED", {})
    /\ Return(Failure, stack)
    /\ Inner(<<log, armed, faults, succeeded>>)

\* (slip) the counter of the branches is not advanced
NextChildAgain ==
    /\ At("inside") /\ Top.todo # {}
    /\ LET n == Min(Top.todo)
           inner == IF Is("loop") THEN Append(Top.path, <<Top.step, n>>) ELSE Top.path
       IN stack' = Execute(Become([Top EXCEPT !.i = n]),
                           flow.children[Top.step][IF Is("loop") THEN 1 ELSE n], inner)
    /\ Inner(<<journal, verdict, log, armed, faults, historyVars>>)

\* The next iteration of a loop, or the next route
NextChild ==
    /\ At("inside") /\ Top.todo # {}
    /\ LET n     == Min(Top.todo)
           frame == [Top EXCEPT !.i = n, !.todo = @ \ {n}]
           inner == IF Is("loop") THEN Append(Top.path, <<Top.step, n>>) ELSE Top.path
       IN stack' = Execute(Become(frame), flow.children[Top.step][IF Is("loop") THEN 1 ELSE n],
                           inner)
    /\ Inner(<<journal, verdict, log, armed, faults, historyVars>>)

\* The children of a step, or its branch, are done
Leave ==
    /\ At("left") \/ (At("inside") /\ Top.todo = {})
    /\ stack' = Past
    /\ Inner(<<journal, verdict, log, armed, faults, historyVars>>)

-----------------------------------------------------------------------------
(* The engine and the server around the executor *)

\* The row of the run takes a report's fields as they are; a failed step, once there, stays
Reported(v) == [is |-> v.is, failed |-> IF v.failed = NoStep THEN status.failed ELSE v.failed]

\* (slip) waitpoints are cleaned up whatever is reported
NoWaitpointsKept(s) == {}

\* onFinish: the waitpoints of a run that ended go, of a failed one those of the failed step
KeptWaitpoints(s) ==
    CASE s.is = "PAUSED"                                        -> armed
      [] s.is \in {"FAILED", "TIMEOUT"} /\ s.failed # NoStep -> {k \in armed : k[2] # s.failed}
      [] OTHER                                                 -> {}

\* What the last sendUpdate handed to the reporter: a call of a fresh step is in progress
Snapshot == IF At("calling") /\ Is("action") /\ ~Paused(Key) THEN Set(Key, "RUNNING", {})
            ELSE journal

\* The flush loop uploads it from time to time
Flush ==
    /\ phase = "executing" /\ stack # <<>>
    /\ log # Snapshot
    /\ log' = Snapshot
    /\ status' = Reported(Running)
    /\ UNCHANGED <<flow, job, phase, engineVars, armed, retriesDone, faults, historyVars>>

\* finishExecution, and the upload of the log by the last backup
Upload ==
    /\ phase = "executing" /\ stack = <<>>
    /\ verdict' = IF verdict = Running THEN Verdict("SUCCEEDED") ELSE verdict
    /\ log' = journal
    /\ phase' = "uploaded"
    /\ UNCHANGED <<flow, job, stack, journal, status, armed, retriesDone, faults, historyVars>>

\* The report of the same backup
SendReport ==
    /\ phase = "uploaded"
    /\ phase' = "reported"
    /\ status' = Reported(verdict)
    /\ armed' = KeptWaitpoints(Reported(verdict))
    /\ UNCHANGED <<flow, job, engineVars, log, retriesDone, faults, historyVars>>

Complete ==
    /\ phase = "reported"
    /\ phase' = "idle"
    /\ UNCHANGED <<flow, serverVars, engineVars, retriesDone, faults, historyVars>>

Queue(j) == phase' = "queued" /\ job' = j /\ readers' = {} /\ status' = Reported(Running)

\* A link is opened or a deadline fires: any pending waitpoint of a paused run resumes it
Signal ==
    /\ phase = "idle" /\ status.is = "PAUSED"
    /\ \E k \in armed : armed' = armed \ {k}
    /\ Queue(ResumeJob("waitpoint"))
    /\ UNCHANGED <<flow, engineVars, log, retriesDone, faults, succeeded>>

\* flowRunService.retry, FROM_FAILED_STEP
Retry ==
    /\ phase = "idle" /\ status.is \in {"FAILED", "TIMEOUT"} /\ retriesDone < MaxRetries
    /\ retriesDone' = retriesDone + 1
    /\ Queue(ResumeJob("retry"))
    /\ UNCHANGED <<flow, engineVars, log, armed, faults, succeeded>>

\* The worker dies anywhere before the job is completed
Redeliver ==
    /\ "redeliver" \in faults /\ phase \in {"executing", "uploaded", "reported"}
    /\ faults' = faults \ {"redeliver"}
    /\ phase' = "queued"
    /\ stack' = <<>> /\ journal' = NoEntries /\ verdict' = Running
    /\ UNCHANGED <<flow, serverVars, retriesDone, historyVars>>

\* The sandbox is killed; the worker reports TIMEOUT and completes the job
Kill ==
    /\ "kill" \in faults /\ phase = "executing"
    /\ faults' = faults \ {"kill"}
    /\ phase' = "idle"
    /\ status' = Reported(Verdict("TIMEOUT"))
    /\ armed' = KeptWaitpoints(Reported(Verdict("TIMEOUT")))
    /\ stack' = <<>> /\ journal' = NoEntries /\ verdict' = Running
    /\ UNCHANGED <<flow, job, log, retriesDone, historyVars>>

-----------------------------------------------------------------------------

Init ==
    /\ flow \in Flows
    /\ job = BeginJob /\ phase = "queued"
    /\ stack = <<>> /\ journal = NoEntries /\ verdict = Running
    /\ log = NoEntries /\ status = Running /\ armed = {}
    /\ retriesDone = 0 /\ faults = Faults
    /\ succeeded = {} /\ readers = {}

Walk == Skip \/ Reuse \/ Call \/ Arm \/ Pause \/ Succeed \/ AttemptAgain \/ Fail \/ Handled
        \/ EnterLoop \/ EnterRouter \/ Replay \/ Answer \/ NoAnswer \/ NextChild \/ Leave

Next == Start \/ Walk \/ ResolveFails \/ Flush \/ Upload \/ SendReport \/ Complete
        \/ Signal \/ Retry \/ Redeliver \/ Kill

Spec == Init /\ [][Next]_vars

\* The worker takes the job, calls return and the server takes reports; nobody has to
\* signal or to retry
FairSpec == Spec /\ WF_vars(Start \/ Walk \/ Upload \/ SendReport \/ Complete)

-----------------------------------------------------------------------------
(* Properties *)

Statuses == {"RUNNING", "PAUSED", "SUCCEEDED", "FAILED"}
IsKey(k) == k[2] \in Steps /\ \A n \in 1..Len(k[1]) : k[1][n][1] \in Steps /\ k[1][n][2] \in Nat
IsJournal(j) == \A k \in DOMAIN j : IsKey(k) /\ j[k].status \in Statuses /\ j[k].routes \subseteq Nat

\* Everything is of its type, the iterations recorded are of recorded loops, and a verdict
\* other than RUNNING has emptied the stack.
TypeOK ==
    /\ flow \in Flows
    /\ job \in {BeginJob, ResumeJob("waitpoint"), ResumeJob("retry")}
    /\ phase \in {"idle", "queued", "executing", "uploaded", "reported"}
    /\ IsJournal(journal) /\ IsJournal(log)
    /\ \A k \in DOMAIN journal : EnclosingLoops(k) \subseteq DOMAIN journal
    /\ \A n \in 1..Len(stack) : /\ IsKey(<<stack[n].path, stack[n].step>>)
                                /\ stack[n].at \in {"enter", "calling", "handled", "inside", "left"}
                                /\ stack[n].i \in Nat /\ stack[n].todo \subseteq Nat
    /\ verdict.is \in Statuses /\ (verdict # Running => stack = <<>>)
    /\ status.is \in Statuses \cup {"TIMEOUT"}
    /\ {verdict.failed, status.failed} \subseteq Steps \cup {NoStep}
    /\ \A k \in armed \cup succeeded \cup readers : IsKey(k)
    /\ retriesDone \in 0..MaxRetries
    /\ faults \subseteq Faults

Calls == IF At("calling") THEN {Key} ELSE {}
Begun == Calls' \ Calls

\* Over all the pauses, failures and retries of a run, a step that succeeded is never called
\* again (its call may have charged a card): the restore, the walk over loops and branches
\* and the stored answers of AI routers leave it where it was.
SucceedsOnce == [][\A k \in Begun : k \notin succeeded]_vars

\* The same for a job delivered twice, as far as the log goes: a job that resumes a run
\* calls no step that the log records as succeeded, except in a loop that is to be retried.
SavedStepsAreReused ==
    [][job.kind = "resume" => \A k \in Begun :
          Has(log, k, "SUCCEEDED") => \E e \in EnclosingLoops(k) : Has(log, e, "FAILED")]_vars

\* A call starts only when the step before it was passed and nothing else that is recorded
\* hangs: no other step is paused, and none has failed without being allowed to.
Passed(k) == \/ Has(journal, k, "SUCCEEDED")
             \/ Has(journal, k, "FAILED") /\ k[2] \in flow.continues
CalledInOrder ==
    [][\A k \in Begun : /\ \A j \in DOMAIN journal \ {k} : Passed(j)
                        /\ \A s \in Steps \ flow.skipped :
                              flow.next[s] = k[2] => Passed(<<k[1], s>>)]_vars

\* The payload of one signal is read by one step: a later step that paused as well waits for
\* a signal of its own.
PayloadIsReadOnce == Cardinality(readers) <= 1

\* A run waits for one step at a time, and can be resumed: a PAUSED run has exactly one
\* paused step in its log and that step's waitpoint is pending.
AwaitsOneStep ==
    phase = "idle" /\ status.is = "PAUSED" =>
        \E k \in armed : {j \in DOMAIN log : log[j].status = "PAUSED"} = {k}

\* Of an AI router that takes the best route, one route runs per pass of the flow over it,
\* whatever is answered, resumed or retried after.
OneRoute ==
    \A k \in DOMAIN journal :
        flow.kind[k[2]] = "ai" /\ k[2] \notin flow.takesAll =>
            Cardinality({n \in DOMAIN flow.children[k[2]] :
                            <<k[1], flow.children[k[2]][n]>> \in DOMAIN journal}) <= 1

\* Crashes, deploys, pauses and retries alike cost at most the step that was running: no step
\* that the log records as succeeded is called again.  (Not so in a run's first job.)
FinishedStepsAreReused == [][\A k \in Begun : ~Has(log, k, "SUCCEEDED")]_vars

\* Every job that is queued is done with in the end, whatever the flow and the faults.
JobsEnd == phase # "idle" ~> phase = "idle"
=============================================================================
