-------------------------- MODULE JobLimits_proofs --------------------------
(***************************************************************************)
(* Proofs about JobDispatch: as long as no connection breaks, no lock      *)
(* lapses under a running job, no dequeue or cleanup fails half-way, no    *)
(* handler is too slow and the app does not die, no more flows run than    *)
(* the pool allows, and one poll; and the types of its variables.          *)
(***************************************************************************)
EXTENDS JobDispatch_proofs, SequenceTheorems, FiniteSetTheorems

USE DEF queueVars, limitVars, appVars, workerVars

(***************************************************************************)
(* Sequences without repetition.                                           *)
(***************************************************************************)
\* Without its element at i a sequence has the others, each once.
LEMMA RemoveAtFacts ==
    ASSUME NEW S, NEW s \in Seq(S), IsInjective(s), NEW i \in 1..Len(s)
    PROVE  /\ RemoveAt(s, i) \in Seq(S) /\ IsInjective(RemoveAt(s, i))
           /\ \A n \in DOMAIN RemoveAt(s, i) : \E h \in DOMAIN s : h # i /\ RemoveAt(s, i)[n] = s[h]
<1> DEFINE r == RemoveAt(s, i)
<1> DEFINE a == SubSeq(s, 1, i - 1)
           b == SubSeq(s, i + 1, Len(s))
<1>1. /\ a \in Seq(S) /\ Len(a) = i - 1
      /\ \A n \in 1..i - 1 : a[n] = s[n]
    OBVIOUS
<1>2. /\ b \in Seq(S) /\ Len(b) = Len(s) - i
      /\ \A n \in 1..Len(s) - i : b[n] = s[n + i]
    OBVIOUS
<1>3. /\ r \in Seq(S) /\ Len(r) = Len(s) - 1
      /\ \A n \in 1..Len(s) - 1 : r[n] = IF n < i THEN s[n] ELSE s[n + 1]
  <2>1. r = a \o b
      BY DEF RemoveAt
  <2>2. Len(s) \in Nat /\ i \in Nat /\ 1 <= i /\ i <= Len(s)
      OBVIOUS
  <2> HIDE DEF a, b, r
  <2>3. /\ r \in Seq(S) /\ Len(r) = Len(a) + Len(b)
        /\ \A n \in 1..Len(r) : r[n] = IF n <= Len(a) THEN a[n] ELSE b[n - Len(a)]
    <3>1. a \in Seq(S) /\ b \in Seq(S)
        BY <1>1, <1>2
    <3>2. /\ a \o b \in Seq(S) /\ Len(a \o b) = Len(a) + Len(b)
          /\ \A n \in 1..Len(a) + Len(b) : (a \o b)[n] = IF n <= Len(a) THEN a[n] ELSE b[n - Len(a)]
        BY <3>1, ConcatProperties
    <3> QED
        BY <2>1, <3>2
  <2>4. Len(r) = Len(s) - 1
      BY <1>1, <1>2, <2>2, <2>3
  <2>5. ASSUME NEW n \in 1..Len(s) - 1 PROVE r[n] = IF n < i THEN s[n] ELSE s[n + 1]
    <3>1. CASE n < i
        BY <1>1, <2>2, <2>3, <2>4, <3>1
    <3>2. CASE n >= i
      <4>1. n \in 1..Len(r) /\ ~(n <= i - 1) /\ n - (i - 1) \in 1..Len(s) - i
          BY <2>2, <2>4, <3>2
      <4>2. r[n] = b[n - Len(a)] /\ Len(a) = i - 1
          BY <1>1, <2>3, <4>1
      <4> QED
          BY <1>2, <2>2, <3>2, <4>1, <4>2
    <3> QED
        BY <2>2, <3>1, <3>2
  <2> QED
      BY <2>3, <2>4, <2>5
<1> HIDE DEF r
<1>4. DOMAIN r = 1..Len(s) - 1 /\ DOMAIN s = 1..Len(s) /\ Len(s) \in Nat
    BY <1>3
<1>5. \A n \in DOMAIN r : \E h \in DOMAIN s : h # i /\ r[n] = s[h]
  <2> TAKE n \in DOMAIN r
  <2>1. CASE n < i
      BY <1>3, <1>4, <2>1
  <2>2. CASE n >= i
      BY <1>3, <1>4, <2>2
  <2> QED
      BY <1>4, <2>1, <2>2
<1>6. IsInjective(r)
  <2> SUFFICES ASSUME NEW m \in DOMAIN r, NEW n \in DOMAIN r, r[m] = r[n] PROVE m = n
      BY DEF IsInjective
  <2> DEFINE Of(k) == IF k < i THEN k ELSE k + 1
  <2>1. s[Of(m)] = s[Of(n)] /\ Of(m) \in DOMAIN s /\ Of(n) \in DOMAIN s
      BY <1>3, <1>4
  <2>2. Of(m) = Of(n)
      BY <2>1 DEF IsInjective
  <2> QED
      BY <1>4, <2>2
<1> QED
    BY <1>3, <1>5, <1>6 DEF r

\* Without its first i elements a sequence has the others, each once.
LEMMA SuffixFacts ==
    ASSUME NEW S, NEW s \in Seq(S), IsInjective(s), NEW i \in 0..Len(s)
    PROVE  /\ SubSeq(s, i + 1, Len(s)) \in Seq(S) /\ IsInjective(SubSeq(s, i + 1, Len(s)))
           /\ \A n \in DOMAIN SubSeq(s, i + 1, Len(s)) :
                  \E h \in DOMAIN s : h > i /\ SubSeq(s, i + 1, Len(s))[n] = s[h]
<1> DEFINE r == SubSeq(s, i + 1, Len(s))
<1>1. /\ r \in Seq(S) /\ Len(r) = Len(s) - i
      /\ \A n \in 1..Len(s) - i : r[n] = s[n + i]
    OBVIOUS
<1> HIDE DEF r
<1>2. DOMAIN r = 1..Len(s) - i /\ DOMAIN s = 1..Len(s) /\ Len(s) \in Nat
    BY <1>1
<1>3. \A n \in DOMAIN r : \E h \in DOMAIN s : h > i /\ r[n] = s[h]
  <2> TAKE n \in DOMAIN r
  <2>1. n + i \in DOMAIN s /\ n + i > i /\ r[n] = s[n + i]
      BY <1>1, <1>2
  <2> QED
      BY <2>1
<1>4. IsInjective(r)
  <2> SUFFICES ASSUME NEW m \in DOMAIN r, NEW n \in DOMAIN r, r[m] = r[n] PROVE m = n
      BY DEF IsInjective
  <2>1. s[m + i] = s[n + i] /\ m + i \in DOMAIN s /\ n + i \in DOMAIN s
      BY <1>1, <1>2
  <2>2. m + i = n + i
      BY <2>1 DEF IsInjective
  <2> QED
      BY <1>2, <2>2
<1> QED
    BY <1>1, <1>3, <1>4 DEF r

\* An element that was not there is there once when it is appended.
LEMMA AppendFacts ==
    ASSUME NEW S, NEW s \in Seq(S), IsInjective(s), NEW x \in S, \A i \in DOMAIN s : s[i] # x
    PROVE  /\ Append(s, x) \in Seq(S) /\ IsInjective(Append(s, x))
           /\ \A n \in DOMAIN Append(s, x) : Append(s, x)[n] = x \/ \E h \in DOMAIN s : Append(s, x)[n] = s[h]
<1> DEFINE r == Append(s, x)
<1>1. /\ r \in Seq(S) /\ Len(r) = Len(s) + 1 /\ r[Len(s) + 1] = x
      /\ \A n \in 1..Len(s) : r[n] = s[n]
    OBVIOUS
<1> HIDE DEF r
<1>2. DOMAIN r = 1..Len(s) + 1 /\ DOMAIN s = 1..Len(s) /\ Len(s) \in Nat
    BY <1>1
<1>3. \A n \in DOMAIN r : r[n] = x \/ \E h \in DOMAIN s : r[n] = s[h]
  <2> TAKE n \in DOMAIN r
  <2>1. n \in DOMAIN s \/ n = Len(s) + 1
      BY <1>2
  <2> QED
      BY <1>1, <1>2, <2>1
<1>4. IsInjective(r)
  <2> SUFFICES ASSUME NEW m \in DOMAIN r, NEW n \in DOMAIN r, r[m] = r[n] PROVE m = n
      BY DEF IsInjective
  <2>1. /\ m \in DOMAIN s \/ m = Len(s) + 1
        /\ n \in DOMAIN s \/ n = Len(s) + 1
      BY <1>2
  <2> QED
      BY <1>1, <1>2, <2>1 DEF IsInjective
<1> QED
    BY <1>1, <1>3, <1>4 DEF r

\* Removing an element leaves the others, each once.
LEMMA RemoveFirstFacts ==
    ASSUME NEW S, NEW s \in Seq(S), IsInjective(s), NEW x
    PROVE  /\ RemoveFirst(s, x) \in Seq(S) /\ IsInjective(RemoveFirst(s, x))
           /\ \A n \in DOMAIN RemoveFirst(s, x) :
                  RemoveFirst(s, x)[n] # x /\ \E h \in DOMAIN s : RemoveFirst(s, x)[n] = s[h]
<1>1. DOMAIN s = 1..Len(s)
    OBVIOUS
<1>2. CASE \E i \in 1..Len(s) : s[i] = x
  <2>1. PICK i \in 1..Len(s) : s[i] = x
      BY <1>2
  <2>2. {n \in 1..Len(s) : s[n] = x} = {i}
      BY <1>1, <2>1 DEF IsInjective
  <2>3. Min({i}) = i
      BY DEF Min
  <2>4. SelectInSeq(s, LAMBDA v : v = x) = i
      BY <2>2, <2>3 DEF SelectInSeq
  <2>5. RemoveFirst(s, x) = RemoveAt(s, i)
      BY <1>2, <2>4 DEF RemoveFirst
  <2>6. \A h \in DOMAIN s : h # i => s[h] # x
      BY <1>1, <2>1 DEF IsInjective
  <2> QED
      BY <2>1, <2>5, <2>6, RemoveAtFacts
<1>3. CASE ~\E i \in 1..Len(s) : s[i] = x
  <2>1. RemoveFirst(s, x) = s
      BY <1>3 DEF RemoveFirst
  <2> QED
      BY <1>1, <1>3, <2>1
<1> QED
    BY <1>2, <1>3

(***************************************************************************)
(* The invariants.                                                         *)
(***************************************************************************)
\* The pool parks each job once, and connections wait for a job
QueuesOfTheApp ==
    /\ parked \in Seq(FlowJobs) /\ IsInjective(parked)
    /\ waiters \in Seq(Connections)
    /\ \A k \in tasks : /\ k.step = "delete" => k.held.job \in PollJobs
                        /\ k.step = "promote" => k.held.job \in FlowJobs

InPark(j) == \E i \in DOMAIN parked : parked[i] = j

Undisturbed == faults \subseteq Harmless

\* Worker and app agree on every connection
AllConnected ==
    /\ \A w \in Workers : conn[w] # 0 => Online(w)
    /\ \A c \in open : conn[c[1]] = c[2]
    /\ killed = {}

\* A worker waits once, over its connection, and executes nothing meanwhile
WaitersPoll ==
    /\ IsInjective(waiters)
    /\ \A i \in DOMAIN waiters :
           waiters[i] \in open /\ work[waiters[i][1]] = [at |-> "polling", held |-> {}]

\* A delivery is reported or returned once
OneTask == \A k \in tasks, l \in tasks : k.held = l.held => k = l

\* A delivery that has passed the interceptors, up to the release of what it acquired
Acquired(d) ==
    \/ loop.at = "hand" /\ d \in loop.held
    \/ \E w \in Workers : d \in work[w].held
    \/ \E k \in tasks : k.held = d /\ k.step # "promote"

FlowDelivery == {d \in Delivery : d.job \in FlowJobs}
PollDelivery == {d \in Delivery : d.job \in PollJobs}

\* A flow that is reported or returned is locked until it is moved, and is not due again before
\* its slot is released
TasksHold ==
    \A k \in tasks : k.held.job \in FlowJobs =>
        /\ k.step = "move" => lock[k.held.job] = k.held.token
        /\ k.step = "release" => /\ queue[k.held.job] # "waiting"
                                 /\ queue[k.held.job] = "active" => lock[k.held.job] = k.held.token

\* What has passed the rate limiter is not parked and has the slot, and a slot is of such a
\* delivery
NotParked      == \A d \in FlowDelivery : Acquired(d) => ~InPark(d.job)
SlotOfAcquired == \A d \in FlowDelivery : Acquired(d) => slot[d.job] = d.token
SlotIsAcquired == \A j \in Slots : Acquired([job |-> j, token |-> slot[j]])
SlotsAreFew    == IsFiniteSet(Slots) /\ Cardinality(Slots) <= Limit

\* What has passed the polling interceptor holds the lock of the flow version
PollOfAcquired == \A d \in PollDelivery : Acquired(d) => polling = {d}

Limits ==
    /\ AllConnected
    /\ WaitersPoll
    /\ OneTask
    /\ TasksHold
    /\ NotParked
    /\ SlotOfAcquired
    /\ SlotIsAcquired
    /\ SlotsAreFew
    /\ PollOfAcquired

LInv == Inv /\ QueuesOfTheApp /\ (Undisturbed => Limits)

(***************************************************************************)
(* Which steps touch what.                                                 *)
(***************************************************************************)
\* The steps that park a job or take it out.
LEMMA ParkedSteps ==
    ASSUME [Next]_vars
    PROVE  \/ UNCHANGED parked
           \/ \E d \in loop.held : CheckFlow(d)
           \/ \E k \in tasks : Promote(k) \/ CleanupFails(k)
<1>1. ASSUME NEW w \in Workers, WorkerStep(w) PROVE UNCHANGED parked
    BY <1>1 DEF WorkerStep, Connect, Poll, PollTimesOut, Drop, Finish, LateReport, LateReportIsLost
<1>2. ASSUME NEW d \in loop.held, LoopStep(d) \/ DequeueFails(d), ~CheckFlow(d)
      PROVE  UNCHANGED parked
    BY <1>2 DEF LoopStep, DequeueFails, CheckPoll, Reject, Discard, HandOver, Orphan, LoopGoesOn
<1>3. ASSUME NEW k \in tasks, TaskStep(k), ~Promote(k), ~CleanupFails(k) PROVE UNCHANGED parked
    BY <1>3 DEF TaskStep, ReportOfGone, Complete, Return, ReleaseSlot, ReadPollingLock,
         DeletePollingLock
<1>4. ASSUME NEW c \in Connections, Disconnect(c) PROVE UNCHANGED parked
    BY <1>4 DEF Disconnect
<1>5. ASSUME NEW j \in Jobs, QueueStep(j) PROVE UNCHANGED parked
    BY <1>5 DEF QueueStep, Dequeue, FailDeferred, Due, Lapse, StalledScan
<1>6. ASSUME NEW j \in FlowJobs, SlotExpires(j) PROVE UNCHANGED parked
    BY <1>6 DEF SlotExpires
<1>7. CASE PollingLockExpires \/ Disable \/ AppDies \/ UNCHANGED vars
    BY <1>7 DEF PollingLockExpires, Disable, AppDies, vars
<1> QED
    BY <1>1, <1>2, <1>3, <1>4, <1>5, <1>6, <1>7, NextSteps

\* The steps that take the polling lock or end it.
LEMMA PollingSteps ==
    ASSUME [Next]_vars
    PROVE  \/ UNCHANGED polling
           \/ \E d \in loop.held : CheckPoll(d)
           \/ \E k \in tasks : DeletePollingLock(k)
           \/ PollingLockExpires
<1>1. ASSUME NEW w \in Workers, WorkerStep(w) PROVE UNCHANGED polling
    BY <1>1 DEF WorkerStep, Connect, Poll, PollTimesOut, Drop, Finish, LateReport, LateReportIsLost
<1>2. ASSUME NEW d \in loop.held, LoopStep(d) \/ DequeueFails(d), ~CheckPoll(d)
      PROVE  UNCHANGED polling
    BY <1>2 DEF LoopStep, DequeueFails, CheckFlow, Reject, Discard, HandOver, Orphan, LoopGoesOn
<1>3. ASSUME NEW k \in tasks, TaskStep(k), ~DeletePollingLock(k) PROVE UNCHANGED polling
    BY <1>3 DEF TaskStep, ReportOfGone, Complete, Return, ReleaseSlot, Promote, ReadPollingLock,
         CleanupFails
<1>4. ASSUME NEW c \in Connections, Disconnect(c) PROVE UNCHANGED polling
    BY <1>4 DEF Disconnect
<1>5. ASSUME NEW j \in Jobs, QueueStep(j) PROVE UNCHANGED polling
    BY <1>5 DEF QueueStep, Dequeue, FailDeferred, Due, Lapse, StalledScan
<1>6. ASSUME NEW j \in FlowJobs, SlotExpires(j) PROVE UNCHANGED polling
    BY <1>6 DEF SlotExpires
<1>7. CASE Disable \/ AppDies \/ UNCHANGED vars
    BY <1>7 DEF Disable, AppDies, vars
<1> QED
    BY <1>1, <1>2, <1>3, <1>4, <1>5, <1>6, <1>7, NextSteps

\* The steps that add to the waiters or take from them.
LEMMA WaitersSteps ==
    ASSUME [Next]_vars
    PROVE  \/ UNCHANGED waiters
           \/ \E w \in Workers : Poll(w) \/ PollTimesOut(w)
           \/ \E d \in loop.held : HandOver(d) \/ Orphan(d)
           \/ AppDies
<1>1. ASSUME NEW w \in Workers, WorkerStep(w), ~Poll(w), ~PollTimesOut(w) PROVE UNCHANGED waiters
    BY <1>1 DEF WorkerStep, Connect, Drop, Finish, LateReport, LateReportIsLost
<1>2. ASSUME NEW d \in loop.held, LoopStep(d) \/ DequeueFails(d), ~HandOver(d), ~Orphan(d)
      PROVE  UNCHANGED waiters
    BY <1>2 DEF LoopStep, DequeueFails, CheckFlow, CheckPoll, Reject, Discard, LoopGoesOn
<1>3. ASSUME NEW k \in tasks, TaskStep(k) PROVE UNCHANGED waiters
    BY <1>3 DEF TaskStep, ReportOfGone, Complete, Return, ReleaseSlot, Promote, ReadPollingLock,
         DeletePollingLock, CleanupFails
<1>4. ASSUME NEW c \in Connections, Disconnect(c) PROVE UNCHANGED waiters
    BY <1>4 DEF Disconnect
<1>5. ASSUME NEW j \in Jobs, QueueStep(j) PROVE UNCHANGED waiters
    BY <1>5 DEF QueueStep, Dequeue, FailDeferred, Due, Lapse, StalledScan
<1>6. ASSUME NEW j \in FlowJobs, SlotExpires(j) PROVE UNCHANGED waiters
    BY <1>6 DEF SlotExpires
<1>7. CASE PollingLockExpires \/ Disable \/ UNCHANGED vars
    BY <1>7 DEF PollingLockExpires, Disable, vars
<1> QED
    BY <1>1, <1>2, <1>3, <1>4, <1>5, <1>6, <1>7, NextSteps

(***************************************************************************)
(* Parked jobs and waiters.                                                *)
(***************************************************************************)
\* Promotion pops no more entries than there are.
LEMMA PoppedFacts ==
    ASSUME parked \in Seq(FlowJobs)
    PROVE  Popped \in 0..Len(parked)
<1> DEFINE D == {i \in DOMAIN parked : queue[parked[i]] = "delayed"}
           M == {3, Len(parked)} \cup D
<1>1. Popped = Min(M)
    BY DEF Popped
<1>2. Len(parked) \in Nat /\ DOMAIN parked = 1..Len(parked)
    OBVIOUS
<1>3. Len(parked) \in M /\ 3 \in M /\ \A x \in M : x \in Nat /\ (Len(parked) # 0 => x > 0)
  <2>1. \A x \in D : x \in 1..Len(parked)
      BY <1>2
  <2> HIDE DEF D
  <2>2. \A x \in M : x = 3 \/ x = Len(parked) \/ x \in 1..Len(parked)
      BY <2>1
  <2>3. Len(parked) \in M /\ 3 \in M
      OBVIOUS
  <2> HIDE DEF M
  <2>4. \A n \in Nat : \A x : (x = 3 \/ x = n \/ x \in 1..n) => x \in Nat /\ (n # 0 => x > 0)
      OBVIOUS
  <2> QED
      BY <1>2, <2>2, <2>3, <2>4
<1> HIDE DEF M
<1>4. \E m \in M : \A x \in M : m <= x
  <2>1. CASE Len(parked) = 0
      BY <1>3, <2>1
  <2>2. CASE Len(parked) # 0 /\ 1 \in M
      BY <1>3, <2>2
  <2>3. CASE Len(parked) # 0 /\ 1 \notin M /\ 2 \in M
    <3>1. \A x \in M : 2 <= x
        BY <1>3, <2>3
    <3> QED
        BY <2>3, <3>1
  <2>4. CASE Len(parked) # 0 /\ 1 \notin M /\ 2 \notin M
    <3>1. \A x \in M : 3 <= x
      <4> TAKE x \in M
      <4>1. x \in Nat /\ x > 0 /\ x # 1 /\ x # 2
          BY <1>3, <2>4
      <4> QED
          BY <4>1
    <3> QED
        BY <1>3, <3>1
  <2> QED
      BY <2>1, <2>2, <2>3, <2>4
<1>5. Min(M) \in M /\ Min(M) <= Len(parked)
    BY <1>3, <1>4 DEF Min
<1> QED
    BY <1>1, <1>2, <1>3, <1>5

\* What the rate limiter's script does to the parked jobs.
LEMMA CheckFlowParks ==
    ASSUME Types, QueuesOfTheApp, NEW d \in loop.held, CheckFlow(d)
    PROVE  /\ parked' \in Seq(FlowJobs) /\ IsInjective(parked')
           /\ \A j : InPark(j)' => InPark(j) \/ (j = d.job /\ loop' = At("reject", d))
           /\ loop' = At("hand", d) => ~InPark(d.job)'
<1> DEFINE r == RemoveFirst(parked, d.job)
<1>1. /\ r \in Seq(FlowJobs) /\ IsInjective(r)
      /\ \A n \in DOMAIN r : r[n] # d.job /\ \E h \in DOMAIN parked : r[n] = parked[h]
    BY RemoveFirstFacts DEF QueuesOfTheApp
<1>2. d.job \in FlowJobs
    BY DEF CheckFlow
<1>3. \/ parked' = r /\ loop' = At("hand", d)
      \/ parked' = Append(r, d.job) /\ loop' = At("reject", d)
    BY DEF CheckFlow, AcquireSlot
<1> HIDE DEF r
<1>4. CASE parked' = r /\ loop' = At("hand", d)
    BY <1>1, <1>4 DEF InPark
<1>5. CASE parked' = Append(r, d.job) /\ loop' = At("reject", d)
  <2>1. /\ Append(r, d.job) \in Seq(FlowJobs) /\ IsInjective(Append(r, d.job))
        /\ \A n \in DOMAIN Append(r, d.job) :
               Append(r, d.job)[n] = d.job \/ \E h \in DOMAIN r : Append(r, d.job)[n] = r[h]
      BY <1>1, <1>2, AppendFacts
  <2>2. loop' # At("hand", d)
      BY <1>5 DEF At
  <2>3. \A j : InPark(j)' => j = d.job \/ \E h \in DOMAIN r : r[h] = j
      BY <1>5, <2>1 DEF InPark
  <2>4. \A j : (\E h \in DOMAIN r : r[h] = j) => InPark(j)
      BY <1>1 DEF InPark
  <2> QED
      BY <1>5, <2>1, <2>2, <2>3, <2>4
<1> QED
    BY <1>3, <1>4, <1>5

\* A promotion takes parked jobs out, and one of them out of "delayed".
LEMMA PromoteUnparks ==
    ASSUME QueuesOfTheApp, NEW k \in tasks, Promote(k)
    PROVE  /\ parked' \in Seq(FlowJobs) /\ IsInjective(parked')
           /\ \A j : InPark(j)' => InPark(j)
           /\ \A j \in Jobs : queue'[j] # queue[j] => InPark(j)
<1>1. Popped \in 0..Len(parked)
    BY PoppedFacts DEF QueuesOfTheApp
<1>2. parked' = SubSeq(parked, Popped + 1, Len(parked))
    BY DEF Promote
<1>3. /\ parked' \in Seq(FlowJobs) /\ IsInjective(parked')
      /\ \A n \in DOMAIN parked' : \E h \in DOMAIN parked : parked'[n] = parked[h]
    BY <1>1, <1>2, SuffixFacts DEF QueuesOfTheApp
<1>4. Popped # 0 => Popped \in DOMAIN parked
    BY <1>1 DEF QueuesOfTheApp
<1>5. \A j \in Jobs : queue'[j] # queue[j] => Popped # 0 /\ j = parked[Popped]
    BY DEF Promote
<1> QED
    BY <1>3, <1>4, <1>5 DEF InPark

\* A cleanup that fails may have taken parked jobs out.
LEMMA FailureUnparks ==
    ASSUME QueuesOfTheApp, NEW k \in tasks, CleanupFails(k)
    PROVE  parked' \in Seq(FlowJobs) /\ IsInjective(parked')
<1>1. Popped \in 0..Len(parked)
    BY PoppedFacts DEF QueuesOfTheApp
<1>2. PICK n \in 0..(IF k.step = "promote" THEN Popped ELSE 0) : parked' = SubSeq(parked, n + 1, Len(parked))
    BY DEF CleanupFails
<1>3. Len(parked) \in Nat
    BY DEF QueuesOfTheApp
<1>4. n \in 0..Len(parked)
    BY <1>1, <1>2, <1>3
<1> QED
    BY <1>2, <1>4, SuffixFacts DEF QueuesOfTheApp

\* The sequences keep their types, and tasks take only the steps of their kind of job.
LEMMA NextQueuesOfTheApp ==
    ASSUME Inv, QueuesOfTheApp, [Next]_vars
    PROVE  QueuesOfTheApp'
<1>1. Types
    BY DEF Inv
<1>2. parked' \in Seq(FlowJobs) /\ IsInjective(parked')
    BY <1>1, CheckFlowParks, PromoteUnparks, FailureUnparks, ParkedSteps DEF QueuesOfTheApp
<1>3. waiters' \in Seq(Connections)
  <2>1. ASSUME NEW w \in Workers, Poll(w) PROVE waiters' \in Seq(Connections)
    <3>1. <<w, conn[w]>> \in Connections
        BY <1>1, <2>1 DEF Poll, Online, Types, AppTypes
    <3> QED
        BY <2>1, <3>1 DEF Poll, QueuesOfTheApp
  <2>2. ASSUME NEW w \in Workers, PollTimesOut(w) PROVE waiters' \in Seq(Connections)
    <3>1. PICK i \in DOMAIN waiters : waiters' = RemoveAt(waiters, i)
        BY <2>2 DEF PollTimesOut
    <3>2. /\ waiters \in Seq(Connections) /\ i \in 1..Len(waiters)
        BY DEF QueuesOfTheApp
    <3>3. SubSeq(waiters, 1, i - 1) \in Seq(Connections) /\ SubSeq(waiters, i + 1, Len(waiters)) \in Seq(Connections)
        BY <3>2
    <3> QED
        BY <3>1, <3>3, ConcatProperties DEF RemoveAt
  <2>3. ASSUME NEW d \in loop.held, HandOver(d) PROVE waiters' \in Seq(Connections)
    <3>1. PICK i \in DOMAIN waiters : waiters' = SubSeq(waiters, i + 1, Len(waiters))
        BY <2>3 DEF HandOver, FirstConnected
    <3>2. waiters \in Seq(Connections) /\ i \in 1..Len(waiters)
        BY DEF QueuesOfTheApp
    <3> QED
        BY <3>1, <3>2
  <2>4. ASSUME NEW d \in loop.held, Orphan(d) PROVE waiters' \in Seq(Connections)
      BY <2>4 DEF Orphan
  <2>5. ASSUME AppDies PROVE waiters' \in Seq(Connections)
      BY <2>5 DEF AppDies
  <2> QED
      BY <2>1, <2>2, <2>3, <2>4, <2>5, WaitersSteps DEF QueuesOfTheApp
<1>4. \A l \in tasks' : /\ l.step = "delete" => l.held.job \in PollJobs
                        /\ l.step = "promote" => l.held.job \in FlowJobs
  <2> DEFINE Fit(l) == /\ l.step = "delete" => l.held.job \in PollJobs
                       /\ l.step = "promote" => l.held.job \in FlowJobs
  <2>1. \A l \in tasks : Fit(l)
      BY DEF QueuesOfTheApp
  <2>2. \A d, kind : Fit([held |-> d, kind |-> kind, step |-> "move"])
      OBVIOUS
  <2> HIDE DEF Fit
  <2>3. ASSUME NEW k \in tasks, TaskStep(k) PROVE \A l \in tasks' : Fit(l)
    <3>1. k \in Task
        BY <1>1 DEF Types, AppTypes
    <3>2. \A step : [k EXCEPT !.step = step].held = k.held /\ [k EXCEPT !.step = step].step = step
        BY <3>1 DEF Task
    <3>3. \/ Ends(k)
          \/ GoesOn(k, "release")
          \/ GoesOn(k, "promote") /\ k.held.job \in FlowJobs
          \/ GoesOn(k, "delete") /\ k.held.job \in PollJobs
        BY <2>3 DEF TaskStep, ReportOfGone, Complete, Return, ReleaseSlot, Promote, ReadPollingLock,
             DeletePollingLock, CleanupFails
    <3>4. ASSUME NEW step \in {"release", "promote", "delete"}, GoesOn(k, step),
                 step = "promote" => k.held.job \in FlowJobs, step = "delete" => k.held.job \in PollJobs
          PROVE  \A l \in tasks' : Fit(l)
      <4>1. Fit([k EXCEPT !.step = step])
          BY <3>2, <3>4 DEF Fit
      <4> QED
          BY <2>1, <3>4, <4>1 DEF GoesOn
    <3> QED
        BY <2>1, <3>3, <3>4 DEF Ends
  <2>4. ASSUME NEW l \in tasks', ~\E k \in tasks : TaskStep(k) PROVE Fit(l)
    <3> DEFINE New == \E d, kind : l = [held |-> d, kind |-> kind, step |-> "move"]
    <3>1. l \in tasks \/ New
      <4>1. ASSUME NEW d \in loop.held, Orphan(d) PROVE l \in tasks \/ New
          BY <4>1 DEF Orphan
      <4>2. ASSUME NEW c \in Connections, Disconnect(c) PROVE l \in tasks \/ New
          BY <4>2 DEF Disconnect
      <4>3. ASSUME NEW w \in Workers, NEW d \in work[w].held, NEW kind \in {"ok", "fail"}, Finish(w, d, kind)
            PROVE  l \in tasks \/ New
          BY <4>3 DEF Finish
      <4>4. ASSUME NEW w \in Workers, NEW x \in killed, LateReport(w, x[2]) PROVE l \in tasks \/ New
          BY <4>4 DEF LateReport
      <4>5. ~AppDies
          BY DEF AppDies
      <4> QED
          BY <2>4, <4>1, <4>2, <4>3, <4>4, <4>5, TaskSteps
    <3> QED
        BY <2>1, <2>2, <3>1
  <2> QED
      BY <2>3, <2>4 DEF Fit
<1> QED
    BY <1>2, <1>3, <1>4 DEF QueuesOfTheApp

(***************************************************************************)
(* Connections, waiters and tasks, undisturbed.                            *)
(***************************************************************************)
\* What did not happen.
LEMMA NothingBreaks ==
    ASSUME [Next]_vars, Undisturbed'
    PROVE  /\ Undisturbed
           /\ {"drop", "lapse", "dequeue", "slow"} \cap faults' = {}
           /\ ~AppDies
           /\ \A k \in tasks : ~CleanupFails(k)
<1>1. Undisturbed /\ {"drop", "lapse", "dequeue", "slow", "cleanup", "crash"} \cap faults' = {}
    BY FaultsGrow DEF Undisturbed, Harmless
<1>2. ASSUME AppDies PROVE FALSE
    BY <1>1, <1>2 DEF AppDies, Happens
<1>3. ASSUME NEW k \in tasks, CleanupFails(k) PROVE FALSE
    BY <1>1, <1>3 DEF CleanupFails, Happens
<1> QED
    BY <1>1, <1>2, <1>3

\* Nobody leaves a connection.
LEMMA NextAllConnected ==
    ASSUME Inv, AllConnected, [Next]_vars, Undisturbed'
    PROVE  /\ AllConnected'
           /\ \A w \in Workers : ~Drop(w)
           /\ \A c \in Connections : ~Disconnect(c)
           /\ ~AppDies
           /\ \A k \in tasks : ~CleanupFails(k)
<1> USE DEF Inv, Types
<1>1. "drop" \notin faults'
    BY NothingBreaks
<1>2. ASSUME NEW w \in Workers, Drop(w) PROVE FALSE
    BY <1>1, <1>2 DEF Drop, AllConnected, Breaks
<1>3. ASSUME NEW c \in Connections, Disconnect(c) PROVE FALSE
    BY <1>1, <1>3 DEF Disconnect, AllConnected, Breaks
<1>4. ASSUME NEW w \in Workers, WorkerStep(w) PROVE AllConnected'
  <2>1. CASE Connect(w)
    <3>1. /\ conn' = [conn EXCEPT ![w] = made'] /\ open' = open \cup {<<w, made'>>}
          /\ conn[w] = 0 /\ UNCHANGED killed
        BY <2>1 DEF Connect
    <3>2. \A c \in open : c[1] # w /\ c[1] \in Workers
      <4> TAKE c \in open
      <4>1. c[1] \in Workers /\ c[2] # 0 /\ conn[c[1]] = c[2]
          BY DEF AppTypes, Connections, AllConnected
      <4> QED
          BY <3>1, <4>1
    <3>3. conn'[w] = made' /\ \A v \in Workers \ {w} : conn'[v] = conn[v]
        BY <3>1 DEF WorkerTypes
    <3> QED
        BY <3>1, <3>2, <3>3 DEF AllConnected, Online
  <2>2. CASE ~Connect(w)
    <3>1. UNCHANGED <<conn, open>> /\ killed' \subseteq killed
        BY <1>2, <1>4, <2>2 DEF WorkerStep, Poll, PollTimesOut, Finish, LateReport, LateReportIsLost
    <3> QED
        BY <3>1 DEF AllConnected, Online
  <2> QED
      BY <2>1, <2>2
<1>5. ASSUME NEW d \in loop.held, HandOver(d) PROVE AllConnected'
  <2>1. UNCHANGED <<open, conn, killed>>
      BY <1>5 DEF HandOver
  <2> QED
      BY <2>1 DEF AllConnected, Online
<1>6. ASSUME UNCHANGED <<open, conn, killed>> PROVE AllConnected'
    BY <1>6 DEF AllConnected, Online
<1> QED
    BY <1>2, <1>3, <1>4, <1>5, <1>6, NothingBreaks, ConnectionSteps

\* The waiter that gets the job is the worker's present connection, and executes nothing.
LEMMA Handed ==
    ASSUME Inv, QueuesOfTheApp, AllConnected, WaitersPoll, NEW d \in loop.held, HandOver(d)
    PROVE  \E i \in DOMAIN waiters :
               /\ waiters' = SubSeq(waiters, i + 1, Len(waiters))
               /\ waiters[i] \in open /\ waiters[i][1] \in Workers
               /\ work[waiters[i][1]].held = {}
               /\ work' = [work EXCEPT ![waiters[i][1]] = At("running", d)]
<1>1. PICK i \in DOMAIN waiters :
          /\ waiters[i] \in open
          /\ waiters' = SubSeq(waiters, i + 1, Len(waiters))
          /\ work' = IF conn[waiters[i][1]] = waiters[i][2]
                     THEN [work EXCEPT ![waiters[i][1]] = At("running", d)] ELSE work
    BY DEF HandOver, FirstConnected
<1>2. conn[waiters[i][1]] = waiters[i][2] /\ waiters[i][1] \in Workers
    BY <1>1 DEF AllConnected, Inv, Types, AppTypes, Connections
<1>3. work[waiters[i][1]].held = {}
    BY DEF WaitersPoll
<1> QED
    BY <1>1, <1>2, <1>3

\* A waiter that leaves leaves the others.
LEMMA WaiterLeaves ==
    ASSUME waiters \in Seq(Connections), IsInjective(waiters), NEW i \in 1..Len(waiters)
    PROVE  /\ IsInjective(RemoveAt(waiters, i))
           /\ \A n \in DOMAIN RemoveAt(waiters, i) :
                  \E h \in DOMAIN waiters : h # i /\ RemoveAt(waiters, i)[n] = waiters[h]
BY RemoveAtFacts

\* A worker has one poll waiting at a time.
LEMMA NextWaitersPoll ==
    ASSUME Inv, QueuesOfTheApp, AllConnected, WaitersPoll, [Next]_vars, Undisturbed'
    PROVE  WaitersPoll'
<1> USE DEF Inv, Types
<1>1. waiters \in Seq(Connections) /\ DOMAIN waiters = 1..Len(waiters) /\ IsInjective(waiters)
    BY DEF QueuesOfTheApp, WaitersPoll
<1>2. \A i \in DOMAIN waiters :
          /\ waiters[i] \in open /\ waiters[i] \in Connections
          /\ waiters[i][1] \in Workers
          /\ waiters[i] = <<waiters[i][1], conn[waiters[i][1]]>>
          /\ work[waiters[i][1]] = [at |-> "polling", held |-> {}]
  <2> TAKE i \in DOMAIN waiters
  <2>1. waiters[i] \in open /\ waiters[i] \in Connections
      BY DEF WaitersPoll, AppTypes
  <2>2. waiters[i] = <<waiters[i][1], waiters[i][2]>> /\ waiters[i][1] \in Workers
      BY <2>1 DEF Connections
  <2> QED
      BY <2>1, <2>2 DEF WaitersPoll, AllConnected
<1>3. \A i \in DOMAIN waiters, h \in DOMAIN waiters : waiters[i][1] = waiters[h][1] => i = h
    BY <1>1, <1>2 DEF IsInjective
<1>4. ASSUME open \subseteq open', IsInjective(waiters'),
             \A n \in DOMAIN waiters' : \E h \in DOMAIN waiters :
                 waiters'[n] = waiters[h] /\ work'[waiters[h][1]] = work[waiters[h][1]]
      PROVE  WaitersPoll'
  <2> SUFFICES ASSUME NEW n \in DOMAIN waiters'
               PROVE  waiters'[n] \in open' /\ work'[waiters'[n][1]] = [at |-> "polling", held |-> {}]
      BY <1>4 DEF WaitersPoll
  <2>1. PICK h \in DOMAIN waiters : waiters'[n] = waiters[h] /\ work'[waiters[h][1]] = work[waiters[h][1]]
      BY <1>4
  <2> QED
      BY <1>2, <1>4, <2>1
<1>5. ASSUME NEW w \in Workers, Poll(w) PROVE WaitersPoll'
  <2> DEFINE c == <<w, conn[w]>>
  <2>1. c \in open /\ work[w] = Idle /\ c \in Connections
      BY <1>5 DEF Poll, Online, AppTypes
  <2>2. \A h \in DOMAIN waiters : waiters[h][1] # w
      BY <1>2, <2>1 DEF Idle
  <2>3. \A h \in DOMAIN waiters : waiters[h] # c
      BY <2>2
  <2>4. waiters' = Append(waiters, c) /\ UNCHANGED open
        /\ work' = [work EXCEPT ![w] = [at |-> "polling", held |-> {}]]
      BY <1>5 DEF Poll
  <2>5. c[1] = w
      OBVIOUS
  <2> HIDE DEF c
  <2>6. /\ IsInjective(waiters')
        /\ \A n \in DOMAIN waiters' : waiters'[n] = c \/ \E h \in DOMAIN waiters : waiters'[n] = waiters[h]
      BY <1>1, <2>1, <2>3, <2>4, AppendFacts
  <2>7. /\ work'[w] = [at |-> "polling", held |-> {}]
        /\ \A v \in Workers \ {w} : work'[v] = work[v]
      BY <2>4 DEF WorkerTypes
  <2>8. ASSUME NEW n \in DOMAIN waiters'
        PROVE  waiters'[n] \in open' /\ work'[waiters'[n][1]] = [at |-> "polling", held |-> {}]
    <3>1. CASE waiters'[n] = c
        BY <2>1, <2>4, <2>5, <2>7, <3>1
    <3>2. ASSUME NEW h \in DOMAIN waiters, waiters'[n] = waiters[h]
          PROVE  waiters'[n] \in open' /\ work'[waiters'[n][1]] = [at |-> "polling", held |-> {}]
      <4>1. waiters[h] \in open' /\ work'[waiters[h][1]] = [at |-> "polling", held |-> {}]
          BY <1>2, <2>2, <2>4, <2>7
      <4> QED
          BY <3>2, <4>1
    <3> QED
        BY <2>6, <3>1, <3>2
  <2> QED
      BY <2>6, <2>8 DEF WaitersPoll
<1>6. ASSUME NEW w \in Workers, PollTimesOut(w) PROVE WaitersPoll'
  <2>1. PICK i \in DOMAIN waiters : waiters[i] = <<w, conn[w]>> /\ waiters' = RemoveAt(waiters, i)
      BY <1>6 DEF PollTimesOut
  <2>2. UNCHANGED open /\ work' = [work EXCEPT ![w] = Idle]
      BY <1>6 DEF PollTimesOut
  <2>6. i \in 1..Len(waiters)
      BY <1>1
  <2>7. /\ IsInjective(RemoveAt(waiters, i))
        /\ \A n \in DOMAIN RemoveAt(waiters, i) :
               \E h \in DOMAIN waiters : h # i /\ RemoveAt(waiters, i)[n] = waiters[h]
      BY <1>1, <2>6, WaiterLeaves
  <2>3. /\ IsInjective(waiters')
        /\ \A n \in DOMAIN waiters' : \E h \in DOMAIN waiters : h # i /\ waiters'[n] = waiters[h]
      BY <2>1, <2>7
  <2>4. \A h \in DOMAIN waiters : h # i => waiters[h][1] # w
      BY <1>3, <2>1
  <2>5. \A h \in DOMAIN waiters : h # i => work'[waiters[h][1]] = work[waiters[h][1]]
      BY <1>2, <2>2, <2>4 DEF WorkerTypes
  <2> QED
      BY <1>4, <2>2, <2>3, <2>5
<1>7. ASSUME NEW d \in loop.held, HandOver(d) PROVE WaitersPoll'
  <2>1. PICK i \in DOMAIN waiters :
            /\ waiters' = SubSeq(waiters, i + 1, Len(waiters))
            /\ waiters[i][1] \in Workers
            /\ work' = [work EXCEPT ![waiters[i][1]] = At("running", d)]
      BY <1>7, Handed
  <2>2. UNCHANGED open
      BY <1>7 DEF HandOver
  <2>3. i \in 0..Len(waiters)
      BY <1>1
  <2>4. /\ IsInjective(waiters')
        /\ \A n \in DOMAIN waiters' : \E h \in DOMAIN waiters : h > i /\ waiters'[n] = waiters[h]
      BY <1>1, <2>1, <2>3, SuffixFacts
  <2>5. \A h \in DOMAIN waiters : h > i => h # i
      BY <1>1
  <2>6. \A h \in DOMAIN waiters : h # i => work'[waiters[h][1]] = work[waiters[h][1]]
      BY <1>2, <1>3, <2>1 DEF WorkerTypes
  <2> QED
      BY <1>4, <2>2, <2>4, <2>5, <2>6
<1>8. ASSUME NEW d \in loop.held, Orphan(d) PROVE WaitersPoll'
    BY <1>8 DEF Orphan, WaitersPoll, IsInjective
<1>9. ASSUME NEW w \in Workers, WorkerStep(w), ~Poll(w), ~PollTimesOut(w) PROVE WaitersPoll'
  <2>1. UNCHANGED waiters /\ open \subseteq open'
      BY <1>9 DEF WorkerStep, Connect, Drop, Finish, LateReport, LateReportIsLost
  <2>2. CASE work' = work
      BY <1>1, <1>4, <2>1, <2>2
  <2>3. ASSUME NEW d \in work[w].held, NEW kind \in {"ok", "fail"}, Finish(w, d, kind) PROVE WaitersPoll'
    <3>1. work' = [work EXCEPT ![w] = Idle]
        BY <2>3 DEF Finish
    <3>2. \A h \in DOMAIN waiters : waiters[h][1] # w
        BY <1>2
    <3>3. \A h \in DOMAIN waiters : work'[waiters[h][1]] = work[waiters[h][1]]
        BY <1>2, <3>1, <3>2 DEF WorkerTypes
    <3> QED
        BY <1>1, <1>4, <2>1, <3>3
  <2> QED
      BY <1>9, <2>2, <2>3, NextAllConnected DEF WorkerStep, Connect, LateReport, LateReportIsLost
<1>10. CASE UNCHANGED <<waiters, work, open>>
    BY <1>1, <1>4, <1>10
<1>11. \/ \E w \in Workers : WorkerStep(w)
       \/ \E d \in loop.held : HandOver(d) \/ Orphan(d)
       \/ UNCHANGED <<waiters, work, open>>
    BY WaitersSteps, ConnectionSteps, NextAllConnected DEF WorkerStep
<1> QED
    BY <1>5, <1>6, <1>7, <1>8, <1>9, <1>10, <1>11

\* What a worker executes is locked for it and not reported.
LEMMA Executing ==
    ASSUME Inv, AllConnected, Undisturbed, NEW w \in Workers, NEW d \in work[w].held
    PROVE  /\ Online(w) /\ d \in Delivery
           /\ lock[d.job] = d.token /\ queue[d.job] = "active"
           /\ \A k \in tasks : k.held # d
<1> USE DEF Inv, Types
<1>1. "lapse" \notin faults
    BY DEF Undisturbed, Harmless
<1>2. Online(w) /\ d \in Delivery
    BY WorkHeld DEF AllConnected, OfflineIdle
<1>3. lock[d.job] = d.token /\ \A k \in tasks : k.held # d
    BY <1>1, <1>2 DEF LiveIsUntouched
<1>4. d.job \in Jobs /\ d.token # NoToken
    BY <1>2 DEF Delivery, Tokens, NoToken
<1> QED
    BY <1>2, <1>3, <1>4 DEF LockedIsActive

\* A report or a return begins once for a delivery.
LEMMA NextOneTask ==
    ASSUME Inv, AllConnected, OneTask, [Next]_vars, Undisturbed'
    PROVE  OneTask'
<1>1. Undisturbed
    BY NothingBreaks
<1>2. ASSUME NEW d, NEW kind, \A k \in tasks : k.held # d,
             tasks' \subseteq tasks \cup {[held |-> d, kind |-> kind, step |-> "move"]}
      PROVE  OneTask'
    BY <1>2 DEF OneTask
<1>3. ASSUME NEW d \in loop.held, Orphan(d) PROVE OneTask'
  <2>1. \A k \in tasks : k.held # d
      BY <1>3 DEF Orphan, Holds, Inv, LoopHolds
  <2> QED
      BY <1>2, <1>3, <2>1 DEF Orphan
<1>4. ASSUME NEW w \in Workers, NEW d \in work[w].held, NEW kind \in {"ok", "fail"}, Finish(w, d, kind)
      PROVE  OneTask'
  <2>1. \A k \in tasks : k.held # d
      BY <1>1, Executing
  <2> QED
      BY <1>2, <1>4, <2>1 DEF Finish
<1>5. ASSUME NEW k \in tasks, TaskStep(k) PROVE OneTask'
  <2>1. k \in Task
      BY DEF Inv, Types, AppTypes
  <2>2. \A step : [k EXCEPT !.step = step].held = k.held
      BY <2>1 DEF Task
  <2>3. Ends(k) \/ \E step : GoesOn(k, step)
      BY <1>5 DEF TaskStep, ReportOfGone, Complete, Return, ReleaseSlot, Promote, ReadPollingLock,
           DeletePollingLock, CleanupFails
  <2>4. CASE Ends(k)
      BY <2>4 DEF Ends, OneTask
  <2>5. ASSUME NEW step, GoesOn(k, step) PROVE OneTask'
    <3> DEFINE n == [k EXCEPT !.step = step]
    <3>1. n.held = k.held /\ tasks' = (tasks \ {k}) \cup {n}
        BY <2>2, <2>5 DEF GoesOn
    <3> HIDE DEF n
    <3> QED
        BY <3>1 DEF OneTask
  <2> QED
      BY <2>3, <2>4, <2>5
<1>6. ASSUME NEW w \in Workers, NEW x \in killed, LateReport(w, x[2]) PROVE FALSE
    BY <1>6 DEF AllConnected
<1> QED
    BY <1>3, <1>4, <1>5, <1>6, NextAllConnected, TaskSteps DEF OneTask

(***************************************************************************)
(* What has passed the interceptors.                                       *)
(***************************************************************************)
\* A delivery has acquired what it needs before, or the interceptor lets it pass now.
LEMMA AcquiredBefore ==
    ASSUME Inv, AllConnected, QueuesOfTheApp, WaitersPoll, [Next]_vars, Undisturbed', NEW d, Acquired(d)'
    PROVE  \/ Acquired(d)
           \/ d \in loop.held /\ (CheckFlow(d) \/ CheckPoll(d)) /\ loop' = At("hand", d)
<1>1. CASE loop'.at = "hand" /\ d \in loop'.held
  <2>1. CASE UNCHANGED loop
      BY <1>1, <2>1 DEF Acquired
  <2>2. ASSUME NEW j \in Jobs, Dequeue(j) PROVE FALSE
    <3>1. loop'.at = "check"
        BY <2>2 DEF Dequeue, At
    <3> QED
        BY <1>1, <3>1
  <2>3. ASSUME NEW e \in loop.held, LoopStep(e)
        PROVE  d \in loop.held /\ (CheckFlow(d) \/ CheckPoll(d)) /\ loop' = At("hand", d)
    <3>1. CASE Reject(e) \/ Discard(e) \/ HandOver(e) \/ Orphan(e) \/ LoopGoesOn(e)
        BY <1>1, <3>1 DEF Reject, Discard, HandOver, Orphan, LoopGoesOn, Idle, At
    <3>2. CASE CheckFlow(e) \/ CheckPoll(e)
      <4>1. \E at : loop' = At(at, e)
          BY <3>2 DEF CheckFlow, AcquireSlot, CheckPoll
      <4>2. d = e /\ loop' = At("hand", e)
          BY <1>1, <4>1 DEF At
      <4> QED
          BY <3>2, <4>2
    <3> QED
        BY <2>3, <3>1, <3>2 DEF LoopStep
  <2> QED
      BY <1>1, <2>1, <2>2, <2>3, LoopSteps DEF Idle
<1>2. ASSUME NEW w \in Workers, d \in work'[w].held PROVE Acquired(d)
  <2>1. ASSUME NEW v \in Workers, WorkerStep(v) PROVE d \in work[w].held
      BY <1>2, <2>1, WorkShrinks DEF Inv
  <2>2. ASSUME NEW e \in loop.held, HandOver(e) PROVE d = e \/ d \in work[w].held
    <3>1. PICK v \in Workers : work' = [work EXCEPT ![v] = At("running", e)]
        BY <2>2, Handed
    <3>2. At("running", e).held = {e}
        BY DEF At
    <3>3. work'[w] = work[w] \/ work'[w] = At("running", e)
        BY <3>1 DEF Inv, Types, WorkerTypes
    <3> QED
        BY <1>2, <3>2, <3>3
  <2>3. ASSUME NEW c \in Connections, Disconnect(c) PROVE d \in work[w].held
      BY <1>2, <2>3 DEF Disconnect
  <2>4. ASSUME HandOver(d), d \in loop.held PROVE Acquired(d)
      BY <2>4 DEF HandOver, Holds, Acquired
  <2>5. d \in work[w].held => Acquired(d)
      BY DEF Acquired
  <2>6. CASE UNCHANGED work
      BY <1>2, <2>5, <2>6
  <2> QED
      BY <2>1, <2>2, <2>3, <2>4, <2>5, <2>6, NothingBreaks, ConnectionSteps
<1>3. ASSUME NEW l \in tasks', l.held = d, l.step # "promote" PROVE Acquired(d)
  <2>1. ASSUME NEW e \in loop.held, Orphan(e) PROVE Acquired(d)
    <3>1. l \in tasks \/ d = e
        BY <1>3, <2>1 DEF Orphan
    <3>2. Acquired(e)
        BY <2>1 DEF Orphan, Holds, Acquired
    <3> QED
        BY <1>3, <3>1, <3>2 DEF Acquired
  <2>2. ASSUME NEW k \in tasks, TaskStep(k) PROVE Acquired(d)
    <3>1. k \in Task
        BY DEF Inv, Types, AppTypes
    <3>2. \A step : [k EXCEPT !.step = step].held = k.held /\ [k EXCEPT !.step = step].step = step
        BY <3>1 DEF Task
    <3>3. Ends(k) \/ (k.step # "promote" /\ \E step : GoesOn(k, step))
        BY <2>2 DEF TaskStep, ReportOfGone, Complete, Return, ReleaseSlot, Promote, ReadPollingLock,
             DeletePollingLock, CleanupFails
    <3>4. CASE Ends(k)
        BY <1>3, <3>4 DEF Ends, Acquired
    <3>5. ASSUME NEW step, GoesOn(k, step), k.step # "promote" PROVE Acquired(d)
      <4>1. l \in tasks \/ l = [k EXCEPT !.step = step]
          BY <3>5 DEF GoesOn
      <4>2. l.held = k.held => k.held = d
          BY <1>3
      <4>3. CASE l = [k EXCEPT !.step = step]
          BY <3>2, <3>5, <4>2, <4>3 DEF Acquired
      <4> QED
          BY <1>3, <4>1, <4>3 DEF Acquired
    <3> QED
        BY <3>3, <3>4, <3>5
  <2>3. ASSUME NEW w \in Workers, NEW e \in work[w].held, NEW kind \in {"ok", "fail"}, Finish(w, e, kind)
        PROVE  Acquired(d)
    <3>1. l \in tasks \/ d = e
        BY <1>3, <2>3 DEF Finish
    <3> QED
        BY <1>3, <3>1 DEF Acquired
  <2>4. ASSUME NEW w \in Workers, NEW x \in killed, LateReport(w, x[2]) PROVE FALSE
      BY <2>4 DEF AllConnected
  <2>5. CASE UNCHANGED tasks
      BY <1>3, <2>5 DEF Acquired
  <2> QED
      BY <2>1, <2>2, <2>3, <2>4, <2>5, NextAllConnected, TaskSteps
<1> QED
    BY <1>1, <1>2, <1>3 DEF Acquired

\* A flow that has its slot is not waiting in the queue, and is nobody else's when it is active.
LEMMA AcquiredHolds ==
    ASSUME Inv, QueuesOfTheApp, AllConnected, TasksHold, Undisturbed, NEW d \in FlowDelivery, Acquired(d)
    PROVE  /\ queue[d.job] # "waiting"
           /\ queue[d.job] = "active" => lock[d.job] = d.token
<1>1. d \in Delivery /\ d.job \in FlowJobs /\ d.job \in Jobs /\ d.token \in Tokens
    BY DEF FlowDelivery, Delivery
<1>2. CASE loop.at = "hand" /\ d \in loop.held
    BY <1>2 DEF Inv, LoopHolds
<1>3. ASSUME NEW w \in Workers, d \in work[w].held PROVE queue[d.job] = "active" /\ lock[d.job] = d.token
    BY <1>3, Executing
<1>4. ASSUME NEW k \in tasks, k.held = d, k.step # "promote"
      PROVE  /\ queue[d.job] # "waiting"
             /\ queue[d.job] = "active" => lock[d.job] = d.token
  <2>1. k.step \in {"move", "release"}
      BY <1>1, <1>4, JobDispatchAssumption DEF QueuesOfTheApp, Inv, Types, AppTypes, Task
  <2>2. CASE k.step = "move"
    <3>1. lock[d.job] = d.token /\ d.token # NoToken
        BY <1>1, <1>4, <2>2 DEF TasksHold, Tokens, NoToken
    <3> QED
        BY <1>1, <3>1 DEF Inv, LockedIsActive
  <2>3. CASE k.step = "release"
      BY <1>1, <1>4, <2>3 DEF TasksHold
  <2> QED
      BY <2>1, <2>2, <2>3
<1> QED
    BY <1>2, <1>3, <1>4 DEF Acquired

\* Nobody has a slot of the job that the rate limiter looks at.
LEMMA CheckedIsNew ==
    ASSUME Inv, QueuesOfTheApp, AllConnected, TasksHold, Undisturbed, NEW e \in loop.held, CheckFlow(e),
           NEW d \in FlowDelivery, d.job = e.job
    PROVE  ~Acquired(d)
<1> SUFFICES ASSUME Acquired(d) PROVE FALSE OBVIOUS
<1>1. d \in Delivery /\ e \in Delivery /\ loop = At("check", e)
    BY LoopHeld DEF FlowDelivery, Inv, Types, CheckFlow, Holds, At
<1>2. queue[e.job] = "active" /\ lock[e.job] = e.token /\ \A k \in tasks : k.held # e
    BY <1>1 DEF Inv, LoopHolds, At
<1>3. d = e
    BY <1>1, <1>2, AcquiredHolds, SameDelivery
<1>4. \A w \in Workers : e \notin work[w].held
    BY DEF Inv, OnePlace
<1> QED
    BY <1>1, <1>2, <1>3, <1>4 DEF Acquired, At

\* What has passed the interceptors is a delivery, and it is attended to.
LEMMA AcquiredIsAttended ==
    ASSUME Inv, AllConnected, NEW d, Acquired(d)
    PROVE  d \in Delivery /\ Attended(d)
<1>1. CASE loop.at = "hand" /\ d \in loop.held
    BY <1>1, LoopHeld DEF Inv, Types, Attended
<1>2. ASSUME NEW w \in Workers, d \in work[w].held PROVE d \in Delivery /\ Attended(d)
  <2>1. conn[w] # 0
      BY <1>2 DEF Inv, OfflineIdle
  <2> QED
      BY <1>2, <2>1, WorkHeld DEF Inv, Types, AllConnected, Attended, Runs
<1>3. ASSUME NEW k \in tasks, k.held = d PROVE d \in Delivery /\ Attended(d)
    BY <1>3 DEF Inv, Types, AppTypes, Task, Attended
<1> QED
    BY <1>1, <1>2, <1>3 DEF Acquired

\* A flow that is reported or returned keeps its lock until its move, and its job is out of the
\* queue until its slot is released.
LEMMA NextTasksHold ==
    ASSUME Inv, QueuesOfTheApp, AllConnected, OneTask, TasksHold, NotParked, [Next]_vars, Undisturbed'
    PROVE  TasksHold'
<1> USE DEF Inv, Types
<1> DEFINE Kept(l) == l.held.job \in FlowJobs =>
               /\ l.step = "move" => lock'[l.held.job] = l.held.token
               /\ l.step = "release" => /\ queue'[l.held.job] # "waiting"
                                        /\ queue'[l.held.job] = "active" => lock'[l.held.job] = l.held.token
<1>1. Undisturbed /\ {"drop", "lapse", "dequeue", "slow"} \cap faults' = {}
    BY NothingBreaks
<1>2. ASSUME NEW l \in tasks, l \in tasks' PROVE Kept(l)
  <2> SUFFICES ASSUME l.held.job \in FlowJobs, l.step \in {"move", "release"} PROVE Kept(l)
      OBVIOUS
  <2> DEFINE j == l.held.job
             t == l.held.token
  <2>1. /\ l \in Task /\ l.held \in Delivery /\ j \in Jobs /\ t \in Tokens /\ t # NoToken
        BY DEF AppTypes, Task, Delivery, Tokens, NoToken
  <2>2. Acquired(l.held) /\ l.held \in FlowDelivery /\ ~InPark(j) /\ Attended(l.held)
      BY <2>1, AcquiredIsAttended DEF Acquired, FlowDelivery, NotParked
  <2>3. /\ lock[j] # NoToken => queue[j] = "active"
        /\ l.step = "move" => lock[j] = t
        /\ l.step = "release" => queue[j] # "waiting" /\ (queue[j] = "active" => lock[j] = t)
      BY <2>1 DEF LockedIsActive, TasksHold
  <2>4. CASE queue'[j] = queue[j] /\ lock'[j] = lock[j]
      BY <2>3, <2>4
  <2>5. CASE l.step = "release" /\ queue'[j] \in {"delayed", "completed", "failed"}
      BY <2>5
  <2> HIDE DEF Kept
  <2>6. ASSUME NEW i \in Jobs, QueueStep(i) PROVE Kept(l)
    <3>1. CASE Dequeue(i)
      <4>1. j # i
          BY <2>1, <2>3, <3>1 DEF Dequeue
      <4>2. queue'[j] = queue[j] /\ lock'[j] = lock[j]
          BY <2>1, <3>1, <4>1 DEF Dequeue, QueueTypes
      <4> QED
          BY <2>4, <4>2
    <3>2. CASE FailDeferred(i)
      <4>1. j # i
          BY <2>1, <2>3, <3>2 DEF FailDeferred
      <4>2. queue'[j] = queue[j] /\ lock'[j] = lock[j]
          BY <2>1, <3>2, <4>1 DEF FailDeferred, QueueTypes
      <4> QED
          BY <2>4, <4>2
    <3>3. CASE Due(i)
      <4>1. j # i
        <5>1. CASE l.step = "release"
            BY <1>1, <3>3, <5>1 DEF Due, Happens
        <5>2. CASE l.step = "move"
            BY <2>1, <2>3, <3>3, <5>2 DEF Due
        <5> QED
            BY <5>1, <5>2
      <4>2. queue'[j] = queue[j] /\ lock'[j] = lock[j]
          BY <2>1, <3>3, <4>1 DEF Due, QueueTypes
      <4> QED
          BY <2>4, <4>2
    <3>4. CASE Lapse(i)
      <4>1. ASSUME j = i, lock[j] = t PROVE FALSE
        <5>1. [job |-> i, token |-> lock[i]] = l.held
            BY <2>1, <4>1 DEF Delivery
        <5>2. ~Attended([job |-> i, token |-> lock[i]])
            BY <1>1, <3>4 DEF Lapse, Happens
        <5> QED
            BY <2>2, <5>1, <5>2
      <4>2. CASE j # i
        <5>1. queue'[j] = queue[j] /\ lock'[j] = lock[j]
            BY <2>1, <3>4, <4>2 DEF Lapse, QueueTypes
        <5> QED
            BY <2>4, <5>1
      <4>3. CASE j = i
        <5>1. lock[j] # NoToken
            BY <3>4, <4>3 DEF Lapse
        <5> QED
            BY <2>3, <4>1, <4>3, <5>1
      <4> QED
          BY <4>2, <4>3
    <3>5. CASE StalledScan(i)
      <4>1. j # i
          BY <2>1, <2>3, <3>5 DEF StalledScan
      <4>2. queue'[j] = queue[j] /\ lock'[j] = lock[j]
          BY <2>1, <3>5, <4>1 DEF StalledScan, QueueTypes
      <4> QED
          BY <2>4, <4>2
    <3> QED
        BY <2>6, <3>1, <3>2, <3>3, <3>4, <3>5 DEF QueueStep
  <2>7. ASSUME NEW d \in loop.held, Reject(d) \/ Discard(d) PROVE Kept(l)
    <3>1. d \in Delivery /\ lock[d.job] = d.token /\ queue[d.job] = "active" /\ l.held # d
        BY <2>7, LoopHeld DEF LoopHolds, Reject, Discard, Holds
    <3>2. CASE j # d.job
      <4>1. queue'[j] = queue[j] /\ lock'[j] = lock[j]
          BY <2>1, <2>7, <3>1, <3>2 DEF Reject, Discard, QueueTypes
      <4> QED
          BY <2>4, <4>1
    <3>3. CASE j = d.job
      <4>1. t # d.token
          BY <2>1, <3>1, <3>3, SameDelivery
      <4> QED
          BY <2>3, <3>1, <3>3, <4>1
    <3> QED
        BY <3>2, <3>3
  <2>8. ASSUME NEW k \in tasks, Complete(k) \/ Return(k), k # l PROVE Kept(l)
    <3>1. k \in Task /\ k.held \in Delivery /\ k.held # l.held
        BY <2>8 DEF AppTypes, Task, OneTask
    <3>2. CASE queue' = queue /\ lock' = lock
        BY <2>4, <3>2
    <3>3. ASSUME NEW state \in {"completed", "failed", "delayed"},
                 lock[k.held.job] = k.held.token, MoveTo(k.held.job, state)
          PROVE  Kept(l)
      <4>1. CASE j # k.held.job
        <5>1. queue'[j] = queue[j] /\ lock'[j] = lock[j]
            BY <2>1, <3>1, <3>3, <4>1 DEF MoveTo, QueueTypes
        <5> QED
            BY <2>4, <5>1
      <4>2. CASE j = k.held.job
        <5>1. t # k.held.token
            BY <2>1, <3>1, <4>2, SameDelivery
        <5>2. k.held.token # NoToken
            BY <3>1 DEF Delivery, Tokens, NoToken
        <5> QED
            BY <2>3, <3>3, <4>2, <5>1, <5>2
      <4> QED
          BY <4>1, <4>2
    <3>4. CASE Complete(k)
        BY <3>2, <3>3, <3>4 DEF Complete
    <3>5. CASE Return(k)
        BY <3>2, <3>3, <3>5 DEF Return
    <3> QED
        BY <2>8, <3>4, <3>5
  <2>9. ASSUME NEW k \in tasks, Promote(k) PROVE Kept(l)
    <3>1. queue'[j] = queue[j] /\ lock' = lock
        BY <2>1, <2>2, <2>9, PromoteUnparks DEF Promote
    <3> QED
        BY <2>4, <3>1
  <2>10. CASE UNCHANGED <<queue, lock>>
      BY <2>4, <2>10
  <2>11. ASSUME Complete(l) \/ Return(l) PROVE FALSE
    <3>1. [l EXCEPT !.step = "release"].step = "release" /\ l.step = "move"
        BY <2>1, <2>11 DEF Task, Complete, Return
    <3> QED
        BY <1>2, <2>11, <3>1 DEF Complete, Return, GoesOn, Ends
  <2> QED
      BY <2>6, <2>7, <2>8, <2>9, <2>10, <2>11, LockSteps
<1>3. ASSUME NEW d, NEW kind, lock'[d.job] = d.token PROVE Kept([held |-> d, kind |-> kind, step |-> "move"])
    BY <1>3
<1> SUFFICES ASSUME NEW l \in tasks' PROVE Kept(l)
    BY DEF TasksHold
<1> HIDE DEF Kept
<1>4. ASSUME NEW d \in loop.held, Orphan(d) PROVE Kept(l)
  <2>1. lock'[d.job] = d.token
      BY <1>4 DEF Orphan, Holds, LoopHolds
  <2> QED
      BY <1>2, <1>3, <1>4, <2>1 DEF Orphan
<1>5. ASSUME NEW w \in Workers, NEW d \in work[w].held, NEW kind \in {"ok", "fail"}, Finish(w, d, kind)
      PROVE  Kept(l)
  <2>1. lock'[d.job] = d.token
      BY <1>1, <1>5, Executing DEF Finish
  <2> QED
      BY <1>2, <1>3, <1>5, <2>1 DEF Finish
<1>6. ASSUME NEW k \in tasks, TaskStep(k) PROVE Kept(l)
  <2>1. CASE l \in tasks
      BY <1>2, <2>1
  <2>2. CASE l \notin tasks
    <3>1. k \in Task /\ k.held.job \in Jobs
        BY DEF AppTypes, Task, Delivery
    <3>2. \A step : [k EXCEPT !.step = step].held = k.held /\ [k EXCEPT !.step = step].step = step
        BY <3>1 DEF Task
    <3>3. CASE Complete(k) \/ Return(k)
      <4>1. l.step = "release" /\ l.held = k.held /\ k.step = "move"
        <5>1. k.step = "move" /\ (Ends(k) \/ GoesOn(k, "release"))
            BY <3>3 DEF Complete, Return
        <5>2. tasks' # tasks \ {k}
            BY <2>2
        <5>3. l = [k EXCEPT !.step = "release"]
            BY <2>2, <5>1, <5>2 DEF GoesOn, Ends
        <5> QED
            BY <3>2, <5>1, <5>3
      <4>2. k.held.job \in FlowJobs => lock[k.held.job] = k.held.token /\ queue[k.held.job] = "active"
          BY <3>1, <4>1 DEF TasksHold, LockedIsActive, Delivery, Task, Tokens, NoToken
      <4>3. \/ UNCHANGED <<queue, lock>>
            \/ \E state \in {"completed", "failed", "delayed"} : MoveTo(k.held.job, state)
          BY <3>3 DEF Complete, Return
      <4>4. CASE UNCHANGED <<queue, lock>>
          BY <4>1, <4>2, <4>4 DEF Kept
      <4>5. ASSUME NEW state \in {"completed", "failed", "delayed"}, MoveTo(k.held.job, state)
            PROVE  Kept(l)
        <5>1. queue'[k.held.job] = state
            BY <3>1, <4>5 DEF MoveTo, QueueTypes
        <5> QED
            BY <4>1, <4>5, <5>1 DEF Kept
      <4> QED
          BY <4>3, <4>4, <4>5
    <3>4. CASE ~Complete(k) /\ ~Return(k)
      <4>1. l.step \in {"promote", "delete"}
          BY <1>6, <2>2, <3>2, <3>4 DEF TaskStep, ReportOfGone, ReleaseSlot, Promote, ReadPollingLock,
               DeletePollingLock, CleanupFails, Ends, GoesOn
      <4> QED
          BY <4>1 DEF Kept
    <3> QED
        BY <3>3, <3>4
  <2> QED
      BY <2>1, <2>2
<1>7. CASE UNCHANGED tasks
    BY <1>2, <1>7
<1>8. ASSUME NEW w \in Workers, NEW x \in killed, LateReport(w, x[2]) PROVE FALSE
    BY <1>8 DEF AllConnected
<1> QED
    BY <1>4, <1>5, <1>6, <1>7, <1>8, NextAllConnected, TaskSteps

\* A flow that passes the rate limiter leaves the pool's queue, and one that is parked has not
\* passed it.
LEMMA NextNotParked ==
    ASSUME Inv, QueuesOfTheApp, AllConnected, WaitersPoll, TasksHold, NotParked, [Next]_vars, Undisturbed'
    PROVE  NotParked'
<1> SUFFICES ASSUME NEW d \in FlowDelivery, Acquired(d)', InPark(d.job)' PROVE FALSE
    BY DEF NotParked
<1>1. Undisturbed /\ Types
    BY NothingBreaks DEF Inv
<1>2. CASE Acquired(d)
  <2>1. ~InPark(d.job)
      BY <1>2 DEF NotParked
  <2>2. ASSUME NEW e \in loop.held, CheckFlow(e) PROVE FALSE
    <3>1. d.job = e.job
        BY <1>1, <2>1, <2>2, CheckFlowParks
    <3> QED
        BY <1>1, <1>2, <2>2, <3>1, CheckedIsNew
  <2>3. ASSUME NEW k \in tasks, Promote(k) PROVE FALSE
      BY <2>1, <2>3, PromoteUnparks
  <2>4. CASE UNCHANGED parked
      BY <2>1, <2>4 DEF InPark
  <2> QED
      BY <2>2, <2>3, <2>4, NothingBreaks, ParkedSteps
<1>3. CASE d \in loop.held /\ (CheckFlow(d) \/ CheckPoll(d)) /\ loop' = At("hand", d)
  <2>1. ~CheckPoll(d)
      BY JobDispatchAssumption DEF FlowDelivery, CheckPoll
  <2> QED
      BY <1>1, <1>3, <2>1, CheckFlowParks
<1> QED
    BY <1>2, <1>3, AcquiredBefore

\* A delivery that gives back what it acquired has no other report or return.
LEMMA ReleasedIsNotAcquired ==
    ASSUME Inv, AllConnected, OneTask, Undisturbed, NEW k \in tasks, ReleaseSlot(k) \/ DeletePollingLock(k)
    PROVE  ~Acquired(k.held)'
<1>1. k \in Task
    BY DEF Inv, Types, AppTypes
<1>2. /\ UNCHANGED <<loop, work>>
      /\ GoesOn(k, "promote") \/ Ends(k)
    BY DEF ReleaseSlot, DeletePollingLock
<1>3. ~(loop'.at = "hand" /\ k.held \in loop'.held)
    BY <1>2 DEF Inv, LoopHolds
<1>4. \A w \in Workers : k.held \notin work'[w].held
    BY <1>2, Executing
<1>5. ASSUME NEW l \in tasks', l.held = k.held PROVE l.step = "promote"
  <2>1. l = k \/ l \notin tasks
      BY <1>5 DEF OneTask
  <2>2. [k EXCEPT !.step = "promote"].step = "promote"
      BY <1>1 DEF Task
  <2>3. CASE Ends(k)
      BY <1>5, <2>1, <2>3 DEF Ends
  <2>4. CASE GoesOn(k, "promote")
      BY <1>5, <2>1, <2>2, <2>4 DEF GoesOn
  <2> QED
      BY <1>2, <2>3, <2>4
<1> QED
    BY <1>3, <1>4, <1>5 DEF Acquired

\* A flow keeps its slot: whoever takes or frees a slot is not dealing with this delivery, and
\* a slot of a delivery somebody attends to does not expire.
LEMMA NextSlotOfAcquired ==
    ASSUME Inv, QueuesOfTheApp, AllConnected, WaitersPoll, OneTask, TasksHold, SlotOfAcquired, SlotIsAcquired,
           [Next]_vars, Undisturbed'
    PROVE  SlotOfAcquired'
<1> SUFFICES ASSUME NEW d \in FlowDelivery, Acquired(d)' PROVE slot'[d.job] = d.token
    BY DEF SlotOfAcquired
<1>1. /\ Undisturbed /\ Types
      /\ d \in Delivery /\ d.job \in FlowJobs /\ d.job \in Jobs /\ d.token \in Tokens
    BY NothingBreaks DEF Inv, FlowDelivery, Delivery
<1>2. CASE Acquired(d)
  <2>1. slot[d.job] = d.token
      BY <1>2 DEF SlotOfAcquired
  <2>2. ASSUME NEW e \in loop.held, CheckFlow(e) PROVE slot'[d.job] = slot[d.job]
    <3>1. d.job # e.job
        BY <1>1, <1>2, <2>2, CheckedIsNew
    <3> QED
        BY <1>1, <2>2, <3>1 DEF CheckFlow, AcquireSlot, Types, SlotTypes
  <2>3. ASSUME NEW k \in tasks, ReleaseSlot(k) PROVE slot'[d.job] = slot[d.job]
    <3>1. k.held \in FlowDelivery /\ k.held \in Delivery /\ Acquired(k.held)
        BY <1>1, <2>3 DEF Types, AppTypes, Task, ReleaseSlot, FlowDelivery, Acquired
    <3>2. slot[k.held.job] = k.held.token
        BY <3>1 DEF SlotOfAcquired
    <3>3. d # k.held
        BY <1>1, <2>3, ReleasedIsNotAcquired
    <3>4. d.job # k.held.job
        BY <1>1, <2>1, <3>1, <3>2, <3>3, SameDelivery
    <3> QED
        BY <1>1, <2>3, <3>4 DEF ReleaseSlot, Types, SlotTypes
  <2>4. ASSUME NEW j \in FlowJobs, SlotExpires(j) PROVE slot'[d.job] = slot[d.job]
    <3>1. ASSUME j = d.job PROVE FALSE
      <4>1. [job |-> j, token |-> slot[j]] = d
          BY <1>1, <2>1, <3>1 DEF Delivery
      <4> QED
          BY <1>2, <2>4, <4>1, AcquiredIsAttended DEF SlotExpires
    <3> QED
        BY <1>1, <2>4, <3>1 DEF SlotExpires, Types, SlotTypes
  <2> QED
      BY <2>1, <2>2, <2>3, <2>4, SlotSteps
<1>3. CASE d \in loop.held /\ (CheckFlow(d) \/ CheckPoll(d)) /\ loop' = At("hand", d)
  <2>1. CheckFlow(d)
      BY <1>1, <1>3, JobDispatchAssumption DEF CheckPoll
  <2>2. slot[d.job] = NoToken
    <3> SUFFICES ASSUME slot[d.job] # NoToken PROVE FALSE OBVIOUS
    <3> DEFINE e == [job |-> d.job, token |-> slot[d.job]]
    <3>1. d.job \in Slots /\ e \in FlowDelivery /\ e.job = d.job
        BY <1>1 DEF Slots, Types, SlotTypes, FlowDelivery, Delivery
    <3>2. Acquired(e)
        BY <3>1 DEF SlotIsAcquired
    <3> HIDE DEF e
    <3> QED
        BY <1>1, <1>3, <2>1, <3>1, <3>2, CheckedIsNew
  <2>3. loop' # At("reject", d)
      BY <1>3 DEF At
  <2>4. slot' = [slot EXCEPT ![d.job] = d.token]
      BY <2>1, <2>2, <2>3 DEF CheckFlow, AcquireSlot
  <2> QED
      BY <1>1, <2>4 DEF Types, SlotTypes
<1> QED
    BY <1>2, <1>3, AcquiredBefore

\* A flow that has acquired its slot is handed over, executed, reported or returned, and every
\* report and every return releases the slot.
LEMMA AcquiredStays ==
    ASSUME Inv, QueuesOfTheApp, AllConnected, WaitersPoll, TasksHold, [Next]_vars, Undisturbed',
           NEW d \in FlowDelivery, Acquired(d)
    PROVE  Acquired(d)' \/ \E k \in tasks : ReleaseSlot(k) /\ k.held = d
<1> USE DEF Inv, Types
<1>1. /\ Undisturbed /\ {"drop", "lapse", "dequeue", "slow"} \cap faults' = {}
      /\ d \in Delivery /\ d.job \in FlowJobs /\ d.job \in Jobs /\ d.token \in Tokens /\ d.token # NoToken
      /\ d.job \notin PollJobs
    BY NothingBreaks, JobDispatchAssumption DEF FlowDelivery, Delivery, Tokens, NoToken
<1>2. \A kind, step : step # "promote" /\ [held |-> d, kind |-> kind, step |-> step] \in tasks' => Acquired(d)'
    BY DEF Acquired
<1>3. CASE loop.at = "hand" /\ d \in loop.held
  <2>1. CASE UNCHANGED loop
      BY <1>3, <2>1 DEF Acquired
  <2>2. ASSUME NEW j \in Jobs, Dequeue(j) PROVE FALSE
      BY <1>3, <2>2 DEF Dequeue, Idle
  <2>3. ASSUME NEW e \in loop.held, LoopStep(e) \/ DequeueFails(e) PROVE Acquired(d)'
    <3>1. e = d
        BY <1>3, LoopHeld
    <3>2. CASE Orphan(e)
        BY <1>2, <3>1, <3>2 DEF Orphan
    <3>3. CASE HandOver(e)
      <4>1. PICK v \in Workers : work' = [work EXCEPT ![v] = At("running", e)]
          BY <3>3, Handed
      <4>2. d \in work'[v].held
          BY <3>1, <4>1 DEF At, WorkerTypes
      <4> QED
          BY <4>2 DEF Acquired
    <3>4. CASE DequeueFails(e)
        BY <1>1, <3>4 DEF DequeueFails, Happens
    <3>5. ASSUME NEW at, at # "hand", Holds(at, e) PROVE FALSE
        BY <1>3, <3>5 DEF Holds
    <3> QED
        BY <2>3, <3>2, <3>3, <3>4, <3>5 DEF LoopStep, CheckFlow, CheckPoll, Reject, Discard, LoopGoesOn
  <2>4. ASSUME NEW w \in Workers, WorkerStep(w) PROVE UNCHANGED loop
      BY <2>4 DEF WorkerStep, Connect, Poll, PollTimesOut, Drop, Finish, LateReport, LateReportIsLost
  <2>5. ASSUME NEW k \in tasks, TaskStep(k) PROVE UNCHANGED loop
      BY <2>5 DEF TaskStep, ReportOfGone, Complete, Return, ReleaseSlot, Promote, ReadPollingLock,
           DeletePollingLock, CleanupFails
  <2>6. ASSUME NEW c \in Connections, Disconnect(c) PROVE UNCHANGED loop
      BY <2>6 DEF Disconnect
  <2>7. ASSUME NEW j \in Jobs, QueueStep(j), ~Dequeue(j) PROVE UNCHANGED loop
      BY <2>7 DEF QueueStep, FailDeferred, Due, Lapse, StalledScan
  <2>8. ASSUME NEW j \in FlowJobs, SlotExpires(j) PROVE UNCHANGED loop
      BY <2>8 DEF SlotExpires
  <2>9. CASE PollingLockExpires \/ Disable \/ UNCHANGED vars
      BY <2>1, <2>9 DEF PollingLockExpires, Disable, vars
  <2> QED
      BY <2>1, <2>2, <2>3, <2>4, <2>5, <2>6, <2>7, <2>8, <2>9, NothingBreaks, NextSteps
<1>4. ASSUME NEW w \in Workers, d \in work[w].held PROVE Acquired(d)'
  <2>1. CASE d \in work'[w].held
      BY <2>1 DEF Acquired
  <2>2. CASE UNCHANGED work
      BY <1>4, <2>1, <2>2
  <2>3. ASSUME NEW v \in Workers, NEW e \in work[v].held, NEW kind \in {"ok", "fail"}, Finish(v, e, kind)
        PROVE  Acquired(d)'
    <3>1. CASE v = w
      <4>1. e = d /\ Online(w)
          BY <1>1, <1>4, <3>1, WorkHeld, Executing
      <4> QED
          BY <1>2, <2>3, <3>1, <4>1 DEF Finish
    <3>2. CASE v # w
      <4>1. work'[w] = work[w]
          BY <2>3, <3>2 DEF Finish, WorkerTypes
      <4> QED
          BY <1>4, <2>1, <4>1
    <3> QED
        BY <3>1, <3>2
  <2>4. ASSUME NEW v \in Workers, Poll(v) \/ PollTimesOut(v) PROVE work'[w] = work[w]
    <3>1. v # w
      <4>1. CASE Poll(v)
          BY <1>4, <4>1 DEF Poll, Idle
      <4>2. CASE PollTimesOut(v)
        <5>1. PICK i \in DOMAIN waiters : waiters[i] = <<v, conn[v]>>
            BY <4>2 DEF PollTimesOut
        <5>2. work[v].held = {}
            BY <5>1 DEF WaitersPoll
        <5> QED
            BY <1>4, <5>2
      <4> QED
          BY <2>4, <4>1, <4>2
    <3> QED
        BY <2>4, <3>1 DEF Poll, PollTimesOut, WorkerTypes
  <2>5. ASSUME NEW e \in loop.held, HandOver(e) PROVE work'[w] = work[w]
    <3>1. PICK v \in Workers : work[v].held = {} /\ work' = [work EXCEPT ![v] = At("running", e)]
        BY <2>5, Handed
    <3>2. v # w
        BY <1>4, <3>1
    <3> QED
        BY <3>1, <3>2 DEF WorkerTypes
  <2>6. ASSUME NEW v \in Workers, WorkerStep(v), ~Poll(v), ~PollTimesOut(v),
               ~\E e \in work[v].held, kind \in {"ok", "fail"} : Finish(v, e, kind)
        PROVE  UNCHANGED work
      BY <2>6, NextAllConnected DEF WorkerStep, Connect, LateReport, LateReportIsLost
  <2> QED
      BY <1>4, <2>1, <2>2, <2>3, <2>4, <2>5, <2>6, ConnectionSteps, NextAllConnected
<1>5. ASSUME NEW k \in tasks, k.held = d, k.step # "promote"
      PROVE  Acquired(d)' \/ \E l \in tasks : ReleaseSlot(l) /\ l.held = d
  <2>1. k \in Task /\ k.step \in {"move", "release"}
      BY <1>1, <1>5 DEF AppTypes, Task, QueuesOfTheApp
  <2>2. CASE k \in tasks'
      BY <1>5, <2>2 DEF Acquired
  <2>3. ASSUME NEW l \in tasks, TaskStep(l), k \notin tasks' PROVE ReleaseSlot(k) \/ Acquired(d)'
    <3>1. l = k
        BY <2>3, TaskHeld
    <3>2. k.step = "move" => lock[d.job] = d.token /\ queue[d.job] = "active"
        BY <1>1, <1>5 DEF TasksHold, LockedIsActive
    <3>3. ReleaseSlot(k) \/ GoesOn(k, "release")
        BY <1>1, <1>5, <2>1, <2>3, <3>1, <3>2, NothingBreaks DEF TaskStep, ReportOfGone, Complete, Return, Promote,
             ReadPollingLock, DeletePollingLock
    <3>4. CASE GoesOn(k, "release")
      <4>1. /\ [k EXCEPT !.step = "release"].held = d /\ [k EXCEPT !.step = "release"].step = "release"
            /\ [k EXCEPT !.step = "release"] \in tasks'
          BY <1>5, <2>1, <3>4 DEF Task, GoesOn
      <4> QED
          BY <4>1 DEF Acquired
    <3> QED
        BY <3>3, <3>4
  <2>4. ASSUME NEW e \in loop.held, Orphan(e) PROVE k \in tasks'
      BY <2>4 DEF Orphan
  <2>5. ASSUME NEW v \in Workers, NEW e \in work[v].held, NEW kind \in {"ok", "fail"}, Finish(v, e, kind)
        PROVE  k \in tasks'
      BY <2>5 DEF Finish
  <2>6. ASSUME NEW v \in Workers, NEW x \in killed, LateReport(v, x[2]) PROVE FALSE
      BY <2>6 DEF AllConnected
  <2> QED
      BY <1>5, <2>2, <2>3, <2>4, <2>5, <2>6, NextAllConnected, TaskSteps
<1> QED
    BY <1>3, <1>4, <1>5 DEF Acquired

\* A slot is of a delivery that has passed the rate limiter and was not released yet.
LEMMA NextSlotIsAcquired ==
    ASSUME Inv, QueuesOfTheApp, AllConnected, WaitersPoll, TasksHold, SlotIsAcquired, [Next]_vars, Undisturbed'
    PROVE  SlotIsAcquired'
<1> SUFFICES ASSUME NEW j \in FlowJobs, slot'[j] # NoToken,
                    NEW d, d = [job |-> j, token |-> slot'[j]]
             PROVE  Acquired(d)'
  <2>1. ASSUME NEW j \in Slots' PROVE Acquired([job |-> j, token |-> slot[j]])'
    <3>1. j \in FlowJobs /\ slot'[j] # NoToken
        BY <2>1 DEF Slots
    <3> QED
        BY <3>1 DEF Acquired
  <2> QED
      BY <2>1 DEF SlotIsAcquired
<1>1. Types /\ Types'
    BY NextTypes DEF Inv
<1>2. d \in FlowDelivery /\ d \in Delivery /\ d.job = j /\ d.token = slot'[j]
    BY <1>1 DEF Types, SlotTypes, FlowDelivery, Delivery, Jobs
<1>3. CASE slot'[j] = slot[j]
  <2>1. Acquired(d)
      BY <1>3 DEF SlotIsAcquired, Slots
  <2>2. ASSUME NEW k \in tasks, ReleaseSlot(k), k.held = d PROVE FALSE
      BY <1>1, <1>2, <2>2 DEF ReleaseSlot, Types, SlotTypes
  <2> QED
      BY <1>2, <2>1, <2>2, AcquiredStays
<1>4. ASSUME NEW e \in loop.held, CheckFlow(e), slot'[j] # slot[j] PROVE Acquired(d)'
  <2>1. e \in Delivery
      BY <1>1, LoopHeld DEF Types
  <2>2. slot' = [slot EXCEPT ![e.job] = e.token] /\ loop' = At("hand", e)
      BY <1>4 DEF CheckFlow, AcquireSlot
  <2>3. j = e.job /\ slot'[j] = e.token
      BY <1>1, <1>4, <2>2 DEF Types, SlotTypes
  <2>4. d = e
      BY <1>2, <2>1, <2>3, SameDelivery
  <2> QED
      BY <2>2, <2>4 DEF Acquired, At
<1>5. ASSUME NEW k \in tasks, ReleaseSlot(k) PROVE slot'[j] = slot[j]
    BY <1>1, <1>5 DEF ReleaseSlot, Types, SlotTypes
<1>6. ASSUME NEW i \in FlowJobs, SlotExpires(i) PROVE slot'[j] = slot[j]
    BY <1>1, <1>6 DEF SlotExpires, Types, SlotTypes
<1> QED
    BY <1>3, <1>4, <1>5, <1>6, SlotSteps

\* The pool gives no more slots than its limit.
LEMMA NextSlotsAreFew ==
    ASSUME Inv, SlotsAreFew, [Next]_vars
    PROVE  SlotsAreFew'
<1> USE JobDispatchAssumption
<1>1. Types /\ Cardinality(Slots) \in Nat
    BY FS_CardinalityType DEF Inv, SlotsAreFew
<1>2. ASSUME Slots' \subseteq Slots PROVE SlotsAreFew'
  <2>1. IsFiniteSet(Slots') /\ Cardinality(Slots') <= Cardinality(Slots) /\ Cardinality(Slots') \in Nat
      BY <1>2, FS_Subset, FS_CardinalityType DEF SlotsAreFew
  <2> QED
      BY <1>1, <2>1 DEF SlotsAreFew
<1>3. ASSUME NEW e \in loop.held, CheckFlow(e) PROVE SlotsAreFew'
  <2>1. CASE UNCHANGED slot
    <3>1. Slots' \subseteq Slots
        BY <2>1 DEF Slots
    <3> QED
        BY <1>2, <3>1
  <2>2. CASE Cardinality(Slots) < Limit /\ slot' = [slot EXCEPT ![e.job] = e.token]
    <3>1. Slots' \subseteq Slots \cup {e.job}
        BY <1>1, <2>2 DEF Slots, Types, SlotTypes
    <3>2. /\ IsFiniteSet(Slots \cup {e.job})
          /\ Cardinality(Slots \cup {e.job}) <= Cardinality(Slots) + 1
        BY <1>1, FS_AddElement DEF SlotsAreFew
    <3>3. /\ IsFiniteSet(Slots') /\ Cardinality(Slots') <= Cardinality(Slots \cup {e.job})
          /\ Cardinality(Slots') \in Nat /\ Cardinality(Slots \cup {e.job}) \in Nat
        BY <3>1, <3>2, FS_Subset, FS_CardinalityType
    <3> QED
        BY <1>1, <2>2, <3>2, <3>3 DEF SlotsAreFew
  <2> QED
      BY <1>1, <1>3, <2>1, <2>2 DEF CheckFlow, AcquireSlot
<1>4. ASSUME NEW k \in tasks, ReleaseSlot(k) PROVE Slots' \subseteq Slots
    BY <1>1, <1>4 DEF ReleaseSlot, Slots, Types, SlotTypes
<1>5. ASSUME NEW j \in FlowJobs, SlotExpires(j) PROVE Slots' \subseteq Slots
    BY <1>1, <1>5 DEF SlotExpires, Slots, Types, SlotTypes
<1>6. CASE UNCHANGED slot
  <2>1. Slots' \subseteq Slots
      BY <1>6 DEF Slots
  <2> QED
      BY <1>2, <2>1
<1> QED
    BY <1>2, <1>3, <1>4, <1>5, <1>6, SlotSteps

\* The polling lock is taken when nobody has it, deleted by the report or the return of its
\* owner, and does not expire while somebody attends to the owner.
LEMMA NextPollOfAcquired ==
    ASSUME Inv, QueuesOfTheApp, AllConnected, WaitersPoll, OneTask, PollOfAcquired, [Next]_vars, Undisturbed'
    PROVE  PollOfAcquired'
<1> SUFFICES ASSUME NEW d \in PollDelivery, Acquired(d)' PROVE polling' = {d}
    BY DEF PollOfAcquired
<1>1. Undisturbed /\ {"drop", "lapse", "dequeue", "slow"} \cap faults' = {}
    BY NothingBreaks
<1>2. CASE Acquired(d)
  <2>1. polling = {d} /\ Attended(d)
      BY <1>2, AcquiredIsAttended DEF PollOfAcquired
  <2>2. ASSUME NEW e \in loop.held, CheckPoll(e) PROVE polling' = {d}
      BY <2>1, <2>2 DEF CheckPoll
  <2>3. ASSUME NEW k \in tasks, DeletePollingLock(k) PROVE FALSE
    <3>1. k.held \in PollDelivery /\ Acquired(k.held)
        BY <2>3 DEF Inv, Types, AppTypes, Task, QueuesOfTheApp, DeletePollingLock, PollDelivery, Acquired
    <3>2. k.held = d
        BY <2>1, <3>1 DEF PollOfAcquired
    <3> QED
        BY <1>1, <2>3, <3>2, ReleasedIsNotAcquired
  <2>4. CASE PollingLockExpires
      BY <1>1, <2>1, <2>4 DEF PollingLockExpires, Happens
  <2> QED
      BY <2>1, <2>2, <2>3, <2>4, PollingSteps
<1>3. CASE d \in loop.held /\ (CheckFlow(d) \/ CheckPoll(d)) /\ loop' = At("hand", d)
  <2>1. CheckPoll(d)
      BY <1>3, JobDispatchAssumption DEF CheckFlow, PollDelivery
  <2>2. loop'.at = "hand"
      BY <1>3 DEF At
  <2>3. triggerLive /\ polling = {}
      BY <2>1, <2>2 DEF CheckPoll, At
  <2> QED
      BY <2>1, <2>3 DEF CheckPoll
<1> QED
    BY <1>2, <1>3, AcquiredBefore

(***************************************************************************)
(* The theorems.                                                           *)
(***************************************************************************)
\* Nobody has connected, nothing is parked, reported or acquired in the first state.
LEMMA InitLInv == Init => LInv
<1> SUFFICES ASSUME Init PROVE LInv
    OBVIOUS
<1>1. Inv
    BY InitInv
<1>2. Slots = {}
    BY DEF Init, Slots
<1>3. \A d : ~Acquired(d)
    BY DEF Init, Acquired, Idle
<1>4. QueuesOfTheApp
    BY DEF Init, QueuesOfTheApp, IsInjective
<1>5. AllConnected /\ WaitersPoll /\ OneTask /\ TasksHold
    BY DEF Init, AllConnected, WaitersPoll, OneTask, TasksHold, IsInjective
<1>6. SlotsAreFew
    BY <1>2, FS_EmptySet, JobDispatchAssumption DEF SlotsAreFew
<1>7. NotParked /\ SlotOfAcquired /\ SlotIsAcquired /\ PollOfAcquired
    BY <1>2, <1>3 DEF NotParked, SlotOfAcquired, SlotIsAcquired, PollOfAcquired
<1> QED
    BY <1>1, <1>4, <1>5, <1>6, <1>7 DEF LInv, Limits

\* Every step keeps the invariant.
LEMMA NextLInv ==
    ASSUME LInv, [Next]_vars
    PROVE  LInv'
<1>1. Inv' /\ QueuesOfTheApp'
    BY NextInv, NextQueuesOfTheApp DEF LInv
<1>2. ASSUME Undisturbed' PROVE Limits'
  <2>1. Limits /\ Inv /\ QueuesOfTheApp
      BY <1>2, NothingBreaks DEF LInv
  <2>2. AllConnected' /\ WaitersPoll' /\ OneTask'
      BY <1>2, <2>1, NextAllConnected, NextWaitersPoll, NextOneTask DEF Limits
  <2>3. TasksHold' /\ NotParked'
      BY <1>2, <2>1, NextTasksHold, NextNotParked DEF Limits
  <2>4. SlotOfAcquired' /\ SlotIsAcquired' /\ SlotsAreFew'
      BY <1>2, <2>1, NextSlotOfAcquired, NextSlotIsAcquired, NextSlotsAreFew DEF Limits
  <2>5. PollOfAcquired'
      BY <1>2, <2>1, NextPollOfAcquired DEF Limits
  <2> QED
      BY <2>2, <2>3, <2>4, <2>5 DEF Limits
<1> QED
    BY <1>1, <1>2 DEF LInv

\* In every behaviour that nothing but the harmless faults disturbs, what has passed the
\* interceptors holds what it acquired (rate-limiter-interceptor.ts,
\* polling-exclusivity-interceptor.ts).
THEOREM LimitsInvariant == Spec => []LInv
<1>1. ASSUME LInv, [Next]_vars PROVE LInv'
    BY <1>1, NextLInv
<1> QED
    BY <1>1, InitLInv, PTL DEF Spec

\* Each worker that runs a flow holds a slot of its own.
LEMMA LimitFollows == LInv => LimitHoldsUndisturbed
<1> SUFFICES ASSUME LInv, Undisturbed PROVE Cardinality(Running(FlowJobs)) <= Limit
    BY DEF LimitHoldsUndisturbed, Undisturbed, ConcurrencyIsLimited
<1>1. Inv /\ Limits
    BY DEF LInv
<1> DEFINE R == Running(FlowJobs)
           Of(w) == CHOOSE d \in work[w].held : TRUE
           f == [w \in R |-> Of(w).job]
<1>2. \A w \in R : w \in Workers /\ Of(w) \in work[w].held /\ work[w].held = {Of(w)}
                   /\ Of(w) \in FlowDelivery /\ Of(w) \in Delivery
  <2> TAKE w \in R
  <2>1. PICK d \in Delivery : d \in work[w].held /\ d.job \in FlowJobs
      BY DEF Running, Runs
  <2>2. w \in Workers
      BY DEF Running
  <2>3. work[w].held = {d}
      BY <1>1, <2>1, <2>2, WorkHeld DEF Inv, Types
  <2>4. Of(w) = d
      BY <2>3
  <2> QED
      BY <2>1, <2>2, <2>3, <2>4 DEF FlowDelivery
<1> HIDE DEF Of
<1>3. \A w \in R : Of(w).job \in Slots
  <2> TAKE w \in R
  <2>1. Acquired(Of(w))
      BY <1>2 DEF Acquired
  <2>2. slot[Of(w).job] = Of(w).token /\ Of(w).token # NoToken /\ Of(w).job \in FlowJobs
      BY <1>1, <1>2, <2>1 DEF Limits, SlotOfAcquired, FlowDelivery, Delivery, Tokens, NoToken
  <2> QED
      BY <2>2 DEF Slots
<1>4. \A v \in R, w \in R : Of(v).job = Of(w).job => v = w
  <2> SUFFICES ASSUME NEW v \in R, NEW w \in R, Of(v).job = Of(w).job PROVE v = w
      OBVIOUS
  <2>1. slot[Of(v).job] = Of(v).token /\ slot[Of(w).job] = Of(w).token
      BY <1>1, <1>2 DEF Limits, SlotOfAcquired, Acquired
  <2>2. Of(v) = Of(w)
      BY <1>2, <2>1, SameDelivery
  <2> QED
      BY <1>1, <1>2, <2>2 DEF Inv, OnePlace
<1> HIDE DEF R
<1>5. f \in [R -> Slots] /\ \A v \in R, w \in R : f[v] = f[w] => v = w
    BY <1>3, <1>4
<1>6. f \in Injection(R, Slots)
    BY <1>5 DEF Injection, IsInjective
<1>7. IsFiniteSet(Slots) /\ Cardinality(Slots) <= Limit
    BY <1>1 DEF Limits, SlotsAreFew
<1>8. IsFiniteSet(R) /\ Cardinality(R) <= Cardinality(Slots)
    BY <1>6, <1>7, FS_Injection
<1>9. Cardinality(R) \in Nat /\ Cardinality(Slots) \in Nat /\ Limit \in Nat
    BY <1>7, <1>8, FS_CardinalityType, JobDispatchAssumption
<1> QED
    BY <1>7, <1>8, <1>9 DEF R

\* Workers that poll hold the one polling lock, and a delivery is with one worker.
LEMMA OnePollFollows == LInv => OnePollUndisturbed
<1> SUFFICES ASSUME LInv, Undisturbed PROVE Cardinality(Running(PollJobs)) <= 1
    BY DEF OnePollUndisturbed, Undisturbed
<1>1. Inv /\ Limits
    BY DEF LInv
<1> DEFINE R == Running(PollJobs)
<1>2. \A v \in R, w \in R : v = w
  <2> SUFFICES ASSUME NEW v \in R, NEW w \in R PROVE v = w
      OBVIOUS
  <2>1. PICK d \in PollDelivery : v \in Workers /\ d \in work[v].held
      BY DEF Running, Runs, PollDelivery
  <2>2. PICK e \in PollDelivery : w \in Workers /\ e \in work[w].held
      BY DEF Running, Runs, PollDelivery
  <2>3. polling = {d} /\ polling = {e}
      BY <1>1, <2>1, <2>2 DEF Limits, PollOfAcquired, Acquired
  <2> QED
      BY <1>1, <2>1, <2>2, <2>3 DEF Inv, OnePlace
<1> HIDE DEF R
<1>3. R = {} \/ \E w : R = {w}
    BY <1>2
<1>4. Cardinality(R) \in {0, 1}
    BY <1>3, FS_EmptySet, FS_Singleton
<1> QED
    BY <1>4 DEF R

\* As long as no connection breaks, no running job's lock lapses, no dequeue fails half-way and
\* no handler is too slow, no more flows run than the pool allows
\* (rate-limiter-interceptor.ts; docs/admin-guide/guides/manage-concurrency.mdx:9).
THEOREM LimitHolds == Spec => []LimitHoldsUndisturbed
BY LimitsInvariant, LimitFollows, PTL

\* Under the same conditions one poll of a flow version runs at a time
\* (polling-exclusivity-interceptor.ts:26).
THEOREM OnePollRuns == Spec => []OnePollUndisturbed
BY LimitsInvariant, OnePollFollows, PTL

(***************************************************************************)
(* Types.  Types and QueuesOfTheApp leave the bounds of the two counters   *)
(* and the variables that nothing above depends on.                        *)
(***************************************************************************)
\* Only a failed job has used up its attempts, and a job that stalled too often is not
\* active again
Counters ==
    /\ failures \in [Jobs -> Nat]
    /\ \A j \in Jobs : /\ failures[j] <= Attempts
                       /\ queue[j] # "failed" => failures[j] < Attempts
                       /\ stalls[j] <= MaxStalledCount + 1
                       /\ queue[j] = "active" => stalls[j] <= MaxStalledCount

OtherTypes ==
    /\ polling \in OneOrNone(Delivery)
    /\ triggerLive \in BOOLEAN
    /\ faults \subseteq AllFaults
    /\ leaked \subseteq FlowJobs

TypeInv == Inv /\ QueuesOfTheApp /\ Counters /\ OtherTypes

\* Only a failed report counts an attempt.
LEMMA FailureSteps ==
    ASSUME [Next]_vars
    PROVE  UNCHANGED failures \/ \E k \in tasks : Complete(k)
<1>1. ASSUME NEW w \in Workers, WorkerStep(w) PROVE UNCHANGED failures
    BY <1>1 DEF WorkerStep, Connect, Poll, PollTimesOut, Drop, Finish, LateReport, LateReportIsLost
<1>2. ASSUME NEW d \in loop.held, LoopStep(d) \/ DequeueFails(d) PROVE UNCHANGED failures
    BY <1>2 DEF LoopStep, DequeueFails, CheckFlow, CheckPoll, Reject, Discard, HandOver, Orphan, LoopGoesOn
<1>3. ASSUME NEW k \in tasks, TaskStep(k), ~Complete(k) PROVE UNCHANGED failures
    BY <1>3 DEF TaskStep, ReportOfGone, Return, ReleaseSlot, Promote, ReadPollingLock,
         DeletePollingLock, CleanupFails
<1>4. ASSUME NEW c \in Connections, Disconnect(c) PROVE UNCHANGED failures
    BY <1>4 DEF Disconnect
<1>5. ASSUME NEW j \in Jobs, QueueStep(j) PROVE UNCHANGED failures
    BY <1>5 DEF QueueStep, Dequeue, FailDeferred, Due, Lapse, StalledScan
<1>6. ASSUME NEW j \in FlowJobs, SlotExpires(j) PROVE UNCHANGED failures
    BY <1>6 DEF SlotExpires
<1>7. CASE PollingLockExpires \/ Disable \/ AppDies \/ UNCHANGED vars
    BY <1>7 DEF PollingLockExpires, Disable, AppDies, vars
<1> QED
    BY <1>1, <1>2, <1>3, <1>4, <1>5, <1>6, <1>7, NextSteps

\* A job leaves "active" with its last failure, and becomes active only before it has stalled
\* too often.
LEMMA NextCounters ==
    ASSUME Inv, Counters, [Next]_vars
    PROVE  Counters'
<1> USE JobDispatchAssumption
<1>1. Types /\ Types'
    BY NextTypes DEF Inv
<1>2. /\ queue \in [Jobs -> {"waiting", "active", "delayed", "completed", "failed"}]
      /\ stalls \in [Jobs -> Nat] /\ failures \in [Jobs -> Nat]
    BY <1>1 DEF Types, QueueTypes, Counters
<1> DEFINE Small(q, f, s) == /\ f <= Attempts
                             /\ q # "failed" => f < Attempts
                             /\ s <= MaxStalledCount + 1
                             /\ q = "active" => s <= MaxStalledCount
<1>3. \A j \in Jobs : Small(queue[j], failures[j], stalls[j])
    BY DEF Counters
<1>4. ASSUME UNCHANGED failures, \A j \in Jobs : Small(queue'[j], failures[j], stalls'[j])
      PROVE  Counters'
    BY <1>2, <1>4 DEF Counters
<1>5. ASSUME UNCHANGED <<failures, stalls>>,
             \A j \in Jobs : \/ queue'[j] = queue[j]
                             \/ queue[j] # "failed" /\ queue'[j] # "active"
      PROVE  Counters'
    BY <1>2, <1>3, <1>4, <1>5
<1>6. ASSUME NEW k \in tasks, Complete(k) PROVE Counters'
  <2> DEFINE j == k.held.job
  <2>1. j \in Jobs /\ k.held.token # NoToken
      BY <1>1 DEF Types, AppTypes, Task, Delivery, Tokens, NoToken
  <2>2. lock[j] = k.held.token => queue[j] = "active"
      BY <2>1 DEF Inv, LockedIsActive
  <2>3. UNCHANGED stalls
      BY <1>6 DEF Complete
  <2>4. CASE UNCHANGED <<queue, failures>>
      BY <1>5, <2>3, <2>4
  <2>5. CASE /\ lock[j] = k.held.token /\ UNCHANGED failures
             /\ MoveTo(j, "completed")
    <3>1. \A i \in Jobs : queue'[i] = queue[i] \/ (queue[i] # "failed" /\ queue'[i] # "active")
        BY <1>2, <2>1, <2>2, <2>5 DEF MoveTo
    <3> QED
        BY <1>5, <2>3, <2>5, <3>1
  <2>6. CASE /\ lock[j] = k.held.token
             /\ failures' = [failures EXCEPT ![j] = @ + 1]
             /\ MoveTo(j, IF failures[j] + 1 < Attempts THEN "delayed" ELSE "failed")
    <3>1. failures' \in [Jobs -> Nat]
        BY <1>2, <2>1, <2>6
    <3>2. Small(queue[j], failures[j], stalls[j]) /\ queue[j] = "active"
        BY <1>3, <2>1, <2>2, <2>6
    <3>3. /\ failures'[j] = failures[j] + 1 /\ stalls'[j] = stalls[j]
          /\ queue'[j] = IF failures[j] + 1 < Attempts THEN "delayed" ELSE "failed"
        BY <1>2, <2>1, <2>3, <2>6 DEF MoveTo
    <3>4. Small(queue'[j], failures'[j], stalls'[j])
        BY <1>2, <2>1, <3>2, <3>3
    <3>5. ASSUME NEW i \in Jobs, i # j PROVE Small(queue'[i], failures'[i], stalls'[i])
      <4>1. queue'[i] = queue[i] /\ failures'[i] = failures[i] /\ stalls'[i] = stalls[i]
          BY <1>2, <2>3, <2>6, <3>5 DEF MoveTo
      <4> QED
          BY <1>3, <4>1
    <3>6. \A i \in Jobs : Small(queue'[i], failures'[i], stalls'[i])
        BY <3>4, <3>5
    <3> QED
        BY <3>1, <3>6 DEF Counters
  <2> QED
      BY <1>6, <2>4, <2>5, <2>6 DEF Complete
<1>7. ASSUME NEW k \in tasks, Return(k) PROVE Counters'
  <2>1. k.held.job \in Jobs /\ k.held.token # NoToken
      BY <1>1 DEF Types, AppTypes, Task, Delivery, Tokens, NoToken
  <2>2. lock[k.held.job] = k.held.token => queue[k.held.job] = "active"
      BY <2>1 DEF Inv, LockedIsActive
  <2>3. UNCHANGED <<failures, stalls>>
        /\ \/ UNCHANGED queue
           \/ queue[k.held.job] = "active" /\ queue' = [queue EXCEPT ![k.held.job] = "delayed"]
      BY <1>7, <2>2 DEF Return, MoveTo
  <2>4. \A i \in Jobs : queue'[i] = queue[i] \/ (queue[i] # "failed" /\ queue'[i] # "active")
      BY <1>2, <2>1, <2>3
  <2> QED
      BY <1>5, <2>3, <2>4
<1>8. ASSUME NEW k \in tasks, Promote(k) PROVE Counters'
  <2>1. UNCHANGED <<failures, stalls>>
        /\ \A i \in Jobs : queue'[i] = queue[i] \/ (queue[i] # "failed" /\ queue'[i] # "active")
      BY <1>8 DEF Promote
  <2> QED
      BY <1>5, <2>1
<1>9. ASSUME NEW d \in loop.held, Reject(d) \/ Discard(d) PROVE Counters'
  <2>1. queue[d.job] = "active"
      BY <1>9 DEF Reject, Discard, Holds, Inv, LoopHolds
  <2>2. UNCHANGED <<failures, stalls>>
        /\ \A i \in Jobs : queue'[i] = queue[i] \/ (queue[i] # "failed" /\ queue'[i] # "active")
      BY <1>2, <1>9, <2>1 DEF Reject, Discard
  <2> QED
      BY <1>5, <2>2
<1>10. ASSUME NEW j \in Jobs, QueueStep(j) PROVE Counters'
  <2>1. CASE Dequeue(j)
    <3>1. /\ UNCHANGED <<failures, stalls>> /\ queue' = [queue EXCEPT ![j] = "active"]
          /\ queue[j] # "failed" /\ ~(stalls[j] > MaxStalledCount)
        BY <2>1 DEF Dequeue, Deferred
    <3>2. \A i \in Jobs : Small(queue'[i], failures[i], stalls'[i])
        BY <1>2, <1>3, <3>1
    <3> QED
        BY <1>4, <3>1, <3>2
  <2>2. CASE FailDeferred(j) \/ Due(j)
    <3>1. UNCHANGED <<failures, stalls>>
          /\ \A i \in Jobs : queue'[i] = queue[i] \/ (queue[i] # "failed" /\ queue'[i] # "active")
        BY <1>2, <2>2 DEF FailDeferred, Due
    <3> QED
        BY <1>5, <3>1
  <2>3. CASE Lapse(j)
    <3>1. UNCHANGED <<failures, stalls, queue>>
        BY <2>3 DEF Lapse
    <3> QED
        BY <1>5, <3>1
  <2>4. CASE StalledScan(j)
    <3>1. /\ UNCHANGED failures /\ queue' = [queue EXCEPT ![j] = "waiting"]
          /\ stalls' = [stalls EXCEPT ![j] = @ + 1] /\ queue[j] = "active"
        BY <2>4 DEF StalledScan
    <3>2. queue'[j] = "waiting" /\ stalls'[j] = stalls[j] + 1 /\ stalls[j] <= MaxStalledCount
        BY <1>2, <1>3, <3>1
    <3>3. Small(queue'[j], failures[j], stalls'[j])
        BY <1>2, <1>3, <3>1, <3>2
    <3>4. \A i \in Jobs \ {j} : queue'[i] = queue[i] /\ stalls'[i] = stalls[i]
        BY <1>2, <3>1
    <3>5. \A i \in Jobs : Small(queue'[i], failures[i], stalls'[i])
        BY <1>3, <3>3, <3>4
    <3> QED
        BY <1>4, <3>1, <3>5
  <2> QED
      BY <1>10, <2>1, <2>2, <2>3, <2>4 DEF QueueStep
<1>11. ASSUME UNCHANGED <<queue, lock, stalls>>, UNCHANGED failures PROVE Counters'
    BY <1>5, <1>11
<1> QED
    BY <1>6, <1>7, <1>8, <1>9, <1>10, <1>11, FailureSteps, LockSteps

\* The polling lock is of a delivery, and nothing happens that is not a fault.
LEMMA NextOtherTypes ==
    ASSUME Inv, OtherTypes, [Next]_vars
    PROVE  OtherTypes'
<1>1. polling' \in OneOrNone(Delivery)
  <2>1. ASSUME NEW d \in loop.held, CheckPoll(d) PROVE polling' \in OneOrNone(Delivery)
    <3>1. d \in Delivery
        BY LoopHeld DEF Inv, Types
    <3> QED
        BY <2>1, <3>1 DEF CheckPoll, OtherTypes, OneOrNone
  <2>2. ASSUME NEW k \in tasks, DeletePollingLock(k) PROVE polling' \in OneOrNone(Delivery)
      BY <2>2 DEF DeletePollingLock, OneOrNone
  <2>3. CASE PollingLockExpires
      BY <2>3 DEF PollingLockExpires, OneOrNone
  <2> QED
      BY <2>1, <2>2, <2>3, PollingSteps DEF OtherTypes
<1>2. \A fault : Happens(fault) => faults' \subseteq AllFaults
    BY JobDispatchAssumption DEF Happens
<1>3. Breaks => faults' \subseteq AllFaults
    BY <1>2 DEF Breaks, OtherTypes
<1> DEFINE Fits == /\ triggerLive' \in BOOLEAN /\ faults' \subseteq AllFaults
                  /\ leaked' \subseteq FlowJobs
<1> USE DEF OtherTypes
<1>4. ASSUME NEW w \in Workers, WorkerStep(w) PROVE Fits
    BY <1>2, <1>3, <1>4 DEF WorkerStep, Connect, Poll, PollTimesOut, Drop, Finish, LateReport,
       LateReportIsLost
<1>5. ASSUME NEW d \in loop.held, LoopStep(d) \/ DequeueFails(d) PROVE Fits
    BY <1>2, <1>5 DEF LoopStep, DequeueFails, CheckFlow, CheckPoll, Reject, Discard, HandOver, Orphan,
       LoopGoesOn
<1>6. ASSUME NEW k \in tasks, TaskStep(k) PROVE Fits
    BY <1>2, <1>6 DEF TaskStep, ReportOfGone, Complete, Return, ReleaseSlot, Promote, ReadPollingLock,
       DeletePollingLock, CleanupFails, Unreleased, Slots
<1>7. ASSUME NEW c \in Connections, Disconnect(c) PROVE Fits
    BY <1>3, <1>7 DEF Disconnect
<1>8. ASSUME NEW j \in Jobs, QueueStep(j) PROVE Fits
    BY <1>2, <1>8 DEF QueueStep, Dequeue, FailDeferred, Due, Lapse, StalledScan
<1>9. ASSUME NEW j \in FlowJobs, SlotExpires(j) PROVE Fits
    BY <1>9 DEF SlotExpires
<1>10. CASE PollingLockExpires
    BY <1>1, <1>2, <1>10 DEF PollingLockExpires
<1>11. CASE Disable
    BY <1>2, <1>11 DEF Disable
<1>12. CASE UNCHANGED vars
    BY <1>12 DEF vars
<1>13. CASE AppDies
    BY <1>2, <1>13 DEF AppDies, Unreleased, Slots
<1> QED
    BY <1>1, <1>4, <1>5, <1>6, <1>7, <1>8, <1>9, <1>10, <1>11, <1>12, <1>13, NextSteps

\* JobDispatch is type correct.
THEOREM TypeCorrect == Spec => []TypeOK
<1>1. Init => TypeInv
  <2> SUFFICES ASSUME Init PROVE TypeInv
      OBVIOUS
  <2>1. Inv /\ QueuesOfTheApp
      BY InitLInv DEF LInv
  <2>2. Counters /\ OtherTypes
      BY JobDispatchAssumption DEF Init, Counters, OtherTypes, OneOrNone
  <2> QED
      BY <2>1, <2>2 DEF TypeInv
<1>2. ASSUME TypeInv, [Next]_vars PROVE TypeInv'
    BY <1>2, NextInv, NextQueuesOfTheApp, NextCounters, NextOtherTypes DEF TypeInv
<1>3. TypeInv => TypeOK
  <2> SUFFICES ASSUME TypeInv PROVE TypeOK
      OBVIOUS
  <2>1. /\ failures \in [Jobs -> 0..Attempts]
        /\ stalls \in [Jobs -> 0..MaxStalledCount + 1]
      BY JobDispatchAssumption DEF TypeInv, Counters, Inv, Types, QueueTypes
  <2> QED
      BY <2>1 DEF TypeInv, Inv, Types, QueueTypes, SlotTypes, LoopTypes, AppTypes, WorkerTypes,
         QueuesOfTheApp, OtherTypes, TypeOK
<1> QED
    BY <1>1, <1>2, <1>3, PTL DEF Spec

=============================================================================
