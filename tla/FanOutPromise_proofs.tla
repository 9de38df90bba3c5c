------------------------- MODULE FanOutPromise_proofs -------------------------
(***************************************************************************)
(* FanOutDispatch implements FanOutPromise: what its actions make of the   *)
(* claims, the child runs and the signals is, batch by batch, a start, a   *)
(* report, a call-off or a give-up of the promise, or nothing it sees.     *)
(* Then what dispatch leaves behind once it is over: the conclusions about *)
(* a barrier that still waits, or was released, when nothing is left that  *)
(* could dispatch, settle or give up.                                      *)
(***************************************************************************)
EXTENDS FanOutDispatch_proofs, FiniteSetTheorems, WellFoundedInduction

(***************************************************************************)
(* The states of a child that has ended, or that a cancel has reached.     *)
(***************************************************************************)
Over == {"canceled", "stopped", "lingering", "revived", "finished"}

\* While the barrier waits, the signal of such a child has its outcome
EndIsReported ==
    barrier = "PENDING" =>
        \A c \in Children : run[c] \in Over => signal[c[1]] = "REPORTED"

PInv == IInv /\ EndIsReported

(***************************************************************************)
(* What a step does to the rows.                                           *)
(***************************************************************************)
Rests  == UNCHANGED <<barrier, signal, run>>
Sweeps == SweepUnclaimed /\ UNCHANGED <<barrier, run>>
Closes == barrier = "PENDING" /\ barrier' # "PENDING" /\ UNCHANGED run

\* A call that fails changes no row, and not the job of the dispatcher either.
LEMMA OutageRests == ASSUME Outage PROVE UNCHANGED <<barrier, rows, jobVars, source, evaluation>>
BY DEF Outage, CreateFails, GiveUpFails, ReportFails, LateSettleFails, SettleFails, AddGiveUpFails

\* Every step leaves the rows alone, sweeps, closes the barrier, or is one of the actions
\* that create, enqueue, start, end or cancel children.
LEMMA RowSteps ==
    ASSUME [Next]_vars
    PROVE  \/ Rests \/ Sweeps \/ Closes \/ CancelChildren
           \/ \E d \in Dispatchers : ClaimChunk(d)
           \/ \E d \in Dispatchers, c \in Children :
                EnqueueChild(d, c) \/ EnqueueFails(d, c) \/ CancelUnstartedChild(d, c)
           \/ \E c \in Children : ChildStarts(c) \/ ChildReports(c) \/ CancelChild(c)
<1>1. CASE Creation
  BY <1>1 DEF Creation, PutSource, AddFanOutDispatch, CreateEnqueuesEvaluation, Rests, rows
<1>2. ASSUME NEW d \in Dispatchers, DispatcherStep(d)
      PROVE  \/ Rests \/ Sweeps \/ ClaimChunk(d)
             \/ \E c \in Children :
                  EnqueueChild(d, c) \/ EnqueueFails(d, c) \/ CancelUnstartedChild(d, c)
  <2>1. CASE SettleUnclaimedSignals(d)
    BY <2>1 DEF SettleUnclaimedSignals, Sweeps
  <2>2. ASSUME NEW c \in Children, SettleIfGaveUp(d, c) PROVE Rests \/ Sweeps
    BY <2>2 DEF SettleIfGaveUp, Sweeps, Rests
  <2>3. CASE \/ TakeDispatch(d) \/ CheckBarrier(d) \/ LoadSource(d) \/ ProbeUnclaimed(d)
             \/ CreditsExhausted(d) \/ ClaimNothing(d) \/ ClaimClosed(d)
    BY <2>3 DEF TakeDispatch, CheckBarrier, LoadSource, ProbeUnclaimed, CreditsExhausted,
                ClaimNothing, ClaimClosed, Rests, rows
  <2>4. CASE \/ FinishChunk(d) \/ EvaluateAndReturn(d) \/ CompleteJob(d) \/ FailJob(d)
             \/ AddGiveUp(d) \/ EvaluateLate(d)
    BY <2>4 DEF FinishChunk, EvaluateAndReturn, CompleteJob, FailJob, AddGiveUp, EvaluateLate,
                Rests, rows
  <2> QED
    BY <1>2, <2>1, <2>2, <2>3, <2>4 DEF DispatcherStep
<1>3. CASE GiveUpStep
  BY <1>3 DEF GiveUpStep, GiveUpDeletesSource, GiveUpSettles, GiveUpEvaluates, Rests,
              Sweeps, rows
<1>4. CASE BarrierStep
  BY <1>4 DEF BarrierStep, ReportEvaluates, Evaluate, DeadlineRelease, ReleaseDeletesSource,
              CancelParent, Rests, Closes, rows
<1>5. CASE Fault
  BY <1>5, OutageRests DEF Fault, RepeatCreate, SourceExpires, Stall, Crash, EnqueueTxAborts,
                           Rests, rows
<1>6. CASE UNCHANGED vars
  BY <1>6 DEF vars, Rests
<1> QED
  BY <1>1, <1>2, <1>3, <1>4, <1>5, <1>6 DEF Next, ChildStep

(***************************************************************************)
(* What the barrier would say of a batch, by its child.                    *)
(***************************************************************************)
\* A child that has no row, or has none any more, has no job.
LEMMA NoRowNoJob ==
    \A c \in Children : run[c] \in {"none", "deleted", "created", "canceled"} => ~Enqueued(c)
BY DEF Enqueued, Live

\* While the barrier waits, the outcome of a batch that has a child is the state of that
\* child, and the batch has been started if the child has a job.
ChildSays ==
    barrier = "PENDING" =>
        \A c \in Children : run[c] \notin {"none", "deleted"} =>
            /\ OutcomeOf(c[1]) = CASE run[c] = "created"  -> "waiting"
                                   [] Live(c)             -> "running"
                                   [] run[c] = "canceled" -> "called off"
                                   [] OTHER               -> "reported"
            /\ c[1] \in Started <=> Enqueued(c)

\* The outcome of a batch that has a child follows from the state of that child.
LEMMA OutcomeOfChild == PInv => ChildSays
<1> SUFFICES ASSUME PInv, barrier = "PENDING", NEW c \in Children, run[c] \notin {"none", "deleted"}
             PROVE  /\ OutcomeOf(c[1]) = CASE run[c] = "created"  -> "waiting"
                                           [] Live(c)             -> "running"
                                           [] run[c] = "canceled" -> "called off"
                                           [] OTHER               -> "reported"
                    /\ c[1] \in Started <=> Enqueued(c)
  BY DEF ChildSays
<1>1. c[1] \in Signals /\ c[2] \in 1..MaxClaims /\ c = <<c[1], c[2]>>
  BY DEF Children
<1>2. \A n \in 1..MaxClaims : n # c[2] => run[<<c[1], n>>] \in {"none", "deleted"}
  BY <1>1 DEF PInv, IInv, Claims, ClaimHolds, TypeOK, Children
<1>3. \A n \in 1..MaxClaims : n # c[2] => ~Enqueued(<<c[1], n>>) /\ ~Live(<<c[1], n>>)
  BY <1>2 DEF Enqueued, Live
<1>4. (\E n \in 1..MaxClaims : Enqueued(<<c[1], n>>)) <=> Enqueued(c)
  BY <1>1, <1>3
<1>5. (\E n \in 1..MaxClaims : Live(<<c[1], n>>)) <=> Live(c)
  BY <1>1, <1>3
<1>6. run[c] \in {"created", "queued", "running"} => signal[c[1]] = "PENDING"
  BY DEF PInv, IInv, Claims, ClaimHolds
<1>7. run[c] \in Over => signal[c[1]] = "REPORTED"
  BY DEF PInv, EndIsReported
<1>8. run[c] \in {"created", "queued", "running"} \cup Over
  BY DEF PInv, IInv, TypeOK, RunState, Over
<1>9. c[1] \in Started <=> Enqueued(c)
  BY <1>1, <1>4 DEF Started
<1>10. CASE run[c] \in {"created", "queued", "running"}
  BY <1>1, <1>5, <1>6, <1>9, <1>10 DEF OutcomeOf, Live
<1>11. CASE run[c] \in Over
  BY <1>1, <1>4, <1>5, <1>7, <1>9, <1>11 DEF OutcomeOf, Enqueued, Live, Over
<1> QED
  BY <1>8, <1>9, <1>10, <1>11

\* An unclaimed batch waits and has not been started.
LEMMA UnclaimedWaits ==
    ASSUME PInv, barrier = "PENDING", NEW s \in Signals, Unclaimed(s)
    PROVE  OutcomeOf(s) = "waiting" /\ s \notin Started
<1>1. \A n \in 1..MaxClaims : <<s, n>> \in Children /\ run[<<s, n>>] \in {"none", "deleted"}
  BY DEF PInv, IInv, Claims, ClaimHolds, Unclaimed, Children
<1>2. \A n \in 1..MaxClaims : ~Enqueued(<<s, n>>) /\ ~Live(<<s, n>>)
  BY <1>1 DEF Enqueued, Live
<1> QED
  BY <1>2 DEF Unclaimed, OutcomeOf, Started

\* The outcome of a batch is the same while its signal is and its children are as far.
LEMMA SameOutcome ==
    ASSUME barrier' = barrier, NEW s \in Signals, signal'[s] = signal[s],
           \A n \in 1..MaxClaims : /\ Enqueued(<<s, n>>)' <=> Enqueued(<<s, n>>)
                                   /\ Live(<<s, n>>)' <=> Live(<<s, n>>)
    PROVE  OutcomeOf(s)' = OutcomeOf(s) /\ (s \in Started' <=> s \in Started)
<1>1. (\E n \in 1..MaxClaims : Enqueued(<<s, n>>)') <=> \E n \in 1..MaxClaims : Enqueued(<<s, n>>)
  OBVIOUS
<1>2. (\E n \in 1..MaxClaims : Live(<<s, n>>)') <=> \E n \in 1..MaxClaims : Live(<<s, n>>)
  OBVIOUS
<1> QED
  BY <1>1, <1>2 DEF OutcomeOf, Started

\* A step of one child concerns its own batch only.
LEMMA OtherBatches ==
    ASSUME PInv, barrier' = barrier, NEW c \in Children, NEW new, run' = [run EXCEPT ![c] = new],
           \A s \in Signals : s # c[1] => signal'[s] = signal[s]
    PROVE  \A s \in Signals : s # c[1] => OutcomeOf(s)' = OutcomeOf(s)
                                          /\ (s \in Started' <=> s \in Started)
<1> SUFFICES ASSUME NEW s \in Signals, s # c[1]
             PROVE  OutcomeOf(s)' = OutcomeOf(s) /\ (s \in Started' <=> s \in Started)
  OBVIOUS
<1>1. \A n \in 1..MaxClaims : <<s, n>> \in Children /\ <<s, n>> # c
  BY DEF Children
<1>2. \A n \in 1..MaxClaims : run'[<<s, n>>] = run[<<s, n>>]
  BY <1>1 DEF PInv, IInv, TypeOK
<1>3. \A n \in 1..MaxClaims : /\ Enqueued(<<s, n>>)' <=> Enqueued(<<s, n>>)
                              /\ Live(<<s, n>>)' <=> Live(<<s, n>>)
  BY <1>2 DEF Enqueued, Live
<1> QED
  BY <1>3, SameOutcome

(***************************************************************************)
(* The invariant.                                                          *)
(***************************************************************************)
\* An outcome that reached its signal stays there while the barrier waits.
LEMMA OutcomesStay ==
    ASSUME PInv, [Next]_vars, barrier' = "PENDING"
    PROVE  barrier = "PENDING" /\ \A s \in Signals : signal[s] = "REPORTED" => signal'[s] = "REPORTED"
<1> USE DEF PInv, IInv, TypeOK
<1>1. CASE Rests \/ Sweeps \/ Closes \/ CancelChildren
  BY <1>1 DEF Rests, Sweeps, SweepUnclaimed, Unclaimed, Closes, CancelChildren
<1>2. ASSUME NEW d \in Dispatchers, ClaimChunk(d)
      PROVE  barrier = "PENDING" /\ UNCHANGED signal
  BY <1>2 DEF ClaimChunk
<1>3. ASSUME NEW d \in Dispatchers, NEW c \in Children,
             EnqueueChild(d, c) \/ EnqueueFails(d, c) \/ CancelUnstartedChild(d, c)
      PROVE  barrier = "PENDING" /\ UNCHANGED signal
  BY <1>3 DEF EnqueueChild, EnqueueFails, CancelUnstartedChild
<1>4. ASSUME NEW c \in Children, ChildStarts(c) \/ ChildReports(c) \/ CancelChild(c)
      PROVE  barrier = "PENDING" /\ \A s \in Signals : signal[s] = "REPORTED" => signal'[s] = "REPORTED"
  BY <1>4 DEF ChildStarts, ChildReports, CancelChild, ReceiveSignal
<1> QED
  BY <1>1, <1>2, <1>3, <1>4, RowSteps

\* A child's signal takes its outcome in the step that ends or cancels the child.
LEMMA OutcomeIsReceived ==
    ASSUME PInv, barrier = "PENDING", NEW c \in Children, run[c] \notin {"none", "deleted"},
           ReceiveSignal(c)
    PROVE  signal' = [signal EXCEPT ![c[1]] = "REPORTED"] /\ signal'[c[1]] = "REPORTED"
<1>1. refId[c[1]] = c[2] /\ c[1] \in Signals
  BY DEF PInv, IInv, Claims, ClaimHolds, Children
<1>2. signal[c[1]] # "DELETED"
  BY DEF PInv, IInv, Claims, ClaimHolds, EndIsReported, TypeOK, RunState, Over
<1> QED
  BY <1>1, <1>2 DEF ReceiveSignal, PInv, IInv, TypeOK

\* While the barrier waits, a child that ended or was cancelled has been heard.
LEMMA NextEndIsReported == ASSUME PInv, [Next]_vars PROVE EndIsReported'
<1> SUFFICES ASSUME barrier' = "PENDING", NEW e \in Children, run'[e] \in Over
             PROVE  signal'[e[1]] = "REPORTED"
  BY DEF EndIsReported
<1>1. barrier = "PENDING" /\ \A s \in Signals : signal[s] = "REPORTED" => signal'[s] = "REPORTED"
  BY OutcomesStay
<1>2. CASE run[e] \in Over
  BY <1>1, <1>2 DEF PInv, EndIsReported, Children
<1>3. CASE run[e] \notin Over
  <2>1. ASSUME NEW c \in Children, ChildReports(c) \/ CancelChild(c)
        PROVE  signal'[e[1]] = "REPORTED"
    <3>1. run[c] \notin {"none", "deleted"} /\ ReceiveSignal(c)
      BY <2>1 DEF ChildReports, CancelChild, Live
    <3>2. e # c => run'[e] = run[e]
      BY <2>1 DEF ChildReports, CancelChild, PInv, IInv, TypeOK
    <3> QED
      BY <1>1, <1>3, <3>1, <3>2, OutcomeIsReceived
  <2>2. ASSUME NEW c \in Children, ChildStarts(c) PROVE FALSE
    BY <1>3, <2>2 DEF ChildStarts, PInv, IInv, TypeOK, Over
  <2>3. ASSUME NEW d \in Dispatchers, NEW c \in Children,
               EnqueueChild(d, c) \/ EnqueueFails(d, c) \/ CancelUnstartedChild(d, c)
        PROVE  FALSE
    <3>1. run[c] \in {"created", "canceled"}
      BY <2>3 DEF EnqueueChild, EnqueueFails, CancelUnstartedChild, PInv, IInv, Claims,
                  TodoIsUnstarted
    <3> QED
      BY <1>1, <1>3, <2>3, <3>1
      DEF EnqueueChild, EnqueueFails, CancelUnstartedChild, PInv, IInv, TypeOK, Over
  <2>4. ASSUME NEW d \in Dispatchers, ClaimChunk(d) PROVE FALSE
    BY <1>3, <2>4 DEF ClaimChunk, PInv, IInv, TypeOK, Over
  <2>5. CASE CancelChildren
    BY <1>1, <2>5 DEF CancelChildren, PInv, IInv, Claims, CancelOfGone
  <2>6. CASE Rests \/ Sweeps \/ Closes
    BY <1>3, <2>6 DEF Rests, Sweeps, Closes
  <2> QED
    BY <2>1, <2>2, <2>3, <2>4, <2>5, <2>6, RowSteps
<1> QED
  BY <1>2, <1>3

(***************************************************************************)
(* Every step is one of the promise, or a stutter.                         *)
(***************************************************************************)
Unseen == UNCHANGED <<(barrier = "PENDING"), Outcome, Started>>

\* What is said of one batch, put together for all of them.
LEMMA OneBatchChanges ==
    ASSUME NEW s \in Signals, NEW said, OutcomeOf(s)' = said,
           \A t \in Signals : t # s => OutcomeOf(t)' = OutcomeOf(t) /\ (t \in Started' <=> t \in Started)
    PROVE  /\ Outcome' = [Outcome EXCEPT ![s] = said]
           /\ Outcome[s] = OutcomeOf(s)
           /\ s \in Started' /\ s \notin Started => Started' = Started \cup {s}
           /\ (s \in Started' <=> s \in Started) => Started' = Started
<1>1. Outcome' = [t \in Signals |-> OutcomeOf(t)']
  BY DEF Outcome
<1>2. Outcome' = [Outcome EXCEPT ![s] = said] /\ Outcome[s] = OutcomeOf(s)
  BY <1>1 DEF Outcome
<1>3. \A t \in Started \cup Started' : t \in Signals
  BY DEF Started
<1>4. /\ s \in Started' /\ s \notin Started => Started' = Started \cup {s}
      /\ (s \in Started' <=> s \in Started) => Started' = Started
  BY <1>3
<1> QED
  BY <1>2, <1>4

\* Nothing is said anew while no batch changes.
LEMMA NoBatchChanges ==
    ASSUME barrier' = barrier,
           \A t \in Signals : OutcomeOf(t)' = OutcomeOf(t) /\ (t \in Started' <=> t \in Started)
    PROVE  Unseen
<1>1. Outcome' = Outcome
  BY DEF Outcome
<1>2. \A t \in Started \cup Started' : t \in Signals
  BY DEF Started
<1>3. Started' = Started
  BY <1>2
<1> QED
  BY <1>1, <1>3 DEF Unseen

\* A step of one child that leaves its batch as it was is not seen.
LEMMA ChildUnseen ==
    ASSUME PInv, barrier' = barrier, NEW c \in Children, NEW new, run' = [run EXCEPT ![c] = new],
           \A s \in Signals : s # c[1] => signal'[s] = signal[s],
           OutcomeOf(c[1])' = OutcomeOf(c[1]) /\ (c[1] \in Started' <=> c[1] \in Started)
    PROVE  Unseen
BY OtherBatches, NoBatchChanges

\* After the barrier closed nothing is said anew, and no batch starts.
LEMMA ClosedUnseen ==
    ASSUME barrier # "PENDING", barrier' # "PENDING",
           \A c \in Children : Enqueued(c)' <=> Enqueued(c)
    PROVE  Unseen
<1>1. \A s \in Signals : OutcomeOf(s)' = OutcomeOf(s)
  BY DEF OutcomeOf
<1>2. Outcome' = Outcome
  BY <1>1 DEF Outcome
<1>3. \A s \in Signals, n \in 1..MaxClaims : <<s, n>> \in Children
  BY DEF Children
<1>4. Started' = Started
  BY <1>3 DEF Started
<1> QED
  BY <1>2, <1>4 DEF Unseen

\* A step after which the same children have a job, and the same are live, is not seen.
LEMMA JobsUnseen ==
    ASSUME UNCHANGED <<barrier, signal>>,
           \A c \in Children : (Enqueued(c)' <=> Enqueued(c)) /\ (Live(c)' <=> Live(c))
    PROVE  Unseen
<1>1. \A s \in Signals, n \in 1..MaxClaims : <<s, n>> \in Children
  BY DEF Children
<1>2. \A s \in Signals : OutcomeOf(s)' = OutcomeOf(s) /\ (s \in Started' <=> s \in Started)
  BY <1>1, SameOutcome
<1> QED
  BY <1>2, NoBatchChanges

\* Quiet steps and sweeps: the batches that a sweep settles were waiting, and are given up.
LEMMA SweepGivesUp == ASSUME PInv, Sweeps PROVE Promise!Next \/ Unseen
<1>1. \A c \in Children : /\ Enqueued(c)' <=> Enqueued(c)
                          /\ Live(c)' <=> Live(c)
  BY DEF Sweeps, Enqueued, Live
<1>2. CASE barrier # "PENDING"
  BY <1>1, <1>2, ClosedUnseen DEF Sweeps
<1>3. CASE barrier = "PENDING"
  <2> DEFINE given == {s \in Signals : Unclaimed(s)}
  <2>1. \A s \in given : Outcome[s] = "waiting"
    BY <1>3, UnclaimedWaits DEF Outcome
  <2>2. Started' = Started
    BY <1>1 DEF Started, Children
  <2>3. \A s \in Signals : OutcomeOf(s)' = IF s \in given THEN "skipped" ELSE Outcome[s]
    <3>1. ASSUME NEW s \in Signals, s \in given PROVE OutcomeOf(s)' = "skipped"
      BY <1>3, <3>1 DEF Sweeps, SweepUnclaimed, OutcomeOf
    <3>2. ASSUME NEW s \in Signals, s \notin given PROVE OutcomeOf(s)' = Outcome[s]
      <4>1. barrier' = barrier /\ signal'[s] = signal[s]
        BY <3>2 DEF Sweeps, SweepUnclaimed, PInv, IInv, TypeOK
      <4>2. \A n \in 1..MaxClaims : <<s, n>> \in Children
        BY DEF Children
      <4> QED
        BY <1>1, <4>1, <4>2, SameOutcome DEF Outcome
    <3> QED
      BY <3>1, <3>2
  <2>4. Outcome' = [s \in Signals |-> IF s \in given THEN "skipped" ELSE Outcome[s]]
    BY <2>3 DEF Outcome
  <2>5. given \in SUBSET Signals /\ barrier' = "PENDING"
    BY <1>3 DEF Sweeps
  <2> HIDE DEF given
  <2>6. Promise!GiveUp(given)
    BY <1>3, <2>1, <2>2, <2>4, <2>5 DEF Promise!GiveUp
  <2> QED
    BY <2>5, <2>6 DEF Promise!Next
<1> QED
  BY <1>2, <1>3

\* An evaluation, the deadline and a cancel of the parent close the promise's barrier.
LEMMA CloseIsClose == ASSUME Closes PROVE Promise!Next
<1>1. Outcome' = [s \in Signals |-> "over"]
  BY DEF Closes, Outcome, OutcomeOf
<1>2. Started' = Started
  BY DEF Closes, Started, Enqueued, Live
<1> QED
  BY <1>1, <1>2 DEF Closes, Promise!Close, Promise!Next

\* A claim creates rows without jobs, of which the promise sees nothing.
LEMMA ClaimUnseen == ASSUME PInv, NEW d \in Dispatchers, ClaimChunk(d) PROVE Unseen
<1> DEFINE chunk == Chunk(cursor[d])
<1>1. /\ barrier' = barrier /\ barrier = "PENDING" /\ signal' = signal
      /\ run' = [c \in Children |-> IF c[1] \in chunk /\ c = <<c[1], claims[c[1]] + 1>>
                                    THEN "created" ELSE run[c]]
  BY DEF ClaimChunk
<1>2. \A s \in chunk : signal[s] = "PENDING" /\ refId[s] = 0
  BY DEF Chunk, Unclaimed
<1>3. \A c \in Children : c[1] \in chunk => run[c] \in {"none", "deleted"}
  BY <1>1, <1>2 DEF PInv, IInv, Claims, ClaimHolds, TypeOK, Children
<1> HIDE DEF chunk
<1>4. \A c \in Children : /\ Enqueued(c)' <=> Enqueued(c)
                          /\ Live(c)' <=> Live(c)
  BY <1>1, <1>3 DEF Enqueued, Live
<1> QED
  BY <1>1, <1>4, JobsUnseen

\* An enqueue starts the batch, or, of a child that was cancelled, starts it anyway.
LEMMA EnqueueStarts ==
    ASSUME PInv, PInv', NEW d \in Dispatchers, NEW c \in Children, EnqueueChild(d, c)
    PROVE  Promise!Next
<1>1. run[c] \in {"created", "canceled"} /\ c[1] \in Signals
  BY DEF EnqueueChild, PInv, IInv, Claims, TodoIsUnstarted, Children
<1>2. PICK new \in {"queued", "lingering"} :
        /\ run' = [run EXCEPT ![c] = new]
        /\ new = "queued" <=> run[c] = "created"
  BY <1>1 DEF EnqueueChild, PInv, IInv, TypeOK
<1>3. barrier = "PENDING" /\ barrier' = "PENDING" /\ signal' = signal
  BY DEF EnqueueChild
<1>4. run'[c] = new
  BY <1>2 DEF PInv, IInv, TypeOK
<1>5. /\ OutcomeOf(c[1]) = IF new = "queued" THEN "waiting" ELSE "called off"
      /\ c[1] \notin Started
  BY <1>1, <1>2, <1>3, OutcomeOfChild, NoRowNoJob DEF ChildSays, Live
<1>6. /\ OutcomeOf(c[1])' = IF new = "queued" THEN "running" ELSE "reported"
      /\ c[1] \in Started'
  <2>1. Enqueued(c)' /\ (Live(c)' <=> new = "queued")
    BY <1>4 DEF Enqueued, Live
  <2>2. ChildSays'
    BY OutcomeOfChild, PTL
  <2> QED
    BY <1>3, <1>4, <2>1, <2>2 DEF ChildSays
<1>7. \A s \in Signals : s # c[1] => OutcomeOf(s)' = OutcomeOf(s) /\ (s \in Started' <=> s \in Started)
  BY <1>2, <1>3, OtherBatches
<1> QED
  BY <1>1, <1>3, <1>5, <1>6, <1>7, OneBatchChanges
  DEF Promise!Start, Promise!StartAnyway, Promise!Next

\* A refused enqueue takes a row away that had no job.
LEMMA FailureUnseen ==
    ASSUME PInv, NEW d \in Dispatchers, NEW c \in Children, EnqueueFails(d, c)
    PROVE  Unseen
<1>1. run[c] \in {"created", "canceled"}
  BY DEF EnqueueFails, PInv, IInv, Claims, TodoIsUnstarted
<1>2. run' = [run EXCEPT ![c] = "deleted"] /\ UNCHANGED <<barrier, signal>>
  BY DEF EnqueueFails
<1>3. \A e \in Children : (Enqueued(e)' <=> Enqueued(e)) /\ (Live(e)' <=> Live(e))
  BY <1>1, <1>2 DEF Enqueued, Live, PInv, IInv, TypeOK
<1> QED
  BY <1>2, <1>3, JobsUnseen

\* A child that starts has its job and is live, or is neither, before and after.
LEMMA StartUnseen == ASSUME PInv, NEW c \in Children, ChildStarts(c) PROVE Unseen
<1>1. \A e \in Children : (Enqueued(e)' <=> Enqueued(e)) /\ (Live(e)' <=> Live(e))
  BY DEF ChildStarts, Enqueued, Live, PInv, IInv, TypeOK
<1> QED
  BY <1>1, JobsUnseen DEF ChildStarts

\* A cancelled child whose run goes on has been heard, and its report changes nothing.
LEMMA RevivedUnseen ==
    ASSUME PInv, barrier = "PENDING", NEW c \in Children, ChildReports(c), run[c] = "revived"
    PROVE  Unseen
<1>1. \A e \in Children : (Enqueued(e)' <=> Enqueued(e)) /\ (Live(e)' <=> Live(e))
  BY DEF ChildReports, Enqueued, Live, PInv, IInv, TypeOK
<1>2. signal' = [signal EXCEPT ![c[1]] = "REPORTED"]
  BY OutcomeIsReceived DEF ChildReports
<1>3. signal[c[1]] = "REPORTED"
  BY DEF PInv, EndIsReported, Over
<1>4. signal' = signal
  BY <1>2, <1>3 DEF PInv, IInv, TypeOK
<1> QED
  BY <1>1, <1>4, JobsUnseen DEF ChildReports

\* The outcome of a live child is a Report, and the cancel of one without a job a CallOff.
LEMMA EndIsReport ==
    ASSUME PInv, PInv', barrier = "PENDING", NEW c \in Children, run[c] # "revived",
           ChildReports(c) \/ CancelChild(c)
    PROVE  Promise!Next
<1>1. run[c] \in {"created", "queued", "running"} /\ c[1] \in Signals
  BY DEF ChildReports, CancelChild, Live, Children
<1>2. PICK new : /\ run' = [run EXCEPT ![c] = new]
                 /\ run[c] = "created" => new = "canceled"
                 /\ Live(c) => new \in {"finished", "stopped", "lingering", "revived"}
  <2>1. CASE ChildReports(c)
    BY <2>1 DEF ChildReports, Live
  <2>2. CASE CancelChild(c)
    <3>1. PICK new \in AfterCancel(run[c]) \ {run[c]} : run' = [run EXCEPT ![c] = new]
      BY <2>2 DEF CancelChild
    <3> QED
      BY <1>1, <3>1 DEF AfterCancel, Live
  <2> QED
    BY <2>1, <2>2
<1>3. run'[c] = new
  BY <1>2 DEF PInv, IInv, TypeOK
<1>4. barrier' = "PENDING" /\ barrier' = barrier
  BY DEF ChildReports, CancelChild
<1>5. signal' = [signal EXCEPT ![c[1]] = "REPORTED"]
  BY <1>1, OutcomeIsReceived DEF ChildReports, CancelChild
<1>6. \A s \in Signals : s # c[1] => OutcomeOf(s)' = OutcomeOf(s) /\ (s \in Started' <=> s \in Started)
  BY <1>2, <1>4, <1>5, OtherBatches DEF PInv, IInv, TypeOK
<1>7. ChildSays /\ ChildSays'
  BY OutcomeOfChild, PTL
<1>8. CASE run[c] = "created"
  <2>1. OutcomeOf(c[1]) = "waiting" /\ c[1] \notin Started
    BY <1>4, <1>7, <1>8 DEF ChildSays, Enqueued, Live
  <2>2. OutcomeOf(c[1])' = "called off" /\ c[1] \notin Started'
    BY <1>2, <1>3, <1>4, <1>7, <1>8 DEF ChildSays, Enqueued, Live
  <2>3. Promise!CallOff(c[1])
    BY <1>1, <1>4, <1>6, <2>1, <2>2, OneBatchChanges DEF Promise!CallOff
  <2> QED
    BY <1>1, <2>3 DEF Promise!Next
<1>9. CASE Live(c)
  <2>1. OutcomeOf(c[1]) = "running" /\ c[1] \in Started
    BY <1>4, <1>7, <1>9 DEF ChildSays, Enqueued, Live
  <2>2. OutcomeOf(c[1])' = "reported" /\ c[1] \in Started'
    BY <1>2, <1>3, <1>4, <1>7, <1>9 DEF ChildSays, Enqueued, Live
  <2>3. Promise!Report(c[1])
    BY <1>1, <1>4, <1>6, <2>1, <2>2, OneBatchChanges DEF Promise!Report
  <2> QED
    BY <1>1, <2>3 DEF Promise!Next
<1> QED
  BY <1>1, <1>8, <1>9 DEF Live

\* Once the barrier closed no child gets a job any more, and none that had one is without.
LEMMA AfterCloseUnseen ==
    ASSUME PInv, [Next]_vars, barrier # "PENDING"
    PROVE  Unseen
<1> USE DEF PInv, IInv, TypeOK
<1>1. barrier' # "PENDING"
  BY OutcomesStay
<1> SUFFICES \A c \in Children : Enqueued(c)' <=> Enqueued(c)
  BY <1>1, ClosedUnseen
<1>2. CASE Rests \/ Sweeps \/ Closes
  BY <1>2 DEF Rests, Sweeps, Closes, Enqueued, Live
<1>3. CASE CancelChildren
  <2>1. \A c \in Children :
          /\ run[c] = "created" => run'[c] = "canceled"
          /\ Live(c) => run'[c] \in {"stopped", "lingering", "revived", "running"}
          /\ run[c] # "created" /\ ~Live(c) => run'[c] = run[c]
    BY <1>3 DEF CancelChildren, AfterCancel, Live
  <2> QED
    BY <2>1 DEF Enqueued, Live
<1>4. ASSUME NEW d \in Dispatchers, ClaimChunk(d) PROVE FALSE
  BY <1>4 DEF ClaimChunk
<1>5. ASSUME NEW d \in Dispatchers, NEW c \in Children, EnqueueChild(d, c) \/ EnqueueFails(d, c)
      PROVE  FALSE
  BY <1>5 DEF EnqueueChild, EnqueueFails
<1>6. ASSUME NEW d \in Dispatchers, NEW c \in Children, CancelUnstartedChild(d, c)
      PROVE  \A e \in Children : Enqueued(e)' <=> Enqueued(e)
  BY <1>6 DEF CancelUnstartedChild, Enqueued, Live
<1>7. ASSUME NEW c \in Children, ChildStarts(c) \/ ChildReports(c)
      PROVE  \A e \in Children : Enqueued(e)' <=> Enqueued(e)
  BY <1>7 DEF ChildStarts, ChildReports, Enqueued, Live
<1>8. ASSUME NEW c \in Children, CancelChild(c)
      PROVE  \A e \in Children : Enqueued(e)' <=> Enqueued(e)
  BY <1>8 DEF CancelChild, AfterCancel, Enqueued, Live
<1> QED
  BY <1>2, <1>3, <1>4, <1>5, <1>6, <1>7, <1>8, RowSteps

(***************************************************************************)
(* The theorems.                                                           *)
(***************************************************************************)
\* The claim invariant, and what ties the outcome of a child to its signal, hold in every
\* execution.
THEOREM PromiseInvariant == Spec => []PInv
<1>1. Init => PInv
  BY InitTypeOK, InitClaims, FanOutAssumption DEF IInv, PInv, EndIsReported, Init, Over, Children
<1>2. PInv /\ [Next]_vars => PInv'
  BY NextTypeOK, NextClaims, NextEndIsReported DEF IInv, PInv
<1> QED
  BY <1>1, <1>2, PTL DEF Spec

\* Dispatch with all its faults implements the promise, for every number of batches,
\* dispatchers, attempts and faults: a batch is started once, while the barrier is open, a
\* started one is never given up and a given-up one never started, and nothing is said
\* anew after the close.
THEOREM Implements == Spec => KeepsPromise
<1>1. Init => Promise!Init
  <2> SUFFICES ASSUME Init PROVE Promise!Init
    OBVIOUS
  <2>1. \A s \in Signals : OutcomeOf(s) = "waiting" /\ s \notin Started
    BY DEF Init, OutcomeOf, Started, Enqueued, Live, Children
  <2>2. Started = {}
    BY <2>1 DEF Started
  <2> QED
    BY <2>1, <2>2 DEF Init, Promise!Init, Outcome
<1>2. PInv /\ PInv' /\ [Next]_vars => [Promise!Next]_(Promise!vars)
  <2> SUFFICES ASSUME PInv, PInv', [Next]_vars PROVE Promise!Next \/ Unseen
    BY DEF Promise!vars, Unseen
  <2>1. CASE barrier # "PENDING"
    BY <2>1, AfterCloseUnseen
  <2>2. CASE barrier = "PENDING"
    <3>1. CASE Rests
      BY <3>1, JobsUnseen DEF Rests, Enqueued, Live
    <3>2. CASE Sweeps
      BY <3>2, SweepGivesUp
    <3>3. CASE Closes
      BY <3>3, CloseIsClose
    <3>4. CASE CancelChildren
      BY <2>2, <3>4 DEF CancelChildren, PInv, IInv, Claims, CancelOfGone
    <3>5. ASSUME NEW d \in Dispatchers, ClaimChunk(d) PROVE Unseen
      BY <3>5, ClaimUnseen
    <3>6. ASSUME NEW d \in Dispatchers, NEW c \in Children,
                 EnqueueChild(d, c) \/ EnqueueFails(d, c) \/ CancelUnstartedChild(d, c)
          PROVE  Promise!Next \/ Unseen
      BY <2>2, <3>6, EnqueueStarts, FailureUnseen DEF CancelUnstartedChild
    <3>7. ASSUME NEW c \in Children, ChildStarts(c) \/ ChildReports(c) \/ CancelChild(c)
          PROVE  Promise!Next \/ Unseen
      <4>1. CASE run[c] = "revived"
        BY <2>2, <3>7, <4>1, StartUnseen, RevivedUnseen DEF CancelChild, Live
      <4>2. CASE run[c] # "revived"
        BY <2>2, <3>7, <4>2, StartUnseen, EndIsReport
      <4> QED
        BY <4>1, <4>2
    <3> QED
      BY <3>1, <3>2, <3>3, <3>4, <3>5, <3>6, <3>7, RowSteps
  <2> QED
    BY <2>1, <2>2
<1> QED
  BY <1>1, <1>2, PromiseInvariant, PTL DEF Spec, KeepsPromise, Promise!Spec

(***************************************************************************)
(* The claims a dispatcher holds.                                          *)
(***************************************************************************)
\* Only a dispatcher in the middle of a chunk holds claims
HeldInChunk == \A d \in Dispatchers : todo[d] # {} \/ late[d] # {} => pc[d] = "enqueue"

\* A child that was created and not enqueued is still in some dispatcher's hands
CreatedIsHeld == \A c \in Children : run[c] = "created" => \E d \in Dispatchers : c \in todo[d]

\* A claimed signal that is pending has a child that has not ended
ClaimHasChild ==
    barrier = "PENDING" =>
        \A s \in Signals : signal[s] = "PENDING" /\ refId[s] # 0 =>
            run[<<s, refId[s]>>] \in {"created", "queued", "running"}

\* How a step moves one dispatcher between the places of handleFanOutDispatch.
LEMMA NextHeldInChunk == ASSUME TypeOK, HeldInChunk, [Next]_vars PROVE HeldInChunk'
<1> USE DEF HeldInChunk, TypeOK, Goto, Leave, Handled
<1>1. CASE Creation \/ GiveUpStep \/ ChildStep \/ BarrierStep \/ UNCHANGED vars
  BY <1>1 DEF Creation, PutSource, AddFanOutDispatch, CreateEnqueuesEvaluation, GiveUpStep,
      GiveUpDeletesSource, GiveUpSettles, GiveUpEvaluates, ChildStep, ChildStarts, ChildReports,
      CancelChild, BarrierStep, ReportEvaluates, Evaluate, DeadlineRelease, ReleaseDeletesSource,
      CancelParent, CancelChildren, local, vars
<1>2. ASSUME NEW d \in Dispatchers, DispatcherStep(d) PROVE HeldInChunk'
  <2>1. ASSUME NEW c \in Children,
               \/ EnqueueChild(d, c) \/ EnqueueFails(d, c) \/ CancelUnstartedChild(d, c)
               \/ SettleIfGaveUp(d, c)
        PROVE  HeldInChunk'
    BY <2>1 DEF EnqueueChild, EnqueueFails, CancelUnstartedChild, SettleIfGaveUp
  <2>2. CASE ClaimChunk(d)
    BY <2>2 DEF ClaimChunk
  <2>3. CASE \/ TakeDispatch(d) \/ CheckBarrier(d) \/ LoadSource(d) \/ ProbeUnclaimed(d)
             \/ CreditsExhausted(d) \/ ClaimNothing(d) \/ ClaimClosed(d)
    BY <2>3 DEF TakeDispatch, CheckBarrier, LoadSource, ProbeUnclaimed, CreditsExhausted,
                ClaimNothing, ClaimClosed
  <2>4. CASE \/ FinishChunk(d) \/ SettleUnclaimedSignals(d) \/ EvaluateAndReturn(d) \/ CompleteJob(d)
             \/ FailJob(d) \/ AddGiveUp(d) \/ EvaluateLate(d)
    BY <2>4 DEF FinishChunk, SettleUnclaimedSignals, EvaluateAndReturn, CompleteJob, FailJob,
                AddGiveUp, EvaluateLate
  <2> QED
    BY <1>2, <2>1, <2>2, <2>3, <2>4 DEF DispatcherStep
<1>3. CASE Outage
  BY <1>3 DEF Outage, CreateFails, GiveUpFails, ReportFails, LateSettleFails, SettleFails,
              AddGiveUpFails, local
<1>4. CASE Fault /\ ~Outage
  BY <1>4 DEF Fault, RepeatCreate, SourceExpires, Stall, Crash, EnqueueTxAborts, local
<1> QED
  BY <1>1, <1>2, <1>3, <1>4 DEF Next

\* Unless a process dies or a transaction aborts, the dispatcher that created a child
\* enqueues it, deletes it or cancels it before it moves on.
LEMMA NextCreatedIsHeld ==
    ASSUME FaultKinds \cap {"crash", "abort"} = {}, IInv, HeldInChunk, CreatedIsHeld, [Next]_vars
    PROVE  CreatedIsHeld'
<1> USE DEF CreatedIsHeld, IInv, TypeOK, Goto, Leave
<1>1. CASE Creation \/ GiveUpStep \/ UNCHANGED vars
  BY <1>1 DEF Creation, PutSource, AddFanOutDispatch, CreateEnqueuesEvaluation, GiveUpStep,
      GiveUpDeletesSource, GiveUpSettles, GiveUpEvaluates, local, rows, vars
<1>2. CASE ChildStep
  <2>1. PICK c \in Children : ChildStarts(c) \/ ChildReports(c) \/ CancelChild(c)
    BY <1>2 DEF ChildStep
  <2>2. UNCHANGED todo
    BY <2>1 DEF ChildStarts, ChildReports, CancelChild, local
  <2>3. \A e \in Children : run'[e] = "created" => run[e] = "created"
    BY <2>1 DEF ChildStarts, ChildReports, CancelChild, AfterCancel
  <2> QED
    BY <2>2, <2>3
<1>3. CASE BarrierStep
  <2>1. UNCHANGED todo
    BY <1>3 DEF BarrierStep, ReportEvaluates, Evaluate, DeadlineRelease, ReleaseDeletesSource,
                CancelParent, CancelChildren, local
  <2>2. CancelChildren => \A e \in Children : run[e] = "created" => run'[e] = "canceled"
    BY DEF CancelChildren
  <2>3. CancelChildren => \A e \in Children : run[e] # "created" => run'[e] # "created"
    BY DEF CancelChildren, AfterCancel, Live
  <2>4. \A e \in Children : run'[e] = "created" => run[e] = "created"
    BY <1>3, <2>2, <2>3 DEF BarrierStep, ReportEvaluates, Evaluate, DeadlineRelease,
                            ReleaseDeletesSource, CancelParent, rows
  <2> QED
    BY <2>1, <2>4
<1>4. CASE Fault /\ ~Outage
  BY <1>4 DEF Fault, RepeatCreate, SourceExpires, Stall, Crash, EnqueueTxAborts, SpendFault, local,
              rows
<1>6. CASE Outage
  <2>1. UNCHANGED run
    BY <1>6, OutageRests DEF rows
  <2>2. ASSUME NEW d \in Dispatchers, AddGiveUpFails(d) PROVE UNCHANGED todo
    <3>1. todo[d] = {} /\ todo' = [todo EXCEPT ![d] = {}]
      BY <2>2 DEF AddGiveUpFails, HeldInChunk
    <3> QED
      BY <3>1
  <2>3. UNCHANGED todo
    BY <1>6, <2>2 DEF Outage, CreateFails, GiveUpFails, ReportFails, LateSettleFails, SettleFails,
                      local
  <2> QED
    BY <2>1, <2>3
<1>5. ASSUME NEW d \in Dispatchers, DispatcherStep(d) PROVE CreatedIsHeld'
  <2>1. CASE ClaimChunk(d)
    <3> DEFINE chunk == Chunk(cursor[d])
    <3>1. /\ run' = [c \in Children |-> IF c[1] \in chunk /\ c = <<c[1], claims[c[1]] + 1>>
                                        THEN "created" ELSE run[c]]
          /\ todo' = [todo EXCEPT ![d] = {<<s, claims[s] + 1>> : s \in chunk}]
      BY <2>1 DEF ClaimChunk
    <3>2. todo[d] = {}
      BY <2>1 DEF ClaimChunk, HeldInChunk
    <3>3. d \in DOMAIN todo
      OBVIOUS
    <3> HIDE DEF chunk
    <3> SUFFICES ASSUME NEW c \in Children, run'[c] = "created"
                 PROVE  \E e \in Dispatchers : c \in todo'[e]
      OBVIOUS
    <3>4. CASE c[1] \in chunk /\ c = <<c[1], claims[c[1]] + 1>>
      BY <3>1, <3>3, <3>4
    <3>5. CASE ~(c[1] \in chunk /\ c = <<c[1], claims[c[1]] + 1>>)
      <4>1. PICK e \in Dispatchers : c \in todo[e]
        BY <3>1, <3>5
      <4> QED
        BY <3>1, <3>2, <4>1
    <3> QED
      BY <3>4, <3>5
  <2>2. ASSUME NEW c \in Children,
               EnqueueChild(d, c) \/ EnqueueFails(d, c) \/ CancelUnstartedChild(d, c)
        PROVE  CreatedIsHeld'
    <3>1. todo' = [todo EXCEPT ![d] = @ \ {c}]
      BY <2>2 DEF EnqueueChild, EnqueueFails, CancelUnstartedChild, Handled
    <3>2. run'[c] # "created" /\ \A e \in Children : e # c => run'[e] = run[e]
      BY <2>2 DEF EnqueueChild, EnqueueFails, CancelUnstartedChild
    <3> QED
      BY <3>1, <3>2
  <2>3. ASSUME NEW c \in Children, SettleIfGaveUp(d, c) PROVE CreatedIsHeld'
    BY <2>3 DEF SettleIfGaveUp
  <2>4. CASE \/ TakeDispatch(d) \/ CheckBarrier(d) \/ LoadSource(d) \/ ProbeUnclaimed(d)
             \/ CreditsExhausted(d) \/ ClaimNothing(d) \/ ClaimClosed(d)
    BY <2>4 DEF TakeDispatch, CheckBarrier, LoadSource, ProbeUnclaimed, CreditsExhausted,
                ClaimNothing, ClaimClosed, HeldInChunk, rows
  <2>5. CASE FinishChunk(d) \/ SettleUnclaimedSignals(d) \/ EvaluateAndReturn(d) \/ EvaluateLate(d)
    BY <2>5 DEF FinishChunk, SettleUnclaimedSignals, EvaluateAndReturn, EvaluateLate, rows
  <2>6. CASE CompleteJob(d) \/ FailJob(d) \/ AddGiveUp(d)
    <3>1. UNCHANGED run /\ todo' = [todo EXCEPT ![d] = {}]
      BY <2>6 DEF CompleteJob, FailJob, AddGiveUp, rows
    <3>2. todo[d] = {}
      BY <2>6 DEF CompleteJob, FailJob, AddGiveUp, HeldInChunk
    <3> QED
      BY <3>1, <3>2
  <2> QED
    BY <1>5, <2>1, <2>2, <2>3, <2>4, <2>5, <2>6 DEF DispatcherStep
<1> QED
  BY <1>1, <1>2, <1>3, <1>4, <1>5, <1>6 DEF Next

\* A claim that is released goes with its child, and a child that ends or is cancelled
\* settles its signal: no pending signal names a child that will not report.
LEMMA NextClaimHasChild == ASSUME PInv, ClaimHasChild, [Next]_vars PROVE ClaimHasChild'
<1> SUFFICES ASSUME barrier' = "PENDING", NEW s \in Signals, signal'[s] = "PENDING", refId'[s] # 0
             PROVE  run'[<<s, refId'[s]>>] \in {"created", "queued", "running"}
  BY DEF ClaimHasChild
<1> USE DEF PInv, IInv, TypeOK
<1>1. barrier = "PENDING"
  BY OutcomesStay
<1>8. refId[s] # 0 => <<s, refId[s]>> \in Children
  BY FanOutAssumption DEF Children
<1>2. CASE Creation \/ UNCHANGED vars
  BY <1>1, <1>2 DEF ClaimHasChild, Creation, PutSource, AddFanOutDispatch, CreateEnqueuesEvaluation,
                    rows, vars
<1>3. CASE GiveUpStep
  BY <1>1, <1>3 DEF ClaimHasChild, GiveUpStep, GiveUpDeletesSource, GiveUpSettles, GiveUpEvaluates,
                    SweepUnclaimed, rows
<1>4. CASE ChildStep
  <2>1. PICK c \in Children : ChildStarts(c) \/ ChildReports(c) \/ CancelChild(c)
    BY <1>4 DEF ChildStep
  <2>2. refId' = refId
    BY <2>1 DEF ChildStarts, ChildReports, CancelChild
  <2>3. CASE ChildStarts(c)
    BY <1>1, <2>2, <2>3 DEF ClaimHasChild, ChildStarts
  <2>4. CASE ChildReports(c) \/ CancelChild(c)
    <3>1. signal' = [signal EXCEPT ![c[1]] = "REPORTED"]
      BY <1>1, <2>4, OutcomeIsReceived DEF ChildReports, CancelChild, Live
    <3>2. s # c[1] /\ signal[s] = "PENDING"
      BY <3>1
    <3>3. run'[<<s, refId[s]>>] = run[<<s, refId[s]>>]
      BY <1>8, <2>2, <2>4, <3>2 DEF ChildReports, CancelChild
    <3> QED
      BY <1>1, <2>2, <3>2, <3>3 DEF ClaimHasChild
  <2> QED
    BY <2>1, <2>3, <2>4
<1>5. CASE BarrierStep
  BY <1>1, <1>5 DEF ClaimHasChild, BarrierStep, ReportEvaluates, Evaluate, DeadlineRelease,
                    ReleaseDeletesSource, CancelParent, CancelChildren, Claims, CancelOfGone, rows
<1>6. CASE Fault
  BY <1>1, <1>6, OutageRests DEF ClaimHasChild, Fault, RepeatCreate, SourceExpires, Stall, Crash,
                                 EnqueueTxAborts, rows
<1>7. ASSUME NEW d \in Dispatchers, DispatcherStep(d)
      PROVE  run'[<<s, refId'[s]>>] \in {"created", "queued", "running"}
  <2>1. CASE ClaimChunk(d)
    <3> DEFINE chunk == Chunk(cursor[d])
    <3>1. /\ run' = [c \in Children |-> IF c[1] \in chunk /\ c = <<c[1], claims[c[1]] + 1>>
                                        THEN "created" ELSE run[c]]
          /\ refId' = [t \in Signals |-> IF t \in chunk THEN claims[t] + 1 ELSE refId[t]]
          /\ UNCHANGED signal
      BY <2>1 DEF ClaimChunk
    <3>2. \A t \in chunk : claims[t] + 1 \in 1..MaxClaims
      <4>1. \A t \in chunk : t \in Signals /\ claims[t] < MaxClaims
        BY <2>1 DEF ClaimChunk, Chunk
      <4> HIDE DEF chunk
      <4>2. \A t \in chunk : claims[t] \in 0..MaxClaims
        BY <4>1 DEF PInv, IInv, TypeOK
      <4> QED
        BY <4>1, <4>2, FanOutAssumption
    <3> HIDE DEF chunk
    <3>3. CASE s \in chunk
      BY <3>1, <3>2, <3>3 DEF Children
    <3>4. CASE s \notin chunk
      <4>1. refId'[s] = refId[s] /\ refId[s] \in 1..MaxClaims
        BY <3>1, <3>4, FanOutAssumption
      <4>2. <<s, refId[s]>> \in Children /\ run'[<<s, refId[s]>>] = run[<<s, refId[s]>>]
        BY <3>1, <3>4, <4>1 DEF Children
      <4> QED
        BY <1>1, <3>1, <4>1, <4>2 DEF ClaimHasChild
    <3> QED
      BY <3>3, <3>4
  <2>2. ASSUME NEW c \in Children, EnqueueChild(d, c)
        PROVE  run'[<<s, refId'[s]>>] \in {"created", "queued", "running"}
    <3>1. refId' = refId /\ signal' = signal
      BY <2>2 DEF EnqueueChild
    <3>2. run[<<s, refId[s]>>] \in {"created", "queued", "running"}
      BY <1>1, <3>1 DEF ClaimHasChild
    <3>3. run'[<<s, refId[s]>>] \in {run[<<s, refId[s]>>], "queued"}
      BY <1>8, <2>2, <3>1, <3>2 DEF EnqueueChild, Claims, TodoIsUnstarted
    <3> QED
      BY <3>1, <3>2, <3>3
  <2>3. ASSUME NEW c \in Children, EnqueueFails(d, c)
        PROVE  run'[<<s, refId'[s]>>] \in {"created", "queued", "running"}
    <3>1. run[c] \in {"created", "canceled"} /\ refId[c[1]] = c[2] /\ c[1] \in Signals
      BY <1>1, <2>3 DEF EnqueueFails, Claims, TodoIsUnstarted, ClaimHolds, Children
    <3>2. /\ run' = [run EXCEPT ![c] = "deleted"]
          /\ refId' = [refId EXCEPT ![c[1]] = 0]
          /\ UNCHANGED signal
      BY <2>3, <3>1 DEF EnqueueFails
    <3>3. s # c[1]
      BY <3>1, <3>2
    <3>4. refId'[s] = refId[s] /\ run'[<<s, refId[s]>>] = run[<<s, refId[s]>>]
      BY <3>1, <3>2, <3>3
    <3> QED
      BY <1>1, <3>2, <3>4 DEF ClaimHasChild
  <2>4. ASSUME NEW c \in Children, CancelUnstartedChild(d, c) PROVE FALSE
    BY <1>1, <2>4 DEF CancelUnstartedChild
  <2>5. ASSUME NEW c \in Children, SettleIfGaveUp(d, c)
        PROVE  run'[<<s, refId'[s]>>] \in {"created", "queued", "running"}
    BY <1>1, <2>5 DEF ClaimHasChild, SettleIfGaveUp, SweepUnclaimed
  <2>6. CASE \/ TakeDispatch(d) \/ CheckBarrier(d) \/ LoadSource(d) \/ ProbeUnclaimed(d)
             \/ CreditsExhausted(d) \/ ClaimNothing(d) \/ ClaimClosed(d)
    BY <1>1, <2>6 DEF ClaimHasChild, TakeDispatch, CheckBarrier, LoadSource, ProbeUnclaimed,
                      CreditsExhausted, ClaimNothing, ClaimClosed, rows
  <2>7. CASE SettleUnclaimedSignals(d)
    BY <1>1, <2>7 DEF ClaimHasChild, SettleUnclaimedSignals, SweepUnclaimed
  <2>8. CASE \/ FinishChunk(d) \/ EvaluateAndReturn(d) \/ CompleteJob(d) \/ FailJob(d)
             \/ AddGiveUp(d) \/ EvaluateLate(d)
    BY <1>1, <2>8 DEF ClaimHasChild, FinishChunk, EvaluateAndReturn, CompleteJob, FailJob,
                      AddGiveUp, EvaluateLate, rows
  <2> QED
    BY <1>7, <2>1, <2>2, <2>3, <2>4, <2>5, <2>6, <2>7, <2>8 DEF DispatcherStep
<1> QED
  BY <1>2, <1>3, <1>4, <1>5, <1>6, <1>7 DEF Next

(***************************************************************************)
(* No batch is left unclaimed.                                             *)
(***************************************************************************)
Working == DispatchPC \ {"idle", "gaveUp"}

\* Without stalls and crashes one dispatcher at most is in the handler, and holds the job
OneHolder ==
    /\ \A d \in Dispatchers : d \in holder => job = "active"
    /\ \A d \in Dispatchers : pc[d] \in Working <=> holder = {d}
    /\ \A d \in Dispatchers : pc[d] = "gaveUp" => job = "failed"

\* ... so the job fails for good once, and is given up once
GiveUpOnce ==
    /\ giveUpJob # "none" => job = "failed" /\ \A d \in Dispatchers : pc[d] # "gaveUp"
    /\ \A d, e \in Dispatchers : pc[d] = "gaveUp" /\ pc[e] = "gaveUp" => d = e

\* A chunk is found closed only when the barrier has closed
ClosedVerdict == \A d \in Dispatchers : verdict[d] = "closed" => barrier # "PENDING"

Open == barrier = "PENDING" /\ \E s \in Signals : Unclaimed(s)

\* An unclaimed batch of a waiting barrier has somebody who will look for it
Covered ==
    Open => \/ job = "none" /\ creator \in {"put", "add", "putAgain", "addAgain"}
            \/ job = "waiting"
            \/ \E d \in Dispatchers : pc[d] \in DispatchPC \ {"idle", "evaluate", "return"}
            \/ giveUpJob \in {"waiting", "settle"}

\* A dispatcher that ends the handler without a failure leaves no batch unclaimed
EvaluateIsLast == \A d \in Dispatchers : pc[d] \in {"evaluate", "return"} => ~Open

EndInv == OneHolder /\ GiveUpOnce /\ ClosedVerdict /\ Covered /\ EvaluateIsLast

\* The claim of a chunk finds the unclaimed batches behind the cursor, if there are any.
LEMMA ChunkFindsUnclaimed ==
    ASSUME NEW after \in 0..NSignals, Chunk(after) = {}
    PROVE  \A s \in Signals : s > after => ~Unclaimed(s)
<1> DEFINE open == {s \in Signals : Unclaimed(s) /\ s > after}
<1> SUFFICES ASSUME open # {} PROVE FALSE
  OBVIOUS
<1>1. open \in SUBSET Nat /\ open \subseteq Signals
  BY FanOutAssumption DEF Signals
<1>2. PICK first \in open : \A t \in open : first <= t
  <2>1. PICK first \in open : \A t \in open : ~(<<t, first>> \in OpToRel(<, Nat))
    <3> HIDE DEF open
    <3> QED
      BY <1>1, WFMin, NatLessThanWellFounded, Zenon
  <2>2. \A t \in open : ~(t < first)
    BY <1>1, <2>1 DEF OpToRel
  <2> QED
    BY <1>1, <2>2
<1>3. {t \in open : t <= first} = {first}
  BY <1>1, <1>2
<1>4. Cardinality({t \in open : t <= first}) = 1
  BY <1>3, FS_Singleton
<1>5. Chunk(after) = {s \in open : Cardinality({t \in open : t <= s}) <= ChunkSize}
  BY DEF Chunk
<1>6. first \in Chunk(after)
  BY <1>2, <1>4, <1>5, FanOutAssumption
<1> QED
  BY <1>6

\* Only a refused enqueue makes a batch unclaimed again.
LEMMA OpenSteps ==
    ASSUME PInv, [Next]_vars, Open'
    PROVE  Open \/ \E d \in Dispatchers, c \in Children : EnqueueFails(d, c)
<1> SUFFICES ASSUME NEW s \in Signals, Unclaimed(s)', ~Unclaimed(s), barrier' = "PENDING"
             PROVE  \E d \in Dispatchers, c \in Children : EnqueueFails(d, c)
  <2>1. barrier = "PENDING"
    BY OutcomesStay DEF Open
  <2> QED
    BY <2>1 DEF Open
<1> USE DEF PInv, IInv, TypeOK, Unclaimed
<1>1. barrier = "PENDING"
  BY OutcomesStay
<1>2. CASE Creation \/ GiveUpStep \/ UNCHANGED vars
  BY <1>2 DEF Creation, PutSource, AddFanOutDispatch, CreateEnqueuesEvaluation, GiveUpStep,
      GiveUpDeletesSource, GiveUpSettles, GiveUpEvaluates, SweepUnclaimed, rows, vars
<1>3. CASE ChildStep \/ BarrierStep
  <2>1. ASSUME NEW c \in Children, ChildStarts(c) \/ ChildReports(c) \/ CancelChild(c) PROVE FALSE
    BY <2>1 DEF ChildStarts, ChildReports, CancelChild, ReceiveSignal
  <2>2. CASE \/ ReportEvaluates \/ Evaluate \/ DeadlineRelease \/ ReleaseDeletesSource
             \/ CancelParent \/ CancelChildren
    BY <2>2 DEF Evaluate, DeadlineRelease, ReleaseDeletesSource, CancelParent, CancelChildren,
                ReportEvaluates, rows
  <2> QED
    BY <1>3, <2>1, <2>2 DEF ChildStep, BarrierStep
<1>4. CASE Fault
  BY <1>4, OutageRests DEF Fault, RepeatCreate, SourceExpires, Stall, Crash, EnqueueTxAborts, rows
<1>5. ASSUME NEW d \in Dispatchers, DispatcherStep(d)
      PROVE  \E c \in Children : EnqueueFails(d, c)
  <2>1. ASSUME NEW c \in Children,
               EnqueueChild(d, c) \/ CancelUnstartedChild(d, c) \/ SettleIfGaveUp(d, c)
        PROVE  FALSE
    BY <2>1 DEF EnqueueChild, CancelUnstartedChild, SettleIfGaveUp,
                SweepUnclaimed
  <2>2. CASE ClaimChunk(d)
    BY <2>2, FanOutAssumption DEF ClaimChunk, Chunk
  <2>3. CASE \/ TakeDispatch(d) \/ CheckBarrier(d) \/ LoadSource(d) \/ ProbeUnclaimed(d)
             \/ CreditsExhausted(d) \/ ClaimNothing(d) \/ ClaimClosed(d)
    BY <2>3 DEF TakeDispatch, CheckBarrier, LoadSource, ProbeUnclaimed, CreditsExhausted,
                ClaimNothing, ClaimClosed, rows
  <2>4. CASE \/ FinishChunk(d) \/ SettleUnclaimedSignals(d) \/ EvaluateAndReturn(d) \/ CompleteJob(d)
             \/ FailJob(d) \/ AddGiveUp(d) \/ EvaluateLate(d)
    BY <2>4 DEF FinishChunk, SettleUnclaimedSignals, SweepUnclaimed,
                EvaluateAndReturn, CompleteJob, FailJob, AddGiveUp, EvaluateLate, rows
  <2> QED
    BY <1>5, <2>1, <2>2, <2>3, <2>4 DEF DispatcherStep
<1> QED
  BY <1>2, <1>3, <1>4, <1>5 DEF Next

\* The conditions on faults under which the conclusions hold
NoLoss  == FaultKinds \cap {"crash", "abort"} = {}
NoRetreat == FaultKinds \cap {"crash", "stall", "outage"} = {}

\* Then no call fails but the enqueues that claims are released for.
LEMMA NoOutage == NoRetreat => ~Outage
BY DEF NoRetreat, Outage, CreateFails, GiveUpFails, ReportFails, LateSettleFails, SettleFails,
       AddGiveUpFails, SpendFault

\* Without stalls and crashes the job passes from one dispatcher to the next.
LEMMA NextOneHolder ==
    ASSUME NoRetreat, TypeOK, OneHolder, [Next]_vars
    PROVE  OneHolder'
<1> USE DEF OneHolder, TypeOK, Goto, Leave, Requeue, Working, DispatchPC, jobVars
<1>1. CASE Creation
  BY <1>1 DEF Creation, PutSource, AddFanOutDispatch, CreateEnqueuesEvaluation, local
<1>2. CASE GiveUpStep \/ ChildStep \/ BarrierStep \/ UNCHANGED vars
  BY <1>2 DEF GiveUpStep, GiveUpDeletesSource, GiveUpSettles, GiveUpEvaluates, ChildStep,
              ChildStarts, ChildReports, CancelChild, BarrierStep, ReportEvaluates, Evaluate,
              DeadlineRelease, ReleaseDeletesSource, CancelParent, CancelChildren, local, vars
<1>3. CASE Fault
  BY <1>3, NoOutage DEF Fault, RepeatCreate, SourceExpires, Stall, Crash, EnqueueTxAborts,
                        SpendFault, local, NoRetreat
<1>4. ASSUME NEW d \in Dispatchers, DispatcherStep(d) PROVE OneHolder'
  <2>1. CASE TakeDispatch(d)
    <3>1. holder = {} /\ \A e \in Dispatchers : pc[e] \notin Working
      BY <2>1 DEF TakeDispatch
    <3>2. CASE stalls > MaxStalledCount
      BY <2>1, <3>1, <3>2 DEF TakeDispatch
    <3>3. CASE ~(stalls > MaxStalledCount)
      <4>1. job' = "active" /\ holder' = {d} /\ pc' = [pc EXCEPT ![d] = "check"]
        BY <2>1, <3>3 DEF TakeDispatch
      <4> QED
        BY <2>1, <3>1, <4>1 DEF TakeDispatch
    <3> QED
      BY <3>2, <3>3
  <2>2. CASE CheckBarrier(d) \/ LoadSource(d) \/ ProbeUnclaimed(d) \/ CreditsExhausted(d)
    BY <2>2 DEF CheckBarrier, LoadSource, ProbeUnclaimed, CreditsExhausted
  <2>3. CASE ClaimChunk(d) \/ ClaimNothing(d) \/ ClaimClosed(d)
    BY <2>3 DEF ClaimChunk, ClaimNothing, ClaimClosed
  <2>4. ASSUME NEW c \in Children,
               \/ EnqueueChild(d, c) \/ EnqueueFails(d, c) \/ CancelUnstartedChild(d, c)
               \/ SettleIfGaveUp(d, c)
        PROVE  OneHolder'
    BY <2>4 DEF EnqueueChild, EnqueueFails, CancelUnstartedChild, SettleIfGaveUp
  <2>5. CASE FinishChunk(d) \/ SettleUnclaimedSignals(d) \/ EvaluateAndReturn(d) \/ EvaluateLate(d)
    BY <2>5 DEF FinishChunk, SettleUnclaimedSignals, EvaluateAndReturn, EvaluateLate
  <2>6. CASE CompleteJob(d)
    <3>1. holder = {d} /\ \A e \in Dispatchers : e # d => pc[e] \notin Working
      BY <2>6 DEF CompleteJob
    <3>2. job' = "none" /\ holder' = {} /\ pc' = [pc EXCEPT ![d] = "idle"]
      BY <2>6, <3>1 DEF CompleteJob
    <3> QED
      BY <3>1, <3>2
  <2>7. CASE FailJob(d)
    <3>1. holder = {d} /\ \A e \in Dispatchers : e # d => pc[e] \notin Working
      BY <2>7 DEF FailJob
    <3>2. CASE attempts + 1 < MaxAttempts
      <4>1. job' = "waiting" /\ holder' = {} /\ pc' = [pc EXCEPT ![d] = "idle"]
        BY <2>7, <3>1, <3>2 DEF FailJob
      <4> QED
        BY <3>1, <4>1
    <3>3. CASE ~(attempts + 1 < MaxAttempts)
      <4>1. job' = "failed" /\ holder' = {} /\ pc' = [pc EXCEPT ![d] = "gaveUp"]
        BY <2>7, <3>1, <3>3 DEF FailJob
      <4> QED
        BY <3>1, <4>1
    <3> QED
      BY <3>2, <3>3
  <2>8. CASE AddGiveUp(d)
    BY <2>8 DEF AddGiveUp
  <2> QED
    BY <1>4, <2>1, <2>2, <2>3, <2>4, <2>5, <2>6, <2>7, <2>8 DEF DispatcherStep
<1> QED
  BY <1>1, <1>2, <1>3, <1>4 DEF Next

\* A job that failed for good is not taken again, so it is not given up again.
LEMMA NextGiveUpOnce ==
    ASSUME NoRetreat, TypeOK, OneHolder, GiveUpOnce, [Next]_vars
    PROVE  GiveUpOnce'
<1> USE DEF OneHolder, GiveUpOnce, TypeOK, Goto, Leave, Requeue, Working, DispatchPC, jobVars
<1>1. CASE Creation
  BY <1>1 DEF Creation, PutSource, AddFanOutDispatch, CreateEnqueuesEvaluation, local
<1>2. CASE GiveUpStep \/ ChildStep \/ BarrierStep \/ UNCHANGED vars
  BY <1>2 DEF GiveUpStep, GiveUpDeletesSource, GiveUpSettles, GiveUpEvaluates, ChildStep,
              ChildStarts, ChildReports, CancelChild, BarrierStep, ReportEvaluates, Evaluate,
              DeadlineRelease, ReleaseDeletesSource, CancelParent, CancelChildren, local, vars
<1>3. CASE Fault
  BY <1>3, NoOutage DEF Fault, RepeatCreate, SourceExpires, Stall, Crash, EnqueueTxAborts,
                        SpendFault, local, NoRetreat
<1>4. ASSUME NEW d \in Dispatchers, DispatcherStep(d) PROVE GiveUpOnce'
  <2>1. CASE TakeDispatch(d)
    <3>1. giveUpJob = "none" /\ giveUpJob' = "none" /\ \A e \in Dispatchers : pc[e] # "gaveUp"
      BY <2>1 DEF TakeDispatch
    <3>2. \A e \in Dispatchers : e # d => pc'[e] = pc[e]
      BY <2>1 DEF TakeDispatch
    <3> QED
      BY <3>1, <3>2
  <2>2. CASE FailJob(d)
    <3>1. CASE d \in holder
      <4>1. giveUpJob = "none" /\ giveUpJob' = "none" /\ \A e \in Dispatchers : pc[e] # "gaveUp"
        BY <2>2, <3>1 DEF FailJob
      <4>2. \A e \in Dispatchers : e # d => pc'[e] = pc[e]
        BY <2>2 DEF FailJob
      <4> QED
        BY <4>1, <4>2
    <3>2. CASE d \notin holder
      BY <2>2, <3>2 DEF FailJob
    <3> QED
      BY <3>1, <3>2
  <2>3. CASE AddGiveUp(d)
    BY <2>3 DEF AddGiveUp
  <2>4. CASE CompleteJob(d)
    BY <2>4 DEF CompleteJob
  <2>5. ASSUME NEW c \in Children,
               \/ EnqueueChild(d, c) \/ EnqueueFails(d, c) \/ CancelUnstartedChild(d, c)
               \/ SettleIfGaveUp(d, c)
        PROVE  GiveUpOnce'
    BY <2>5 DEF EnqueueChild, EnqueueFails, CancelUnstartedChild, SettleIfGaveUp
  <2>6. CASE \/ CheckBarrier(d) \/ LoadSource(d) \/ ProbeUnclaimed(d) \/ CreditsExhausted(d)
             \/ ClaimChunk(d) \/ ClaimNothing(d) \/ ClaimClosed(d)
    BY <2>6 DEF CheckBarrier, LoadSource, ProbeUnclaimed, CreditsExhausted, ClaimChunk,
                ClaimNothing, ClaimClosed
  <2>7. CASE FinishChunk(d) \/ SettleUnclaimedSignals(d) \/ EvaluateAndReturn(d) \/ EvaluateLate(d)
    BY <2>7 DEF FinishChunk, SettleUnclaimedSignals, EvaluateAndReturn, EvaluateLate
  <2> QED
    BY <1>4, <2>1, <2>2, <2>3, <2>4, <2>5, <2>6, <2>7 DEF DispatcherStep
<1> QED
  BY <1>1, <1>2, <1>3, <1>4 DEF Next

\* A barrier that closed stays closed, so a chunk found closed stays so.
LEMMA NextClosedVerdict ==
    ASSUME PInv, ClosedVerdict, [Next]_vars
    PROVE  ClosedVerdict'
<1> SUFFICES ASSUME NEW e \in Dispatchers, verdict'[e] = "closed", barrier' = "PENDING" PROVE FALSE
  BY DEF ClosedVerdict
<1> USE DEF PInv, IInv, TypeOK, Goto, Leave
<1>1. barrier = "PENDING"
  BY OutcomesStay
<1>2. verdict[e] # "closed"
  BY <1>1 DEF ClosedVerdict
<1>3. CASE Creation \/ GiveUpStep \/ ChildStep \/ BarrierStep \/ UNCHANGED vars
  BY <1>2, <1>3 DEF Creation, PutSource, AddFanOutDispatch, CreateEnqueuesEvaluation, GiveUpStep,
      GiveUpDeletesSource, GiveUpSettles, GiveUpEvaluates, ChildStep, ChildStarts, ChildReports,
      CancelChild, BarrierStep, ReportEvaluates, Evaluate, DeadlineRelease, ReleaseDeletesSource,
      CancelParent, CancelChildren, local, vars
<1>4. CASE Fault /\ ~Outage
  BY <1>2, <1>4 DEF Fault, RepeatCreate, SourceExpires, Stall, Crash, EnqueueTxAborts, local
<1>6. CASE Outage
  BY <1>2, <1>6 DEF Outage, CreateFails, GiveUpFails, ReportFails, LateSettleFails, SettleFails,
                    AddGiveUpFails, local
<1>5. ASSUME NEW d \in Dispatchers, DispatcherStep(d) PROVE FALSE
  <2>1. ASSUME NEW c \in Children,
               \/ EnqueueChild(d, c) \/ EnqueueFails(d, c) \/ CancelUnstartedChild(d, c)
               \/ SettleIfGaveUp(d, c)
        PROVE  FALSE
    BY <1>1, <1>2, <2>1 DEF EnqueueChild, EnqueueFails, CancelUnstartedChild, SettleIfGaveUp
  <2>2. CASE \/ TakeDispatch(d) \/ CheckBarrier(d) \/ LoadSource(d) \/ ProbeUnclaimed(d)
             \/ CreditsExhausted(d) \/ ClaimChunk(d) \/ ClaimNothing(d) \/ ClaimClosed(d)
    BY <1>2, <2>2 DEF TakeDispatch, CheckBarrier, LoadSource, ProbeUnclaimed, CreditsExhausted,
                      ClaimChunk, ClaimNothing, ClaimClosed
  <2>3. CASE \/ FinishChunk(d) \/ SettleUnclaimedSignals(d) \/ EvaluateAndReturn(d) \/ CompleteJob(d)
             \/ FailJob(d) \/ AddGiveUp(d) \/ EvaluateLate(d)
    BY <1>2, <2>3 DEF FinishChunk, SettleUnclaimedSignals, EvaluateAndReturn, CompleteJob, FailJob,
                      AddGiveUp, EvaluateLate
  <2> QED
    BY <1>5, <2>1, <2>2, <2>3 DEF DispatcherStep
<1> QED
  BY <1>3, <1>4, <1>5, <1>6 DEF Next

\* The handler is left without a failure only where every batch is claimed or settled.
LEMMA NextEvaluateIsLast ==
    ASSUME NoRetreat, PInv, OneHolder, ClosedVerdict, EvaluateIsLast, [Next]_vars
    PROVE  EvaluateIsLast'
<1> SUFFICES ASSUME NEW e \in Dispatchers, pc'[e] \in {"evaluate", "return"}, Open' PROVE FALSE
  BY DEF EvaluateIsLast
<1> USE DEF PInv, IInv, TypeOK, Goto, Leave
<1>1. barrier = "PENDING" /\ barrier' = "PENDING"
  BY OutcomesStay DEF Open
<1>2. ASSUME pc'[e] = pc[e] PROVE FALSE
  <2>1. ~Open /\ pc[e] \in Working
    BY <1>2 DEF EvaluateIsLast, Working, DispatchPC
  <2>2. PICK d \in Dispatchers, c \in Children : EnqueueFails(d, c)
    BY <2>1, OpenSteps
  <2>3. pc[d] \in Working /\ pc[d] = "enqueue"
    BY <2>2 DEF EnqueueFails, Working, DispatchPC
  <2>4. d = e
    BY <2>1, <2>3 DEF OneHolder
  <2> QED
    BY <1>2, <2>3, <2>4
<1>3. CASE Creation \/ GiveUpStep \/ ChildStep \/ BarrierStep \/ UNCHANGED vars
  BY <1>2, <1>3 DEF Creation, PutSource, AddFanOutDispatch, CreateEnqueuesEvaluation, GiveUpStep,
      GiveUpDeletesSource, GiveUpSettles, GiveUpEvaluates, ChildStep, ChildStarts, ChildReports,
      CancelChild, BarrierStep, ReportEvaluates, Evaluate, DeadlineRelease, ReleaseDeletesSource,
      CancelParent, CancelChildren, local, vars
<1>4. CASE Fault
  BY <1>2, <1>4, NoOutage DEF Fault, RepeatCreate, SourceExpires, Stall, Crash, EnqueueTxAborts,
                              SpendFault, local, NoRetreat
<1>5. ASSUME NEW d \in Dispatchers, DispatcherStep(d), pc'[e] # pc[e] PROVE FALSE
  <2>1. CASE \/ TakeDispatch(d) \/ CheckBarrier(d) \/ LoadSource(d) \/ CreditsExhausted(d)
             \/ ClaimChunk(d) \/ ClaimClosed(d)
    BY <1>1, <1>5, <2>1 DEF TakeDispatch, CheckBarrier, LoadSource, CreditsExhausted, ClaimChunk,
                            ClaimClosed
  <2>2. CASE ProbeUnclaimed(d)
    BY <1>5, <2>2 DEF ProbeUnclaimed, Open, Unclaimed, rows
  <2>3. CASE ClaimNothing(d)
    <3>1. cursor[d] = START_OF_BARRIER /\ Chunk(cursor[d]) = {} /\ UNCHANGED <<signal, refId>>
      BY <1>5, <2>3 DEF ClaimNothing, rows
    <3>2. 0 \in 0..NSignals
      BY FanOutAssumption
    <3>3. \A s \in Signals : ~Unclaimed(s)
      <4>1. Chunk(0) = {}
        BY <3>1 DEF START_OF_BARRIER
      <4>2. \A s \in Signals : s > 0 => ~Unclaimed(s)
        BY <3>2, <4>1, ChunkFindsUnclaimed
      <4> QED
        BY <4>2, FanOutAssumption DEF Signals
    <3> QED
      BY <3>1, <3>3 DEF Open, Unclaimed
  <2>4. ASSUME NEW c \in Children,
               \/ EnqueueChild(d, c) \/ EnqueueFails(d, c) \/ CancelUnstartedChild(d, c)
               \/ SettleIfGaveUp(d, c)
        PROVE  FALSE
    BY <1>5, <2>4 DEF EnqueueChild, EnqueueFails, CancelUnstartedChild, SettleIfGaveUp
  <2>5. CASE FinishChunk(d)
    BY <1>1, <1>5, <2>5 DEF FinishChunk, ClosedVerdict
  <2>6. CASE SettleUnclaimedSignals(d)
    BY <1>5, <2>6 DEF SettleUnclaimedSignals, SweepUnclaimed, Open, Unclaimed
  <2>7. CASE EvaluateAndReturn(d)
    BY <1>5, <2>7 DEF EvaluateAndReturn, EvaluateIsLast, Open, Unclaimed, rows
  <2>8. CASE CompleteJob(d) \/ FailJob(d) \/ AddGiveUp(d) \/ EvaluateLate(d)
    BY <1>5, <2>8 DEF CompleteJob, FailJob, AddGiveUp, EvaluateLate
  <2> QED
    BY <1>5, <2>1, <2>2, <2>3, <2>4, <2>5, <2>6, <2>7, <2>8 DEF DispatcherStep
<1> QED
  BY <1>2, <1>3, <1>4, <1>5 DEF Next

\* While a batch is unclaimed somebody is on the way to it: the job, its dispatcher, the
\* one that gave up, or the give-up job.
LEMMA NextCovered ==
    ASSUME NoRetreat, PInv, EndInv, [Next]_vars
    PROVE  Covered'
<1> USE DEF EndInv, PInv, IInv, TypeOK, Goto, Leave, Requeue, DispatchPC, jobVars
<1> DEFINE Seeks(d) == pc[d] \in DispatchPC \ {"idle", "evaluate", "return"}
<1> SUFFICES ASSUME Open'
             PROVE  \/ job' = "none" /\ creator' \in {"put", "add", "putAgain", "addAgain"}
                    \/ job' = "waiting"
                    \/ \E d \in Dispatchers : Seeks(d)'
                    \/ giveUpJob' \in {"waiting", "settle"}
  BY DEF Covered
<1>1. ASSUME NEW d \in Dispatchers, NEW c \in Children, EnqueueFails(d, c) PROVE Seeks(d)'
  BY <1>1 DEF EnqueueFails
<1>2. CASE ~Open
  BY <1>1, <1>2, OpenSteps
<1>3. CASE Open
  <2>1. Covered /\ \A d \in Dispatchers : pc[d] \notin {"evaluate", "return"}
    BY <1>3 DEF EvaluateIsLast
  <2>2. CASE Creation
    BY <1>3, <2>1, <2>2 DEF Covered, Creation, PutSource, AddFanOutDispatch,
                            CreateEnqueuesEvaluation, local
  <2>3. CASE GiveUpStep
    BY <1>3, <2>1, <2>3 DEF Covered, GiveUpStep, GiveUpDeletesSource, GiveUpSettles,
                            GiveUpEvaluates, SweepUnclaimed, Open, Unclaimed, local, requests
  <2>4. CASE ChildStep \/ BarrierStep \/ UNCHANGED vars
    BY <1>3, <2>1, <2>4 DEF Covered, ChildStep, ChildStarts, ChildReports, CancelChild, BarrierStep,
        ReportEvaluates, Evaluate, DeadlineRelease, ReleaseDeletesSource, CancelParent,
        CancelChildren, local, requests, vars
  <2>5. CASE Fault
    BY <1>3, <2>1, <2>5, NoOutage DEF Covered, Fault, RepeatCreate, SourceExpires, Stall, Crash,
        EnqueueTxAborts, SpendFault, NoRetreat, local, requests
  <2>6. ASSUME NEW d \in Dispatchers, DispatcherStep(d)
        PROVE  \/ job' = "none" /\ creator' \in {"put", "add", "putAgain", "addAgain"}
               \/ job' = "waiting"
               \/ \E e \in Dispatchers : Seeks(e)'
               \/ giveUpJob' \in {"waiting", "settle"}
    <3>1. CASE TakeDispatch(d) \/ CheckBarrier(d) \/ LoadSource(d)
      BY <1>3, <3>1 DEF TakeDispatch, CheckBarrier, LoadSource, Open
    <3>2. CASE ProbeUnclaimed(d)
      BY <1>3, <3>2 DEF ProbeUnclaimed, Open
    <3>3. CASE CreditsExhausted(d) \/ ClaimChunk(d) \/ ClaimClosed(d)
      BY <1>3, <3>3 DEF CreditsExhausted, ClaimChunk, ClaimClosed, Open
    <3>4. CASE ClaimNothing(d)
      <4>1. pc'[d] # "evaluate"
        <5>1. EvaluateIsLast'
          BY <1>3, NextEvaluateIsLast, Zenon
        <5> QED
          BY <5>1 DEF EvaluateIsLast
      <4> QED
        BY <3>4, <4>1 DEF ClaimNothing
    <3>5. ASSUME NEW c \in Children,
                 \/ EnqueueChild(d, c) \/ EnqueueFails(d, c) \/ CancelUnstartedChild(d, c)
                 \/ SettleIfGaveUp(d, c)
          PROVE  Seeks(d)'
      BY <3>5 DEF EnqueueChild, EnqueueFails, CancelUnstartedChild, SettleIfGaveUp
    <3>6. CASE FinishChunk(d)
      BY <1>3, <3>6 DEF FinishChunk, ClosedVerdict, Open
    <3>7. CASE SettleUnclaimedSignals(d)
      BY <3>7 DEF SettleUnclaimedSignals, SweepUnclaimed, Open, Unclaimed
    <3>8. CASE EvaluateAndReturn(d) \/ CompleteJob(d)
      BY <2>1, <3>8 DEF EvaluateAndReturn, CompleteJob
    <3>9. CASE FailJob(d)
      <4>1. d \in holder
        BY <3>9 DEF FailJob, OneHolder, Working
      <4> QED
        BY <3>9, <4>1 DEF FailJob
    <3>10. CASE AddGiveUp(d) \/ EvaluateLate(d)
      BY <3>10 DEF AddGiveUp, EvaluateLate, GiveUpOnce
    <3> QED
      BY <2>6, <3>1, <3>2, <3>3, <3>4, <3>5, <3>6, <3>7, <3>8, <3>9, <3>10 DEF DispatcherStep
  <2> QED
    BY <2>2, <2>3, <2>4, <2>5, <2>6 DEF Next
<1> QED
  BY <1>2, <1>3

(***************************************************************************)
(* Who owes an evaluation.  A sweep and an outcome are committed before    *)
(* the evaluation is asked for, by the one that committed them; when it    *)
(* stops in between, whoever has it run again owes the evaluation instead. *)
(***************************************************************************)
Settled == barrier = "PENDING" /\ \A s \in Signals : signal[s] # "PENDING"

\* On the way from the start of the handler to its evaluation, or to a retry
Toward == {"check", "source", "probe", "claim", "enqueue", "settle", "evaluate", "throw"}

Owes ==
    \/ reporting > 0
    \/ job = "waiting"
    \/ giveUpJob \in {"waiting", "settle", "evaluate"}
    \/ \E d \in holder : pc[d] \in Toward
    \/ \E d \in Dispatchers : pc[d] \in {"evaluate", "gaveUp"} \/ swept[d] > 0

\* A waiting barrier with all its signals settled has an evaluation due, or one owed
SettledIsOwed == Settled => evaluation \/ deserted \/ Owes

HolderIsActive ==
    /\ holder # {} => job = "active"
    /\ \A d, e \in holder : d = e

\* A dispatcher settles late in the middle of its chunk only
SweptInChunk == \A d \in Dispatchers : swept[d] > 0 => pc[d] = "enqueue"

\* A give-up job that failed for good left its evaluation to nobody
LostGiveUp == giveUpJob = "failed" => deserted

OInv ==
    PInv /\ ClosedVerdict /\ HolderIsActive /\ SweptInChunk /\ LostGiveUp /\ SettledIsOwed

\* One dispatcher at most holds the job, and only an active one is held.
LEMMA NextHolderIsActive == ASSUME TypeOK, HolderIsActive, [Next]_vars PROVE HolderIsActive'
<1> USE DEF HolderIsActive, TypeOK, Requeue, jobVars
<1>1. CASE Creation
  BY <1>1 DEF Creation, PutSource, AddFanOutDispatch, CreateEnqueuesEvaluation
<1>2. CASE GiveUpStep \/ ChildStep \/ BarrierStep \/ UNCHANGED vars
  BY <1>2 DEF GiveUpStep, GiveUpDeletesSource, GiveUpSettles, GiveUpEvaluates, ChildStep,
              ChildStarts, ChildReports, CancelChild, BarrierStep, ReportEvaluates, Evaluate,
              DeadlineRelease, ReleaseDeletesSource, CancelParent, CancelChildren, vars
<1>3. CASE Fault
  BY <1>3, OutageRests DEF Fault, RepeatCreate, SourceExpires, Stall, Crash, EnqueueTxAborts
<1>4. ASSUME NEW d \in Dispatchers, DispatcherStep(d) PROVE HolderIsActive'
  <2>1. CASE TakeDispatch(d) \/ CompleteJob(d) \/ FailJob(d)
    BY <2>1 DEF TakeDispatch, CompleteJob, FailJob
  <2>2. CASE ~(TakeDispatch(d) \/ CompleteJob(d) \/ FailJob(d))
    <3>1. UNCHANGED <<job, holder>>
      BY <1>4, <2>2 DEF DispatcherStep, CheckBarrier, LoadSource, ProbeUnclaimed, CreditsExhausted,
          ClaimChunk, ClaimNothing, ClaimClosed, EnqueueChild, EnqueueFails, CancelUnstartedChild,
          SettleIfGaveUp, EvaluateLate, FinishChunk, SettleUnclaimedSignals, EvaluateAndReturn,
          AddGiveUp
    <3> QED
      BY <3>1
  <2> QED
    BY <2>1, <2>2
<1> QED
  BY <1>1, <1>2, <1>3, <1>4 DEF Next

\* A chunk ends when its late settlements have asked for their evaluations.
LEMMA NextSweptInChunk == ASSUME TypeOK, SweptInChunk, [Next]_vars PROVE SweptInChunk'
<1> USE DEF SweptInChunk, TypeOK, Goto, Leave
<1>1. CASE Creation \/ GiveUpStep \/ ChildStep \/ BarrierStep \/ UNCHANGED vars
  BY <1>1 DEF Creation, PutSource, AddFanOutDispatch, CreateEnqueuesEvaluation, GiveUpStep,
      GiveUpDeletesSource, GiveUpSettles, GiveUpEvaluates, ChildStep, ChildStarts, ChildReports,
      CancelChild, BarrierStep, ReportEvaluates, Evaluate, DeadlineRelease, ReleaseDeletesSource,
      CancelParent, CancelChildren, local, vars
<1>2. CASE Outage
  BY <1>2 DEF Outage, CreateFails, GiveUpFails, ReportFails, LateSettleFails, SettleFails,
              AddGiveUpFails, local
<1>3. CASE Fault /\ ~Outage
  BY <1>3 DEF Fault, RepeatCreate, SourceExpires, Stall, Crash, EnqueueTxAborts, local
<1>4. ASSUME NEW d \in Dispatchers, DispatcherStep(d) PROVE SweptInChunk'
  <2>1. ASSUME NEW c \in Children,
               \/ EnqueueChild(d, c) \/ EnqueueFails(d, c) \/ CancelUnstartedChild(d, c)
               \/ SettleIfGaveUp(d, c)
        PROVE  SweptInChunk'
    BY <2>1 DEF EnqueueChild, EnqueueFails, CancelUnstartedChild, SettleIfGaveUp
  <2>2. CASE \/ TakeDispatch(d) \/ CheckBarrier(d) \/ LoadSource(d) \/ ProbeUnclaimed(d)
             \/ CreditsExhausted(d) \/ ClaimChunk(d) \/ ClaimNothing(d) \/ ClaimClosed(d)
    BY <2>2 DEF TakeDispatch, CheckBarrier, LoadSource, ProbeUnclaimed, CreditsExhausted,
                ClaimChunk, ClaimNothing, ClaimClosed
  <2>3. CASE \/ FinishChunk(d) \/ SettleUnclaimedSignals(d) \/ EvaluateAndReturn(d)
             \/ CompleteJob(d) \/ FailJob(d) \/ AddGiveUp(d) \/ EvaluateLate(d)
    BY <2>3 DEF FinishChunk, SettleUnclaimedSignals, EvaluateAndReturn, CompleteJob, FailJob,
                AddGiveUp, EvaluateLate
  <2> QED
    BY <1>4, <2>1, <2>2, <2>3 DEF DispatcherStep
<1> QED
  BY <1>1, <1>2, <1>3, <1>4 DEF Next

\* What was deserted is never taken up again.
LEMMA DesertedStays == ASSUME [Next]_vars, deserted PROVE deserted'
<1>1. CASE Outage
  BY <1>1 DEF Outage, CreateFails, GiveUpFails, ReportFails, LateSettleFails, SettleFails,
              AddGiveUpFails, reports
<1>2. CASE Fault /\ ~Outage
  BY <1>2 DEF Fault, RepeatCreate, SourceExpires, Stall, Crash, EnqueueTxAborts, reports
<1>3. CASE Creation \/ GiveUpStep \/ ChildStep \/ BarrierStep \/ UNCHANGED vars
  BY <1>3 DEF Creation, PutSource, AddFanOutDispatch, CreateEnqueuesEvaluation, GiveUpStep,
      GiveUpDeletesSource, GiveUpSettles, GiveUpEvaluates, ChildStep, ChildStarts, ChildReports,
      CancelChild, BarrierStep, ReportEvaluates, Evaluate, DeadlineRelease, ReleaseDeletesSource,
      CancelParent, CancelChildren, reports, vars
<1>4. ASSUME NEW d \in Dispatchers, DispatcherStep(d) PROVE UNCHANGED deserted
  BY <1>4 DEF DispatcherStep, TakeDispatch, CheckBarrier, LoadSource, ProbeUnclaimed,
      CreditsExhausted, ClaimChunk, ClaimNothing, ClaimClosed, EnqueueChild, EnqueueFails,
      CancelUnstartedChild, SettleIfGaveUp, EvaluateLate, FinishChunk, SettleUnclaimedSignals,
      EvaluateAndReturn, CompleteJob, FailJob, AddGiveUp, reports
<1> QED
  BY <1>1, <1>2, <1>3, <1>4 DEF Next

\* The give-up job fails for good in one step only, and that step says so.
LEMMA NextLostGiveUp == ASSUME LostGiveUp, [Next]_vars PROVE LostGiveUp'
<1> SUFFICES ASSUME giveUpJob' = "failed", ~deserted PROVE deserted'
  BY DesertedStays DEF LostGiveUp
<1>1. giveUpJob # "failed"
  BY DEF LostGiveUp
<1>2. CASE Creation \/ GiveUpStep \/ ChildStep \/ BarrierStep \/ UNCHANGED vars
  BY <1>1, <1>2 DEF Creation, PutSource, AddFanOutDispatch, CreateEnqueuesEvaluation, GiveUpStep,
      GiveUpDeletesSource, GiveUpSettles, GiveUpEvaluates, ChildStep, ChildStarts, ChildReports,
      CancelChild, BarrierStep, ReportEvaluates, Evaluate, DeadlineRelease, ReleaseDeletesSource,
      CancelParent, CancelChildren, vars
<1>3. CASE Outage
  BY <1>1, <1>3 DEF Outage, CreateFails, GiveUpFails, ReportFails, LateSettleFails, SettleFails,
                    AddGiveUpFails
<1>4. CASE Fault /\ ~Outage
  BY <1>1, <1>4 DEF Fault, RepeatCreate, SourceExpires, Stall, Crash, EnqueueTxAborts
<1>5. ASSUME NEW d \in Dispatchers, DispatcherStep(d) PROVE FALSE
  BY <1>1, <1>5 DEF DispatcherStep, TakeDispatch, CheckBarrier, LoadSource, ProbeUnclaimed,
      CreditsExhausted, ClaimChunk, ClaimNothing, ClaimClosed, EnqueueChild, EnqueueFails,
      CancelUnstartedChild, SettleIfGaveUp, EvaluateLate, FinishChunk, SettleUnclaimedSignals,
      EvaluateAndReturn, CompleteJob, FailJob, AddGiveUp
<1> QED
  BY <1>2, <1>3, <1>4, <1>5 DEF Next

\* A step that settles a signal leaves the one that took it owing the evaluation.
LEMMA SettlerOwes ==
    ASSUME OInv, [Next]_vars, ~Settled, Settled'
    PROVE  Owes'
<1> USE DEF OInv, PInv, IInv, TypeOK
<1>1. barrier = "PENDING" /\ signal' # signal
  BY OutcomesStay DEF Settled
<1>2. CASE Creation \/ UNCHANGED vars
  BY <1>1, <1>2 DEF Creation, PutSource, AddFanOutDispatch, CreateEnqueuesEvaluation, rows, vars
<1>3. CASE GiveUpStep
  BY <1>1, <1>3 DEF GiveUpStep, GiveUpDeletesSource, GiveUpSettles, GiveUpEvaluates, Owes, rows
<1>4. CASE ChildStep
  <2>1. reporting' > 0
    BY <1>1, <1>4 DEF ChildStep, ChildStarts, ChildReports, CancelChild, ReceiveSignal
  <2> QED
    BY <2>1 DEF Owes
<1>5. CASE BarrierStep
  BY <1>1, <1>5 DEF BarrierStep, ReportEvaluates, Evaluate, DeadlineRelease, ReleaseDeletesSource,
                    CancelParent, CancelChildren, Settled, rows
<1>6. CASE Fault
  BY <1>1, <1>6, OutageRests DEF Fault, RepeatCreate, SourceExpires, Stall, Crash,
                                 EnqueueTxAborts, rows
<1>7. ASSUME NEW d \in Dispatchers, DispatcherStep(d) PROVE Owes'
  <2>1. CASE SettleUnclaimedSignals(d)
    BY <2>1 DEF SettleUnclaimedSignals, Goto, Owes
  <2>2. ASSUME NEW c \in Children, SettleIfGaveUp(d, c) PROVE Owes'
    <3>1. swept' = [swept EXCEPT ![d] = @ + 1]
      BY <1>1, <2>2 DEF SettleIfGaveUp
    <3>2. swept'[d] > 0
      BY <3>1
    <3> QED
      BY <3>2 DEF Owes
  <2>3. ASSUME NEW c \in Children,
               EnqueueChild(d, c) \/ EnqueueFails(d, c) \/ CancelUnstartedChild(d, c)
        PROVE  FALSE
    BY <1>1, <2>3 DEF EnqueueChild, EnqueueFails, CancelUnstartedChild
  <2>4. CASE \/ TakeDispatch(d) \/ CheckBarrier(d) \/ LoadSource(d) \/ ProbeUnclaimed(d)
             \/ CreditsExhausted(d) \/ ClaimChunk(d) \/ ClaimNothing(d) \/ ClaimClosed(d)
    BY <1>1, <2>4 DEF TakeDispatch, CheckBarrier, LoadSource, ProbeUnclaimed, CreditsExhausted,
                      ClaimChunk, ClaimNothing, ClaimClosed, rows
  <2>5. CASE \/ FinishChunk(d) \/ EvaluateAndReturn(d) \/ EvaluateLate(d) \/ CompleteJob(d)
             \/ FailJob(d) \/ AddGiveUp(d)
    BY <1>1, <2>5 DEF FinishChunk, EvaluateAndReturn, EvaluateLate, CompleteJob, FailJob, AddGiveUp,
                      rows
  <2> QED
    BY <1>7, <2>1, <2>2, <2>3, <2>4, <2>5 DEF DispatcherStep
<1> QED
  BY <1>2, <1>3, <1>4, <1>5, <1>6, <1>7 DEF Next

\* What the dispatchers' steps make of an evaluation one of them owes: it is asked for, or
\* still owed by that dispatcher, by the job it puts back or by the give-up it adds, or was
\* deserted before.
LEMMA DispatcherPasses ==
    ASSUME OInv, NEW d \in Dispatchers, DispatcherStep(d), Settled, Settled', Owes
    PROVE  evaluation' \/ deserted \/ Owes'
<1> USE DEF OInv, PInv, IInv, TypeOK, Goto, Leave, Requeue, jobVars, Owes, Toward, HolderIsActive,
            SweptInChunk
<1>1. CASE EvaluateAndReturn(d) \/ EvaluateLate(d)
  BY <1>1 DEF EvaluateAndReturn, EvaluateLate
<1>2. CASE TakeDispatch(d)
  BY <1>2 DEF TakeDispatch
<1>3. CASE CheckBarrier(d) \/ LoadSource(d) \/ ProbeUnclaimed(d) \/ CreditsExhausted(d)
  BY <1>3 DEF CheckBarrier, LoadSource, ProbeUnclaimed, CreditsExhausted, requests, reports, Settled
<1>4. CASE ClaimChunk(d)
  BY <1>4 DEF ClaimChunk, requests, reports
<1>5. CASE ClaimNothing(d) \/ ClaimClosed(d)
  BY <1>5 DEF ClaimNothing, ClaimClosed, requests, reports, Settled
<1>6. ASSUME NEW c \in Children,
             EnqueueChild(d, c) \/ EnqueueFails(d, c) \/ CancelUnstartedChild(d, c)
      PROVE  Owes'
  BY <1>6 DEF EnqueueChild, EnqueueFails, CancelUnstartedChild, reports
<1>7. ASSUME NEW c \in Children, SettleIfGaveUp(d, c) PROVE Owes'
  <2>1. \A e \in Dispatchers : swept[e] > 0 => swept'[e] > 0
    BY <1>7 DEF SettleIfGaveUp
  <2> QED
    BY <1>7, <2>1 DEF SettleIfGaveUp, reports
<1>8. CASE FinishChunk(d)
  BY <1>8 DEF FinishChunk, ClosedVerdict, Settled, reports
<1>9. CASE SettleUnclaimedSignals(d)
  BY <1>9 DEF SettleUnclaimedSignals, reports
<1>10. CASE CompleteJob(d)
  BY <1>10 DEF CompleteJob, reports
<1>11. CASE FailJob(d)
  BY <1>11 DEF FailJob, reports
<1>12. CASE AddGiveUp(d)
  BY <1>12 DEF AddGiveUp, LostGiveUp, reports
<1> QED
  BY <1>1, <1>2, <1>3, <1>4, <1>5, <1>6, <1>7, <1>8, <1>9, <1>10, <1>11, <1>12 DEF DispatcherStep

\* A fault leaves the evaluation to whoever runs the step again, or deserts it.
LEMMA FaultPasses ==
    ASSUME OInv, Fault, Owes
    PROVE  deserted' \/ Owes'
<1> USE DEF OInv, PInv, IInv, TypeOK, Goto, Leave, Requeue, jobVars, Owes, Toward, HolderIsActive,
            SweptInChunk
<1>1. CASE RepeatCreate \/ SourceExpires \/ CreateFails \/ ReportFails
  BY <1>1 DEF RepeatCreate, SourceExpires, CreateFails, ReportFails, local, reports
<1>2. CASE GiveUpFails
  BY <1>2 DEF GiveUpFails, local
<1>3. ASSUME NEW d \in Dispatchers, SettleFails(d) PROVE deserted' \/ Owes'
  BY <1>3 DEF SettleFails
<1>4. ASSUME NEW d \in Dispatchers, LateSettleFails(d) PROVE deserted' \/ Owes'
  BY <1>4 DEF LateSettleFails
<1>5. ASSUME NEW d \in Dispatchers, AddGiveUpFails(d) PROVE deserted' \/ Owes'
  BY <1>5 DEF AddGiveUpFails
<1>6. ASSUME NEW d \in Dispatchers, Stall(d) PROVE deserted' \/ Owes'
  BY <1>6 DEF Stall
<1>7. ASSUME NEW d \in Dispatchers, Crash(d) PROVE deserted' \/ Owes'
  <2>1. CASE d \in holder
    BY <1>7, <2>1 DEF Crash
  <2>2. CASE d \notin holder
    <3>1. UNCHANGED <<job, holder, giveUpJob, reporting>>
      BY <1>7, <2>2 DEF Crash
    <3>2. \A e \in Dispatchers : e # d => pc'[e] = pc[e] /\ swept'[e] = swept[e]
      BY <1>7 DEF Crash
    <3>3. deserted' <=> deserted \/ pc[d] \in {"evaluate", "gaveUp"} \/ swept[d] > 0
      BY <1>7, <2>2 DEF Crash
    <3> QED
      BY <2>2, <3>1, <3>2, <3>3
  <2> QED
    BY <2>1, <2>2
<1>8. ASSUME NEW d \in Dispatchers, NEW c \in Children, EnqueueTxAborts(d, c)
      PROVE  deserted' \/ Owes'
  BY <1>8 DEF EnqueueTxAborts, reports
<1> QED
  BY <1>1, <1>2, <1>3, <1>4, <1>5, <1>6, <1>7, <1>8 DEF Fault, Outage

\* An evaluation that is due, or owed, stays so until it is made.
LEMMA NextSettledIsOwed == ASSUME OInv, [Next]_vars PROVE SettledIsOwed'
<1> SUFFICES ASSUME Settled' PROVE evaluation' \/ deserted' \/ Owes'
  BY DEF SettledIsOwed
<1> USE DEF OInv
<1>1. CASE ~Settled
  BY <1>1, SettlerOwes
<1>2. CASE Settled
  <2>1. deserted => deserted'
    BY DesertedStays
  <2>2. evaluation => evaluation'
    <3>1. CASE Evaluate
      BY <1>2, <3>1 DEF Evaluate, Settled
    <3>2. CASE Fault
      BY <3>2, OutageRests DEF Fault, RepeatCreate, SourceExpires, Stall, Crash, EnqueueTxAborts
    <3>3. CASE Creation \/ GiveUpStep \/ ChildStep \/ (BarrierStep /\ ~Evaluate) \/ UNCHANGED vars
      BY <3>3 DEF Creation, PutSource, AddFanOutDispatch, CreateEnqueuesEvaluation, GiveUpStep,
          GiveUpDeletesSource, GiveUpSettles, GiveUpEvaluates, ChildStep, ChildStarts, ChildReports,
          CancelChild, BarrierStep, ReportEvaluates, DeadlineRelease, ReleaseDeletesSource,
          CancelParent, CancelChildren, vars
    <3>4. ASSUME NEW d \in Dispatchers, DispatcherStep(d) PROVE evaluation => evaluation'
      BY <3>4 DEF DispatcherStep, TakeDispatch, CheckBarrier, LoadSource, ProbeUnclaimed,
          CreditsExhausted, ClaimChunk, ClaimNothing, ClaimClosed, EnqueueChild, EnqueueFails,
          CancelUnstartedChild, SettleIfGaveUp, EvaluateLate, FinishChunk, SettleUnclaimedSignals,
          EvaluateAndReturn, CompleteJob, FailJob, AddGiveUp
    <3> QED
      BY <3>1, <3>2, <3>3, <3>4 DEF Next
  <2>3. Owes => evaluation' \/ deserted' \/ Owes'
    <3> SUFFICES ASSUME Owes PROVE evaluation' \/ deserted' \/ Owes'
      OBVIOUS
    <3>1. CASE Creation \/ UNCHANGED vars
      BY <3>1 DEF Creation, PutSource, AddFanOutDispatch, CreateEnqueuesEvaluation, Owes, local,
                  jobVars, reports, vars
    <3>2. CASE GiveUpStep
      BY <3>2 DEF GiveUpStep, GiveUpDeletesSource, GiveUpSettles, GiveUpEvaluates, Owes
    <3>3. CASE ChildStep
      <4>1. (reporting > 0 => reporting' > 0) /\ UNCHANGED <<jobVars, giveUpJob, local>>
        BY <3>3 DEF ChildStep, ChildStarts, ChildReports, CancelChild, ReceiveSignal, reports,
                    PInv, IInv, TypeOK
      <4>2. /\ \A d \in Dispatchers : pc'[d] = pc[d] /\ swept'[d] = swept[d]
            /\ holder' = holder /\ job' = job /\ giveUpJob' = giveUpJob
        BY <4>1 DEF local, jobVars
      <4>3. holder \subseteq Dispatchers
        BY DEF PInv, IInv, TypeOK
      <4> QED
        BY <4>1, <4>2, <4>3 DEF Owes
    <3>4. CASE BarrierStep
      BY <1>2, <3>4 DEF BarrierStep, ReportEvaluates, Evaluate, DeadlineRelease,
          ReleaseDeletesSource, CancelParent, CancelChildren, Settled, Owes, local, jobVars, reports
    <3>5. CASE Fault
      BY <3>5, FaultPasses
    <3>6. ASSUME NEW d \in Dispatchers, DispatcherStep(d)
          PROVE  evaluation' \/ deserted' \/ Owes'
      BY <1>2, <2>1, <3>6, DispatcherPasses
    <3> QED
      BY <3>1, <3>2, <3>3, <3>4, <3>5, <3>6 DEF Next
  <2> QED
    BY <1>2, <2>1, <2>2, <2>3 DEF SettledIsOwed
<1> QED
  BY <1>1, <1>2

\* Once every signal of a waiting barrier is settled and nobody is left in the middle of a
\* settlement, an evaluation is due, for any number of batches and dispatchers and whatever
\* stalls, crashes, failed calls and cancels come together; exempt is an evaluation that
\* was deserted by a step nothing runs again.
THEOREM LastSettlementHasEvaluation == Spec => []LastSettlementIsEvaluated
<1>1. Init => ClosedVerdict /\ HolderIsActive /\ SweptInChunk /\ LostGiveUp /\ SettledIsOwed
  <2>1. 1 \in Signals
    BY FanOutAssumption DEF Signals
  <2> QED
    BY <2>1 DEF Init, ClosedVerdict, HolderIsActive, SweptInChunk, LostGiveUp, SettledIsOwed,
                Settled
<1>2. PInv /\ PInv' /\ OInv /\ [Next]_vars => OInv'
  BY NextClosedVerdict, NextHolderIsActive, NextSweptInChunk, NextLostGiveUp, NextSettledIsOwed
  DEF OInv, PInv, IInv
<1>3. OInv => LastSettlementIsEvaluated
  <2> SUFFICES ASSUME OInv, barrier = "PENDING", DispatchOver, reporting = 0, ~deserted,
                      \A s \in Signals : signal[s] # "PENDING"
               PROVE  evaluation
    BY DEF LastSettlementIsEvaluated
  <2>1. ~Owes
    BY DEF OInv, Owes, DispatchOver, HolderIsActive, SweptInChunk
  <2> QED
    BY <2>1 DEF OInv, SettledIsOwed, Settled
<1>4. PInv /\ ClosedVerdict /\ HolderIsActive /\ SweptInChunk /\ LostGiveUp /\ SettledIsOwed
      <=> OInv
  BY DEF OInv
<1> QED
  BY <1>1, <1>2, <1>3, <1>4, PromiseInvariant, PTL DEF Spec

(***************************************************************************)
(* The theorems.                                                           *)
(***************************************************************************)
\* When dispatch is over, every batch of a waiting barrier is claimed or settled: what a
\* refused enqueue released was claimed again or settled, whatever chunks, attempts,
\* repeated creates, aborted transactions and cancels came in between.  A stalled or
\* crashed dispatcher is excluded, as is a failed call on the way to a settlement: a claim
\* that was released may be left.
THEOREM NothingIsLeftUnclaimed == NoRetreat => (Spec => []NoSignalLeftUnclaimed)
<1> SUFFICES ASSUME NoRetreat PROVE Spec => []NoSignalLeftUnclaimed
  OBVIOUS
<1>1. Init => EndInv
  BY DEF Init, EndInv, OneHolder, GiveUpOnce, ClosedVerdict, Covered, EvaluateIsLast, Working
<1>2. PInv /\ EndInv /\ [Next]_vars => EndInv'
  BY NextOneHolder, NextGiveUpOnce, NextClosedVerdict, NextCovered,
      NextEvaluateIsLast DEF EndInv, PInv, IInv
<1>3. EndInv => NoSignalLeftUnclaimed
  BY DEF EndInv, Covered, NoSignalLeftUnclaimed, DispatchOver, Open
<1> QED
  BY <1>1, <1>2, <1>3, PromiseInvariant, PTL DEF Spec

\* When dispatch is over, a claimed batch that is pending has a child that will report,
\* unless a process died or a transaction aborted between claim and enqueue.
THEOREM ClaimsHaveChildren == NoLoss => (Spec => []NoClaimWithoutChild)
<1> SUFFICES ASSUME NoLoss PROVE Spec => []NoClaimWithoutChild
  OBVIOUS
<1>1. Init => HeldInChunk /\ CreatedIsHeld /\ ClaimHasChild
  BY DEF Init, HeldInChunk, CreatedIsHeld, ClaimHasChild
<1>2. PInv /\ HeldInChunk /\ CreatedIsHeld /\ ClaimHasChild /\ [Next]_vars
        => HeldInChunk' /\ CreatedIsHeld' /\ ClaimHasChild'
  BY NextHeldInChunk, NextCreatedIsHeld, NextClaimHasChild DEF PInv, IInv, NoLoss
<1>3. PInv /\ HeldInChunk /\ CreatedIsHeld /\ ClaimHasChild => NoClaimWithoutChild
  <2> SUFFICES ASSUME PInv, HeldInChunk, CreatedIsHeld, ClaimHasChild, barrier = "PENDING",
                      DispatchOver, NEW s \in Signals, signal[s] = "PENDING", refId[s] # 0
               PROVE  Live(<<s, refId[s]>>)
    BY DEF NoClaimWithoutChild
  <2>1. run[<<s, refId[s]>>] \in {"created", "queued", "running"}
    BY DEF ClaimHasChild
  <2>2. <<s, refId[s]>> \in Children
    BY FanOutAssumption DEF PInv, IInv, TypeOK, Children
  <2>3. run[<<s, refId[s]>>] # "created"
    BY <2>2 DEF CreatedIsHeld, HeldInChunk, DispatchOver
  <2> QED
    BY <2>1, <2>3 DEF Live
<1> QED
  BY <1>1, <1>2, <1>3, PromiseInvariant, PTL DEF Spec

\* A child whose barrier was released between its claim and its enqueue is cancelled, and
\* none is left as a queued run that no job will start, unless a process died or a
\* transaction aborted in between.
THEOREM UnstartedChildrenAreCanceled == NoLoss => (Spec => []UnstartedChildIsCanceled)
<1> SUFFICES ASSUME NoLoss PROVE Spec => []UnstartedChildIsCanceled
  OBVIOUS
<1>1. Init => HeldInChunk /\ CreatedIsHeld
  BY DEF Init, HeldInChunk, CreatedIsHeld
<1>2. PInv /\ HeldInChunk /\ CreatedIsHeld /\ [Next]_vars => HeldInChunk' /\ CreatedIsHeld'
  BY NextHeldInChunk, NextCreatedIsHeld DEF PInv, IInv, NoLoss
<1>3. HeldInChunk /\ CreatedIsHeld => UnstartedChildIsCanceled
  BY DEF HeldInChunk, CreatedIsHeld, UnstartedChildIsCanceled, DispatchOver
<1> QED
  BY <1>1, <1>2, <1>3, PromiseInvariant, PTL DEF Spec

===============================================================================
