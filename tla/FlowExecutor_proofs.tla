------------------------- MODULE FlowExecutor_proofs -------------------------
(***************************************************************************)
(* Proofs about FlowExecutor, for every flow: its types, which steps are   *)
(* not called again, and the one route of an AI router.                    *)
(***************************************************************************)
EXTENDS FlowExecutor, NaturalsInduction, SequenceTheorems, FiniteSetTheorems, TLAPS

(***************************************************************************)
(* The operators the model is built from.                                  *)
(***************************************************************************)
\* A journal with one entry set is the journal elsewhere.
LEMMA SetFacts ==
    ASSUME NEW k, NEW s, NEW r
    PROVE  /\ DOMAIN Set(k, s, r) = DOMAIN journal \cup {k}
           /\ Set(k, s, r)[k] = [status |-> s, routes |-> r]
           /\ \A x \in DOMAIN journal : x # k => Set(k, s, r)[x] = journal[x]
BY DEF Set, Entry

\* A restricted journal is the journal where it is defined.
LEMMA RestrictFacts ==
    ASSUME NEW f, NEW S
    PROVE  DOMAIN Restrict(f, S) = S /\ \A x \in S : Restrict(f, S)[x] = f[x]
BY DEF Restrict

\* Some natural numbers have a least one.
LEMMA MinFacts ==
    ASSUME NEW S \in SUBSET Nat, S # {}
    PROVE  Min(S) \in S
<1>1. \E m \in S : \A y \in S : <<y, m>> \notin OpToRel(<, Nat)
    BY WFMin, NatLessThanWellFounded, Zenon
<1>2. PICK m \in S : \A y \in S : ~(y < m)
    BY <1>1 DEF OpToRel
<1>3. \A y \in S : m =< y
    BY <1>2
<1> QED
    BY <1>2, <1>3 DEF Min

\* The loops around a step, one for each iteration in its path.
LEMMA EnclosingFacts ==
    ASSUME NEW p, NEW s
    PROVE  \A e : e \in EnclosingLoops(<<p, s>>) <=>
               \E n \in 1..Len(p) : e = <<SubSeq(p, 1, n - 1), p[n][1]>>
BY DEF EnclosingLoops

\* They are keys of loops, and the loops around them are among them.
LEMMA EnclosingNested ==
    ASSUME NEW L, NEW p \in Seq(L \X Nat), NEW s, NEW e \in EnclosingLoops(<<p, s>>)
    PROVE  /\ e \in Seq(L \X Nat) \X L
           /\ EnclosingLoops(e) \subseteq EnclosingLoops(<<p, s>>)
<1>1. PICK n \in 1..Len(p) : e = <<SubSeq(p, 1, n - 1), p[n][1]>>
    BY EnclosingFacts
<1> DEFINE q == SubSeq(p, 1, n - 1)
<1>2. /\ q \in Seq(L \X Nat) /\ Len(q) = n - 1 /\ Len(p) \in Nat
      /\ \A m \in 1..n - 1 : q[m] = p[m]
    OBVIOUS
<1>3. p[n] \in L \X Nat
    OBVIOUS
<1> HIDE DEF q
<1>4. ASSUME NEW f \in EnclosingLoops(<<q, p[n][1]>>) PROVE f \in EnclosingLoops(<<p, s>>)
  <2>1. PICK m \in 1..Len(q) : f = <<SubSeq(q, 1, m - 1), q[m][1]>>
      BY <1>4 DEF EnclosingLoops
  <2>2. m \in 1..n - 1 /\ m \in 1..Len(p) /\ q[m] = p[m]
      BY <1>2
  <2>3. SubSeq(q, 1, m - 1) = SubSeq(p, 1, m - 1)
      BY <1>2, <2>2
  <2>4. f = <<SubSeq(p, 1, m - 1), p[m][1]>>
      BY <2>1, <2>2, <2>3
  <2> QED
      BY <2>2, <2>4, EnclosingFacts
<1> QED
    BY <1>1, <1>2, <1>3, <1>4 DEF q

\* A step in an iteration has around it what is around the loop, and the loop.
LEMMA EnclosingInner ==
    ASSUME NEW L, NEW p \in Seq(L \X Nat), NEW l \in L, NEW n \in Nat, NEW s, NEW t,
           NEW e \in EnclosingLoops(<<Append(p, <<l, n>>), s>>)
    PROVE  e \in EnclosingLoops(<<p, t>>) \/ e = <<p, l>>
<1> DEFINE q == Append(p, <<l, n>>)
<1>1. /\ q \in Seq(L \X Nat) /\ Len(q) = Len(p) + 1 /\ Len(p) \in Nat /\ q[Len(p) + 1] = <<l, n>>
      /\ \A m \in 1..Len(p) : q[m] = p[m]
    OBVIOUS
<1>6. e \in EnclosingLoops(<<q, s>>)
    OBVIOUS
<1> HIDE DEF q
<1>2. PICK m \in 1..Len(q) : e = <<SubSeq(q, 1, m - 1), q[m][1]>>
    BY <1>6, EnclosingFacts
<1>3. CASE m = Len(p) + 1
  <2>1. SubSeq(q, 1, Len(p)) = p
      BY <1>1
  <2> QED
      BY <1>1, <1>2, <1>3, <2>1
<1>4. CASE m \in 1..Len(p)
  <2>1. SubSeq(q, 1, m - 1) = SubSeq(p, 1, m - 1)
      BY <1>1, <1>4
  <2> QED
      BY <1>1, <1>2, <1>4, <2>1, EnclosingFacts
<1>5. m = Len(p) + 1 \/ m \in 1..Len(p)
    BY <1>1
<1> QED
    BY <1>3, <1>4, <1>5

(***************************************************************************)
(* Types.                                                                  *)
(***************************************************************************)
Loops   == {s \in Steps : flow.kind[s] = "loop"}
Paths   == Seq(Loops \X Nat)
Keys    == Paths \X Steps
Entries == [status : Statuses, routes : SUBSET Nat]
Frames  == [step : Steps, path : Paths, at : {"enter", "calling", "handled", "inside", "left"},
            i : Nat, todo : SUBSET Nat]

\* Steps are recorded in iterations of loops that are recorded, routers with routes that they
\* have; a loop is recorded as having succeeded from its first item on, or as failed
JournalOk(j) ==
    \A k \in DOMAIN j : /\ k \in Keys /\ j[k] \in Entries
                        /\ EnclosingLoops(k) \subseteq DOMAIN j
                        /\ j[k].routes \subseteq DOMAIN flow.children[k[2]]
                        /\ k[2] \in Loops => j[k].status \in {"SUCCEEDED", "FAILED"}

\* Where a frame can be, over this journal
FrameOk(fr, j) ==
    /\ EnclosingLoops(<<fr.path, fr.step>>) \subseteq DOMAIN j
    /\ fr.at = "calling" => /\ flow.kind[fr.step] \in {"action", "ai"}
                            /\ ~Has(j, <<fr.path, fr.step>>, "SUCCEEDED")
    /\ fr.at \in {"handled", "left"} => flow.kind[fr.step] = "action"
    /\ fr.at = "inside" => /\ flow.kind[fr.step] # "action" /\ <<fr.path, fr.step>> \in DOMAIN j
                           /\ flow.kind[fr.step] # "loop" => fr.todo \subseteq DOMAIN flow.children[fr.step]

\* Only the innermost frame is at work, the others wait for their children
StackIs(st, j) ==
    /\ st \in Seq(Frames)
    /\ \A n \in 1..Len(st) : FrameOk(st[n], j) /\ (n < Len(st) => st[n].at \in {"inside", "left"})
StackOk == StackIs(stack, journal)

EngineOk == JournalOk(journal) /\ JournalOk(log) /\ StackOk

RunOk ==
    /\ flow \in Flows
    /\ job \in {BeginJob, ResumeJob("waitpoint"), ResumeJob("retry")}
    /\ phase \in {"idle", "queued", "executing", "uploaded", "reported"}
    /\ verdict \in [is : Statuses, failed : Steps \cup {NoStep}]
    /\ verdict # Running => stack = <<>>
    /\ status \in [is : Statuses \cup {"TIMEOUT"}, failed : Steps \cup {NoStep}]
    /\ armed \subseteq Keys /\ succeeded \subseteq Keys /\ readers \subseteq Keys
    /\ retriesDone \in 0..MaxRetries
    /\ faults \subseteq Faults

TInv == EngineOk /\ RunOk

\* What the code of the flow gives: kinds, children and successors.
LEMMA FlowFacts ==
    ASSUME flow \in Flows, NEW s \in Steps
    PROVE  /\ s # NoStep /\ flow.kind[s] \in Kinds /\ flow.items[s] \in Nat
           /\ flow.head \in Steps /\ flow.next[s] \in Steps \cup {NoStep}
           /\ \A n \in DOMAIN flow.children[s] : n \in Nat /\ flow.children[s][n] \in Steps \cup {NoStep}
           /\ flow.kind[s] = "loop" => 1 \in DOMAIN flow.children[s]
           /\ flow.kind[s] \in {"router", "ai"} => DOMAIN flow.choices[s] = DOMAIN flow.children[s]
           /\ s \in flow.continues => {1, 2} \subseteq DOMAIN flow.children[s]
           /\ s \in flow.continues \cup flow.waits \cup flow.retries => flow.kind[s] = "action"
<1>1. IsFlow(flow)
    BY FlowExecutorAssumption
<1>2. flow.children[s] \in Seq(Steps \cup {NoStep})
    BY <1>1 DEF IsFlow, Steps
<1>3. \A n \in DOMAIN flow.children[s] : n \in Nat /\ flow.children[s][n] \in Steps \cup {NoStep}
    BY <1>2
<1> QED
    BY <1>1, <1>3 DEF IsFlow, Steps

\* A flow that stays has the same steps.
LEMMA SameFlow ==
    ASSUME UNCHANGED flow
    PROVE  /\ Steps' = Steps /\ Loops' = Loops /\ Paths' = Paths /\ Keys' = Keys /\ Frames' = Frames
BY DEF Steps, Loops, Paths, Keys, Frames

\* The flow version of a run is fixed.
LEMMA FlowStays == ASSUME [Next]_vars PROVE UNCHANGED flow
BY DEF Next, Walk, vars, Inner, Start, Skip, Reuse, Call, Arm, Pause, Succeed, AttemptAgain, Fail,
   Handled, EnterLoop, EnterRouter, Replay, Answer, NoAnswer, NextChild, Leave, ResolveFails, Flush,
   Upload, SendReport, Complete, Signal, Retry, Redeliver, Kill

\* The key of a loop around a recorded step or a frame is a key.
LEMMA EnclosingKeys ==
    ASSUME NEW p \in Paths, NEW s, NEW e \in EnclosingLoops(<<p, s>>)
    PROVE  /\ e \in Keys /\ e[2] \in Loops
           /\ EnclosingLoops(e) \subseteq EnclosingLoops(<<p, s>>)
<1>1. e \in Paths \X Loops /\ EnclosingLoops(e) \subseteq EnclosingLoops(<<p, s>>)
    BY EnclosingNested DEF Paths
<1> QED
    BY <1>1 DEF Keys, Loops

\* The innermost frame.
LEMMA TopFacts ==
    ASSUME StackOk, stack # <<>>
    PROVE  /\ Len(stack) \in Nat \ {0} /\ Top = stack[Len(stack)]
           /\ Top \in Frames /\ FrameOk(Top, journal) /\ Key \in Keys
<1>1. Len(stack) \in Nat \ {0} /\ stack[Len(stack)] \in Frames
    BY DEF StackOk, StackIs
<1>2. Top = stack[Len(stack)]
    BY DEF Top, Last
<1> QED
    BY <1>1, <1>2 DEF StackOk, StackIs, Frames, Key, Keys

\* A sequence without its last member.
LEMMA FrontFacts ==
    ASSUME NEW S, NEW s \in Seq(S), s # <<>>
    PROVE  /\ Front(s) \in Seq(S) /\ Len(Front(s)) = Len(s) - 1 /\ Len(s) \in Nat \ {0}
           /\ \A n \in 1..Len(s) - 1 : Front(s)[n] = s[n]
<1>1. PICK m \in Nat : Len(s) = m + 1
  <2>1. Len(s) \in Nat \ {0}
      OBVIOUS
  <2>2. Len(s) - 1 \in Nat /\ Len(s) = (Len(s) - 1) + 1
      BY <2>1
  <2> QED
      BY <2>2
<1>2. PICK r : r = SubSeq(s, 1, m)
    OBVIOUS
<1>3. Front(s) = r
    BY <1>1, <1>2 DEF Front
<1>4. \A n \in 1..m : s[n] \in S
    BY <1>1
<1>5. /\ r \in Seq(S)
      /\ Len(r) = IF 1 =< m THEN m - 1 + 1 ELSE 0
      /\ \A n \in 1..m - 1 + 1 : r[n] = s[1 + n - 1]
    BY <1>2, <1>4, SubSeqProperties
<1>6. Len(r) = m /\ \A n \in 1..m : r[n] = s[n]
    BY <1>5
<1> QED
    BY <1>1, <1>3, <1>5, <1>6

\* A stack with another innermost frame.
LEMMA BecomeFacts ==
    ASSUME stack \in Seq(Frames), stack # <<>>, NEW fr \in Frames
    PROVE  /\ Become(fr) \in Seq(Frames) /\ Len(Become(fr)) = Len(stack)
           /\ Become(fr)[Len(stack)] = fr
           /\ \A n \in 1..Len(stack) - 1 : Become(fr)[n] = stack[n]
<1> DEFINE r == Front(stack)
<1>1. /\ r \in Seq(Frames) /\ Len(r) = Len(stack) - 1 /\ Len(stack) \in Nat \ {0}
      /\ \A n \in 1..Len(stack) - 1 : r[n] = stack[n]
    BY FrontFacts
<1>2. Become(fr) = Append(r, fr)
    BY DEF Become
<1> HIDE DEF r
<1> QED
    BY <1>1, <1>2

\* The executor is called for a step, if there is one.
LEMMA ExecuteFacts ==
    ASSUME flow \in Flows, NEW st \in Seq(Frames), NEW s \in Steps \cup {NoStep}, NEW p \in Paths
    PROVE  /\ Execute(st, s, p) \in Seq(Frames)
           /\ s = NoStep => Execute(st, s, p) = st
           /\ s # NoStep => /\ s \in Steps
                            /\ Len(Execute(st, s, p)) = Len(st) + 1
                            /\ Execute(st, s, p)[Len(st) + 1] = Frame(s, p)
                            /\ \A n \in 1..Len(st) : Execute(st, s, p)[n] = st[n]
<1>1. CASE s = NoStep
    BY <1>1 DEF Execute
<1>2. CASE s # NoStep
  <2>1. Frame(s, p) \in Frames
      BY <1>2 DEF Frame, Frames
  <2> DEFINE fr == Frame(s, p)
  <2>2. Execute(st, s, p) = Append(st, fr)
      BY <1>2 DEF Execute
  <2> HIDE DEF fr
  <2> QED
      BY <1>2, <2>1, <2>2 DEF fr
<1> QED
    BY <1>1, <1>2

\* An empty stack is in order.
LEMMA StackEmptied == ASSUME NEW j PROVE StackIs(<<>>, j)
BY DEF StackIs

\* The innermost frame goes on, over a journal that has grown.
LEMMA StackTurned ==
    ASSUME StackOk, stack # <<>>, NEW fr \in Frames, NEW j, DOMAIN journal \subseteq DOMAIN j,
           FrameOk(fr, j)
    PROVE  StackIs(Become(fr), j)
<1> DEFINE st == Become(fr)
<1>0. stack \in Seq(Frames)
    BY DEF StackOk, StackIs
<1>1. /\ st \in Seq(Frames) /\ Len(st) = Len(stack) /\ Len(stack) \in Nat \ {0}
      /\ st[Len(stack)] = fr /\ \A n \in 1..Len(stack) - 1 : st[n] = stack[n]
  <2>1. Len(stack) \in Nat \ {0}
      BY <1>0
  <2> QED
      BY <1>0, <2>1, BecomeFacts
<1> HIDE DEF st
<1>2. ASSUME NEW n \in 1..Len(st)
      PROVE  FrameOk(st[n], j) /\ (n < Len(st) => st[n].at \in {"inside", "left"})
  <2>1. CASE n = Len(stack)
      BY <1>1, <2>1
  <2>2. CASE n \in 1..Len(stack) - 1
    <3>1. st[n] = stack[n] /\ FrameOk(stack[n], journal) /\ stack[n].at \in {"inside", "left"}
        BY <1>1, <2>2 DEF StackOk, StackIs
    <3>2. FrameOk(stack[n], j)
        BY <3>1 DEF FrameOk
    <3> QED
        BY <3>1, <3>2
  <2> QED
      BY <1>1, <2>1, <2>2
<1> QED
    BY <1>1, <1>2 DEF StackIs, st

\* The executor is called for a step by a frame that waits for it.
LEMMA StackEntered ==
    ASSUME flow \in Flows, NEW st, NEW j, StackIs(st, j),
           st # <<>> => st[Len(st)].at \in {"inside", "left"},
           NEW s \in Steps \cup {NoStep}, NEW p \in Paths, EnclosingLoops(<<p, s>>) \subseteq DOMAIN j
    PROVE  StackIs(Execute(st, s, p), j)
<1> DEFINE x == Execute(st, s, p)
<1>1. st \in Seq(Frames) /\ Len(st) \in Nat
    BY DEF StackIs
<1>2. CASE s = NoStep
    BY <1>1, <1>2, ExecuteFacts
<1>3. CASE s # NoStep
  <2>1. /\ x \in Seq(Frames) /\ Len(x) = Len(st) + 1 /\ x[Len(st) + 1] = Frame(s, p)
        /\ \A n \in 1..Len(st) : x[n] = st[n]
      BY <1>1, <1>3, ExecuteFacts
  <2>2. FrameOk(Frame(s, p), j)
      BY DEF FrameOk, Frame
  <2> HIDE DEF x
  <2>3. ASSUME NEW n \in 1..Len(x)
        PROVE  FrameOk(x[n], j) /\ (n < Len(x) => x[n].at \in {"inside", "left"})
    <3>1. CASE n = Len(st) + 1
        BY <1>1, <2>1, <2>2, <3>1
    <3>2. CASE n \in 1..Len(st)
      <4>1. x[n] = st[n] /\ FrameOk(st[n], j) /\ st # <<>>
          BY <1>1, <2>1, <3>2 DEF StackIs
      <4>2. st[n].at \in {"inside", "left"}
          BY <1>1, <3>2, <4>1 DEF StackIs
      <4> QED
          BY <4>1, <4>2
    <3> QED
        BY <1>1, <2>1, <3>1, <3>2
  <2> QED
      BY <2>1, <2>3 DEF StackIs, x
<1> QED
    BY <1>2, <1>3

\* The innermost frame is done.
LEMMA StackPassed ==
    ASSUME flow \in Flows, StackOk, stack # <<>>
    PROVE  StackIs(Past, journal)
<1> DEFINE r == Front(stack)
<1>1. /\ r \in Seq(Frames) /\ Len(r) = Len(stack) - 1 /\ Len(stack) \in Nat \ {0}
      /\ \A n \in 1..Len(stack) - 1 : r[n] = stack[n]
    BY FrontFacts DEF StackOk, StackIs
<1>2. Past = Execute(r, flow.next[Top.step], Top.path)
    BY DEF Past
<1> HIDE DEF r
<1>3. StackIs(r, journal)
    BY <1>1 DEF StackOk, StackIs
<1>4. r # <<>> => r[Len(r)].at \in {"inside", "left"}
    BY <1>1 DEF StackOk, StackIs
<1>5. /\ flow.next[Top.step] \in Steps \cup {NoStep} /\ Top.path \in Paths
      /\ EnclosingLoops(<<Top.path, flow.next[Top.step]>>) \subseteq DOMAIN journal
    BY TopFacts, FlowFacts DEF Frames, FrameOk, EnclosingLoops
<1> QED
    BY <1>2, <1>3, <1>4, <1>5, StackEntered

\* The same, over a flow that stays.
LEMMA NextStack == ASSUME UNCHANGED flow, StackIs(stack', journal') PROVE StackOk'
BY SameFlow DEF StackOk, StackIs, FrameOk, Has, EnclosingLoops

LEMMA NextJournals ==
    ASSUME UNCHANGED flow
    PROVE  /\ JournalOk(journal') => JournalOk(journal)'
           /\ JournalOk(log') => JournalOk(log)'
BY SameFlow DEF JournalOk, EnclosingLoops

(***************************************************************************)
(* Journals.                                                               *)
(***************************************************************************)
\* Setting an entry of a step whose loops are recorded.
LEMMA JournalSet ==
    ASSUME JournalOk(journal), NEW k \in Keys, NEW s \in Statuses, NEW r \in SUBSET Nat,
           EnclosingLoops(k) \subseteq DOMAIN journal, r \subseteq DOMAIN flow.children[k[2]],
           k[2] \in Loops => s \in {"SUCCEEDED", "FAILED"}
    PROVE  JournalOk(Set(k, s, r)) /\ DOMAIN Set(k, s, r) = DOMAIN journal \cup {k}
<1> DEFINE j == Set(k, s, r)
<1>1. /\ DOMAIN j = DOMAIN journal \cup {k} /\ j[k] = [status |-> s, routes |-> r]
      /\ \A x \in DOMAIN journal : x # k => j[x] = journal[x]
    BY DEF Set, Entry
<1> HIDE DEF j
<1>2. j[k] \in Entries /\ j[k].status = s /\ j[k].routes = r
    BY <1>1 DEF Entries
<1>3. JournalOk(j)
    BY <1>1, <1>2 DEF JournalOk
<1> QED
    BY <1>1, <1>3 DEF j

\* Keeping a part that is closed under the loops around its steps.
LEMMA JournalRestricted ==
    ASSUME NEW j, JournalOk(j), NEW S \in SUBSET DOMAIN j, \A k \in S : EnclosingLoops(k) \subseteq S
    PROVE  JournalOk(Restrict(j, S))
<1> DEFINE r == Restrict(j, S)
<1>1. DOMAIN r = S /\ \A x \in S : r[x] = j[x]
    BY RestrictFacts
<1> HIDE DEF r
<1>2. JournalOk(r)
    BY <1>1 DEF JournalOk
<1> QED
    BY <1>2 DEF r

\* What is restored is closed under the loops around its steps.
LEMMA RestoredClosed ==
    ASSUME JournalOk(log), NEW k \in RestoredSteps
    PROVE  EnclosingLoops(k) \subseteq RestoredSteps
<1>1. k \in DOMAIN log /\ EnclosingLoops(k) \subseteq DOMAIN log /\ k \in Keys
    BY DEF JournalOk, RestoredSteps
<1>2. PICK p \in Paths, s \in Steps : k = <<p, s>>
    BY <1>1 DEF Keys
<1>3. \A e \in EnclosingLoops(k) : EnclosingLoops(e) \subseteq EnclosingLoops(k)
    BY <1>2, EnclosingKeys
<1> QED
    BY <1>1, <1>3 DEF RestoredSteps

\* What is left when the iterations of a loop are dropped is closed as well.
LEMMA IterationsClosed ==
    ASSUME NEW l \in Keys, NEW k \in Keys, NEW e \in EnclosingLoops(k), e \in InIterationsOf(l)
    PROVE  k # l /\ (k \in DOMAIN journal => k \in InIterationsOf(l))
<1>1. PICK p \in Paths, s \in Steps : k = <<p, s>>
    BY DEF Keys
<1>2. PICK n \in 1..Len(p) : e = <<SubSeq(p, 1, n - 1), p[n][1]>>
    BY <1>1, EnclosingFacts
<1>3. PICK m \in Paths, t \in Steps : l = <<m, t>>
    BY DEF Keys
<1> DEFINE q == SubSeq(p, 1, n - 1)
<1>4. Len(p) \in Nat /\ Len(m) \in Nat /\ p \in Seq(Loops \X Nat)
    BY DEF Paths
<1>5. Len(q) = n - 1 /\ \A x \in 1..n - 1 : q[x] = p[x]
    BY <1>4
<1>6. /\ Len(q) > Len(m) /\ SubSeq(q, 1, Len(m)) = m /\ q[Len(m) + 1][1] = t
    BY <1>2, <1>3 DEF InIterationsOf
<1>7. SubSeq(q, 1, Len(m)) = SubSeq(p, 1, Len(m))
    BY <1>4, <1>5, <1>6
<1>8. Len(p) > Len(m) /\ p[Len(m) + 1][1] = t
    BY <1>4, <1>5, <1>6
<1> QED
    BY <1>1, <1>3, <1>6, <1>7, <1>8 DEF InIterationsOf

(***************************************************************************)
(* The steps of the engine.                                                *)
(***************************************************************************)
LEMMA NextEngine ==
    ASSUME UNCHANGED flow, JournalOk(journal'), JournalOk(log'), StackIs(stack', journal')
    PROVE  EngineOk'
BY NextStack, NextJournals DEF EngineOk

\* What every step of the walk starts from.
LEMMA AtFacts ==
    ASSUME TInv, NEW at, At(at)
    PROVE  /\ stack # <<>> /\ verdict = Running /\ flow \in Flows
           /\ JournalOk(journal) /\ JournalOk(log) /\ StackOk
           /\ Top \in Frames /\ FrameOk(Top, journal) /\ Top.at = at
           /\ Top.step \in Steps /\ Top.path \in Paths
           /\ Key \in Keys /\ Key = <<Top.path, Top.step>>
           /\ EnclosingLoops(Key) \subseteq DOMAIN journal
<1>1. stack # <<>> /\ Top.at = at /\ flow \in Flows /\ StackOk
    BY DEF TInv, RunOk, EngineOk, At
<1>2. Top \in Frames /\ FrameOk(Top, journal) /\ Key \in Keys
    BY <1>1, TopFacts
<1> QED
    BY <1>1, <1>2 DEF TInv, RunOk, EngineOk, Frames, FrameOk, Key

\* A step that leaves the journal.
LEMMA SameJournal ==
    ASSUME TInv, UNCHANGED <<flow, journal, log>>, StackIs(stack', journal)
    PROVE  EngineOk'
BY NextEngine DEF TInv, EngineOk

LEMMA SkipEngine == ASSUME TInv, Skip PROVE EngineOk'
BY AtFacts, StackPassed, SameJournal DEF Skip, Inner

LEMMA LeaveEngine == ASSUME TInv, Leave PROVE EngineOk'
BY AtFacts, StackPassed, SameJournal DEF Leave, Inner

LEMMA ReuseEngine == ASSUME TInv, Reuse PROVE EngineOk'
<1> DEFINE fr == [Top EXCEPT !.at = "handled"]
<1>1. /\ stack # <<>> /\ StackOk /\ Top \in Frames /\ FrameOk(Top, journal)
      /\ flow.kind[Top.step] = "action"
      /\ stack' = Become(fr) /\ UNCHANGED <<flow, journal, log>>
    BY AtFacts DEF Reuse, Entered, Inner, GoOn, Is
<1>2. fr \in Frames /\ FrameOk(fr, journal)
    BY <1>1 DEF Frames, FrameOk
<1> HIDE DEF fr
<1>3. StackIs(Become(fr), journal)
    BY <1>1, <1>2, StackTurned
<1> QED
    BY <1>1, <1>3, SameJournal

LEMMA CallEngine == ASSUME TInv, Call PROVE EngineOk'
<1> DEFINE fr == [Top EXCEPT !.at = "calling", !.i = 1]
<1>1. /\ stack # <<>> /\ StackOk /\ Top \in Frames /\ FrameOk(Top, journal)
      /\ stack' = Become(fr) /\ UNCHANGED <<flow, journal, log>>
    BY AtFacts DEF Call, Entered, Inner
<1>2. flow.kind[Top.step] \in {"action", "ai"} /\ ~Has(journal, <<Top.path, Top.step>>, "SUCCEEDED")
    BY DEF Call, Is, Completed, Paused, Asks, Has, Key
<1>3. fr \in Frames /\ FrameOk(fr, journal)
    BY <1>1, <1>2 DEF Frames, FrameOk
<1> HIDE DEF fr
<1>4. StackIs(Become(fr), journal)
    BY <1>1, <1>3, StackTurned
<1> QED
    BY <1>1, <1>4, SameJournal

LEMMA ArmEngine == ASSUME TInv, Arm PROVE EngineOk'
BY SameJournal DEF Arm, Inner, engineVars, TInv, EngineOk, StackOk

LEMMA AttemptAgainEngine == ASSUME TInv, AttemptAgain PROVE EngineOk'
<1> DEFINE fr == [Top EXCEPT !.i = @ + 1]
<1>1. /\ stack # <<>> /\ StackOk /\ Top \in Frames /\ FrameOk(Top, journal)
      /\ stack' = Become(fr) /\ UNCHANGED <<flow, journal, log>>
    BY AtFacts DEF AttemptAgain, Inner
<1>2. fr \in Frames /\ FrameOk(fr, journal)
    BY <1>1 DEF Frames, FrameOk
<1> HIDE DEF fr
<1>3. StackIs(Become(fr), journal)
    BY <1>1, <1>2, StackTurned
<1> QED
    BY <1>1, <1>3, SameJournal

\* The call of a step ended: its entry is set, and the step is passed or everything returns.
LEMMA CallEnds ==
    ASSUME TInv, At("calling"), NEW s \in {"PAUSED", "SUCCEEDED", "FAILED"}, NEW v,
           journal' = Set(Key, s, {}), Return(v, GoOn("handled")), UNCHANGED <<flow, log>>,
           v = Running => Is("action")
    PROVE  EngineOk'
<1> DEFINE fr == [Top EXCEPT !.at = "handled"]
<1>1. /\ stack # <<>> /\ StackOk /\ Top \in Frames /\ FrameOk(Top, journal)
      /\ JournalOk(journal) /\ JournalOk(log) /\ Key \in Keys /\ Key = <<Top.path, Top.step>>
      /\ EnclosingLoops(Key) \subseteq DOMAIN journal /\ Top.at = "calling"
    BY AtFacts
<1>2. Key[2] \notin Loops
    BY <1>1 DEF FrameOk, Loops
<1>6. s \in Statuses /\ {} \in SUBSET Nat /\ {} \subseteq DOMAIN flow.children[Key[2]]
    BY DEF Statuses
<1>7. JournalOk(Set(Key, s, {})) /\ DOMAIN Set(Key, s, {}) = DOMAIN journal \cup {Key}
    BY <1>1, <1>2, <1>6, JournalSet
<1>3. JournalOk(journal') /\ DOMAIN journal' = DOMAIN journal \cup {Key}
    BY <1>7
<1>4. CASE v = Running
  <2>1. stack' = Become(fr)
      BY <1>4 DEF Return, GoOn
  <2>2. fr \in Frames /\ FrameOk(fr, journal')
      BY <1>1, <1>3, <1>4 DEF Frames, FrameOk, Is
  <2> HIDE DEF fr
  <2>3. StackIs(stack', journal')
      BY <1>1, <1>3, <2>1, <2>2, StackTurned
  <2> QED
      BY <1>1, <1>3, <2>3, NextEngine
<1>5. CASE v # Running
  <2>1. stack' = <<>>
      BY <1>5 DEF Return
  <2> QED
      BY <1>1, <1>3, <2>1, StackEmptied, NextEngine
<1> QED
    BY <1>4, <1>5

LEMMA PauseEngine == ASSUME TInv, Pause PROVE EngineOk'
<1>1. /\ At("calling") /\ journal' = Set(Key, "PAUSED", {}) /\ UNCHANGED <<flow, log>>
      /\ Return(Verdict("PAUSED"), GoOn("handled")) /\ Verdict("PAUSED") # Running
    BY DEF Pause, Inner, Return, Verdict, Running
<1> QED
    BY <1>1, CallEnds

LEMMA SucceedEngine == ASSUME TInv, Succeed PROVE EngineOk'
<1> DEFINE v == IF Top.step \in flow.stops THEN Verdict("SUCCEEDED") ELSE Running
<1>1. /\ At("calling") /\ journal' = Set(Key, "SUCCEEDED", {}) /\ UNCHANGED <<flow, log>>
      /\ Return(v, GoOn("handled")) /\ Is("action")
    BY DEF Succeed, Inner
<1> HIDE DEF v
<1> QED
    BY <1>1, CallEnds

LEMMA FailEngine == ASSUME TInv, Fail PROVE EngineOk'
<1> DEFINE v == IF Top.step \in flow.continues THEN Running ELSE Failure
<1>1. /\ At("calling") /\ journal' = Set(Key, "FAILED", {}) /\ UNCHANGED <<flow, log>>
      /\ Return(v, GoOn("handled"))
    BY DEF Fail, Inner
<1>2. v = Running => Is("action")
    BY <1>1, AtFacts, FlowFacts DEF Running, Verdict, Failure, Is
<1> HIDE DEF v
<1> QED
    BY <1>1, <1>2, CallEnds

LEMMA HandledEngine == ASSUME TInv, Handled PROVE EngineOk'
<1>1. /\ stack # <<>> /\ StackOk /\ Top \in Frames /\ FrameOk(Top, journal) /\ flow \in Flows
      /\ Top.step \in Steps /\ Top.path \in Paths /\ Top.at = "handled"
      /\ UNCHANGED <<flow, journal, log>>
    BY AtFacts DEF Handled, Inner
<1>2. CASE Top.step \in flow.continues
  <2> DEFINE fr == [Top EXCEPT !.at = "left"]
             n  == IF Has(journal, Key, "FAILED") THEN 2 ELSE 1
             c  == flow.children[Top.step][n]
             st == Become(fr)
  <2>1. stack' = Execute(st, c, Top.path)
      BY <1>2 DEF Handled, GoOn
  <2>2. c \in Steps \cup {NoStep}
      BY <1>1, <1>2, FlowFacts
  <2>3. fr \in Frames /\ FrameOk(fr, journal) /\ fr.at = "left"
      BY <1>1 DEF Frames, FrameOk
  <2>4. EnclosingLoops(<<Top.path, c>>) \subseteq DOMAIN journal
      BY <1>1 DEF FrameOk, EnclosingLoops
  <2> HIDE DEF fr, n, c
  <2>5. StackIs(st, journal) /\ st[Len(st)] = fr
      BY <1>1, <2>3, StackTurned, BecomeFacts DEF StackOk, StackIs
  <2> HIDE DEF st
  <2>6. StackIs(stack', journal)
      BY <1>1, <2>1, <2>2, <2>3, <2>4, <2>5, StackEntered
  <2> QED
      BY <1>1, <2>6, SameJournal
<1>3. CASE Top.step \notin flow.continues
    BY <1>1, <1>3, StackPassed, SameJournal DEF Handled
<1> QED
    BY <1>2, <1>3

\* A loop or a router turns to its children, over a journal where it is recorded.
LEMMA TurnsInside ==
    ASSUME TInv, At("enter"), ~Is("action"), NEW todo \in SUBSET Nat,
           ~Is("loop") => todo \subseteq DOMAIN flow.children[Top.step],
           JournalOk(journal'), DOMAIN journal' = DOMAIN journal \cup {Key},
           stack' = Inside(todo), UNCHANGED <<flow, log>>
    PROVE  EngineOk'
<1> DEFINE fr == [Top EXCEPT !.at = "inside", !.todo = todo]
<1>1. /\ stack # <<>> /\ StackOk /\ Top \in Frames /\ FrameOk(Top, journal)
      /\ JournalOk(log) /\ Key = <<Top.path, Top.step>>
    BY AtFacts
<1>2. fr \in Frames /\ FrameOk(fr, journal')
    BY <1>1 DEF Frames, FrameOk, Is
<1>3. stack' = Become(fr)
    BY DEF Inside
<1> HIDE DEF fr
<1>4. StackIs(stack', journal')
    BY <1>1, <1>2, <1>3, StackTurned
<1> QED
    BY <1>1, <1>4, NextEngine

LEMMA EnterLoopEngine == ASSUME TInv, EnterLoop PROVE EngineOk'
<1> DEFINE todo == 1..flow.items[Top.step]
<1>1. At("enter") /\ Is("loop") /\ stack' = Inside(todo) /\ UNCHANGED <<flow, log>>
    BY DEF EnterLoop, Entered, Inner
<1>2. /\ JournalOk(journal) /\ Key \in Keys /\ EnclosingLoops(Key) \subseteq DOMAIN journal
      /\ Top.step \in Steps /\ flow \in Flows
    BY <1>1, AtFacts
<1>3. todo \in SUBSET Nat
    BY <1>2, FlowFacts
<1>4. JournalOk(journal') /\ DOMAIN journal' = DOMAIN journal \cup {Key}
  <2>1. CASE Key \in DOMAIN journal
      BY <1>2, <2>1 DEF EnterLoop
  <2>2. CASE Key \notin DOMAIN journal
      BY <1>2, <2>2, JournalSet DEF EnterLoop, Statuses
  <2> QED
      BY <2>1, <2>2
<1> HIDE DEF todo
<1> QED
    BY <1>1, <1>3, <1>4, TurnsInside DEF Is

\* The branches a router may take, and the routes an answer may name, are children.
LEMMA FirstOfFacts == ASSUME NEW S \in SUBSET Nat PROVE FirstOf(S) \subseteq S
BY MinFacts DEF FirstOf

LEMMA MatchingFacts ==
    ASSUME flow \in Flows, Top.step \in Steps, Is("router")
    PROVE  Matching \subseteq DOMAIN flow.children[Top.step] /\ Matching \in SUBSET Nat
<1>1. Matching \subseteq DOMAIN flow.choices[Top.step]
    BY DEF Matching
<1> QED
    BY <1>1, FlowFacts DEF Is

LEMMA AnswersFacts ==
    ASSUME flow \in Flows, NEW s \in Steps, flow.kind[s] = "ai", NEW routes \in Answers(s)
    PROVE  routes \subseteq DOMAIN flow.children[s] /\ routes \in SUBSET Nat
<1>1. routes \subseteq DOMAIN flow.choices[s]
    BY DEF Answers
<1> QED
    BY <1>1, FlowFacts

LEMMA EnterRouterEngine == ASSUME TInv, EnterRouter PROVE EngineOk'
<1> DEFINE m    == Matching
           todo == IF Top.step \in flow.takesAll THEN m ELSE FirstOf(m)
<1>1. /\ At("enter") /\ Is("router") /\ stack' = Inside(todo) /\ UNCHANGED <<flow, log>>
      /\ journal' = Set(Key, "SUCCEEDED", m)
    BY DEF EnterRouter, Entered, Inner
<1>2. /\ JournalOk(journal) /\ Key \in Keys /\ EnclosingLoops(Key) \subseteq DOMAIN journal
      /\ Top.step \in Steps /\ flow \in Flows /\ Key[2] = Top.step
    BY <1>1, AtFacts
<1>3. m \subseteq DOMAIN flow.children[Top.step] /\ m \in SUBSET Nat
    BY <1>1, <1>2, MatchingFacts
<1> HIDE DEF m
<1>4. todo \in SUBSET Nat /\ todo \subseteq DOMAIN flow.children[Top.step]
    BY <1>3, FirstOfFacts
<1>5. JournalOk(journal') /\ DOMAIN journal' = DOMAIN journal \cup {Key}
    BY <1>1, <1>2, <1>3, JournalSet DEF Statuses
<1> HIDE DEF todo
<1> QED
    BY <1>1, <1>4, <1>5, TurnsInside DEF Is

LEMMA ReplayEngine == ASSUME TInv, Replay PROVE EngineOk'
<1> DEFINE todo == journal[Key].routes
<1>1. /\ At("enter") /\ Is("ai") /\ stack' = Inside(todo) /\ UNCHANGED <<flow, log, journal>>
      /\ Key \in DOMAIN journal
    BY DEF Replay, Entered, Inner, Has
<1>2. JournalOk(journal) /\ Key = <<Top.path, Top.step>>
    BY <1>1, AtFacts
<1>3. todo \in SUBSET Nat /\ todo \subseteq DOMAIN flow.children[Top.step]
    BY <1>1, <1>2 DEF JournalOk, Entries
<1> HIDE DEF todo
<1> QED
    BY <1>1, <1>2, <1>3, TurnsInside DEF Is

LEMMA AnswerEngine == ASSUME TInv, Answer PROVE EngineOk'
<1>1. PICK routes \in Answers(Top.step) :
        /\ journal' = Set(Key, "SUCCEEDED", routes)
        /\ stack' = Inside(IF Top.step \in flow.takesAll THEN routes ELSE FirstOf(routes))
    BY DEF Answer
<1> DEFINE todo == IF Top.step \in flow.takesAll THEN routes ELSE FirstOf(routes)
<1>2. At("enter") /\ Is("ai") /\ stack' = Inside(todo) /\ UNCHANGED <<flow, log>>
    BY <1>1 DEF Answer, Entered, Inner
<1>3. /\ JournalOk(journal) /\ Key \in Keys /\ EnclosingLoops(Key) \subseteq DOMAIN journal
      /\ Top.step \in Steps /\ flow \in Flows /\ Key[2] = Top.step
    BY <1>2, AtFacts
<1>4. routes \subseteq DOMAIN flow.children[Top.step] /\ routes \in SUBSET Nat
    BY <1>2, <1>3, AnswersFacts DEF Is
<1>5. todo \in SUBSET Nat /\ todo \subseteq DOMAIN flow.children[Top.step]
    BY <1>4, FirstOfFacts
<1>6. JournalOk(journal') /\ DOMAIN journal' = DOMAIN journal \cup {Key}
    BY <1>1, <1>3, <1>4, JournalSet DEF Statuses
<1> HIDE DEF todo
<1> QED
    BY <1>2, <1>5, <1>6, TurnsInside DEF Is

\* A handler returned a failure: an entry is set, some are dropped, and everything returns.
LEMMA NoAnswerEngine == ASSUME TInv, NoAnswer PROVE EngineOk'
<1>1. /\ At("enter") /\ Is("ai") /\ journal' = Set(Key, "FAILED", {}) /\ UNCHANGED <<flow, log>>
      /\ stack' = <<>>
    BY DEF NoAnswer, Entered, Inner, Return, Failure, Running, Verdict
<1>2. /\ JournalOk(journal) /\ JournalOk(log) /\ Key \in Keys
      /\ EnclosingLoops(Key) \subseteq DOMAIN journal
    BY <1>1, AtFacts
<1>3. JournalOk(journal')
    BY <1>1, <1>2, JournalSet DEF Statuses
<1> QED
    BY <1>1, <1>2, <1>3, StackEmptied, NextEngine

LEMMA ResolveFailsEngine == ASSUME TInv, ResolveFails PROVE EngineOk'
<1> DEFINE j    == Set(Key, "FAILED", {})
           lost == IF Is("loop") THEN InIterationsOf(Key) ELSE {}
           S    == (DOMAIN journal \cup {Key}) \ lost
<1>1. /\ At("enter") /\ journal' = Restrict(j, S) /\ UNCHANGED <<flow, log>> /\ stack' = <<>>
    BY DEF ResolveFails, Entered, Inner, Return, Failure, Running, Verdict
<1>2. /\ JournalOk(journal) /\ JournalOk(log) /\ Key \in Keys
      /\ EnclosingLoops(Key) \subseteq DOMAIN journal
    BY <1>1, AtFacts
<1>3. JournalOk(j) /\ DOMAIN j = DOMAIN journal \cup {Key}
    BY <1>2, JournalSet DEF Statuses
<1>4. ASSUME NEW k \in S, NEW e \in EnclosingLoops(k) PROVE e \in S
  <2>1. k \in Keys /\ e \in DOMAIN journal \cup {Key}
      BY <1>3, <1>4 DEF JournalOk
  <2>2. e \notin lost
      BY <1>2, <1>4, <2>1, IterationsClosed
  <2> QED
      BY <2>1, <2>2
<1> HIDE DEF j, lost
<1>5. JournalOk(journal')
    BY <1>1, <1>3, <1>4, JournalRestricted
<1> QED
    BY <1>1, <1>2, <1>5, StackEmptied, NextEngine

LEMMA NextChildEngine == ASSUME TInv, NextChild PROVE EngineOk'
<1> DEFINE n     == Min(Top.todo)
           fr    == [Top EXCEPT !.i = n, !.todo = @ \ {n}]
           inner == IF Is("loop") THEN Append(Top.path, <<Top.step, n>>) ELSE Top.path
           c     == flow.children[Top.step][IF Is("loop") THEN 1 ELSE n]
           st    == Become(fr)
<1>1. /\ At("inside") /\ Top.todo # {} /\ UNCHANGED <<flow, journal, log>>
      /\ stack' = Execute(st, c, inner)
    BY DEF NextChild, Inner
<1>2. /\ stack # <<>> /\ StackOk /\ Top \in Frames /\ FrameOk(Top, journal) /\ flow \in Flows
      /\ Top.step \in Steps /\ Top.path \in Paths /\ Top.at = "inside"
    BY <1>1, AtFacts
<1>3. n \in Top.todo /\ n \in Nat
    BY <1>1, <1>2, MinFacts DEF Frames
<1> HIDE DEF n
<1>4. fr \in Frames /\ FrameOk(fr, journal) /\ fr.at = "inside"
    BY <1>2, <1>3 DEF Frames, FrameOk
<1>5. c \in Steps \cup {NoStep}
    BY <1>2, <1>3, FlowFacts DEF FrameOk, Is
<1>6. /\ flow.kind[Top.step] # "action" /\ <<Top.path, Top.step>> \in DOMAIN journal
      /\ EnclosingLoops(<<Top.path, Top.step>>) \subseteq DOMAIN journal
    BY <1>2 DEF FrameOk
<1>7. inner \in Paths /\ EnclosingLoops(<<inner, c>>) \subseteq DOMAIN journal
  <2>1. CASE Is("loop")
    <3>1. Top.step \in Loops /\ Top.path \in Seq(Loops \X Nat)
        BY <1>2, <2>1 DEF Loops, Is, Paths
    <3>2. inner = Append(Top.path, <<Top.step, n>>) /\ inner \in Paths
        BY <1>3, <2>1, <3>1 DEF Paths
    <3>3. ASSUME NEW e \in EnclosingLoops(<<Append(Top.path, <<Top.step, n>>), c>>)
          PROVE  e \in DOMAIN journal
      <4>1. e \in EnclosingLoops(<<Top.path, Top.step>>) \/ e = <<Top.path, Top.step>>
          BY <1>3, <3>1, <3>3, EnclosingInner
      <4> QED
          BY <1>6, <4>1
    <3> QED
        BY <3>2, <3>3
  <2>2. CASE ~Is("loop")
      BY <1>2, <1>6, <2>2 DEF EnclosingLoops
  <2> QED
      BY <2>1, <2>2
<1> HIDE DEF fr, c, inner
<1>8. StackIs(st, journal) /\ st[Len(st)] = fr
    BY <1>2, <1>4, StackTurned, BecomeFacts DEF StackOk, StackIs
<1> HIDE DEF st
<1>9. StackIs(stack', journal)
    BY <1>1, <1>2, <1>4, <1>5, <1>7, <1>8, StackEntered
<1> QED
    BY <1>1, <1>9, SameJournal

LEMMA WalkEngine == ASSUME TInv, Walk PROVE EngineOk'
BY SkipEngine, ReuseEngine, CallEngine, ArmEngine, PauseEngine, SucceedEngine, AttemptAgainEngine,
   FailEngine, HandledEngine, EnterLoopEngine, EnterRouterEngine, ReplayEngine, AnswerEngine,
   NoAnswerEngine, NextChildEngine, LeaveEngine DEF Walk

(***************************************************************************)
(* The steps around the engine.                                            *)
(***************************************************************************)
LEMMA NoEntriesOk == JournalOk(NoEntries)
BY DEF JournalOk, NoEntries

LEMMA StartEngine == ASSUME TInv, Start PROVE EngineOk'
<1>1. /\ UNCHANGED <<flow, log>> /\ stack' = Execute(<<>>, flow.head, <<>>)
      /\ journal' = IF job.kind = "begin" THEN NoEntries ELSE Restrict(log, RestoredSteps)
    BY DEF Start, serverVars
<1>2. JournalOk(log) /\ flow \in Flows
    BY DEF TInv, EngineOk, RunOk
<1>3. JournalOk(Restrict(log, RestoredSteps))
  <2>1. RestoredSteps \in SUBSET DOMAIN log
      BY DEF RestoredSteps
  <2>2. \A k \in RestoredSteps : EnclosingLoops(k) \subseteq RestoredSteps
      BY <1>2, RestoredClosed
  <2> QED
      BY <1>2, <2>1, <2>2, JournalRestricted
<1>4. JournalOk(journal')
    BY <1>1, <1>3, NoEntriesOk
<1>5. flow.head \in Steps
    BY <1>2, FlowExecutorAssumption DEF IsFlow, Steps
<1>6. <<>> \in Paths /\ \A s : EnclosingLoops(<< <<>>, s>>) = {}
    BY DEF Paths, EnclosingLoops
<1>7. ASSUME NEW j PROVE StackIs(Execute(<<>>, flow.head, <<>>), j)
  <2>1. StackIs(<<>>, j)
      BY StackEmptied
  <2> DEFINE st == <<>>
  <2>2. StackIs(st, j) /\ st = <<>>
      BY <2>1
  <2> QED
      BY <1>2, <1>5, <1>6, <2>1, StackEntered
<1> QED
    BY <1>1, <1>2, <1>4, <1>7, NextEngine

LEMMA FlushEngine == ASSUME TInv, Flush PROVE EngineOk'
<1>1. UNCHANGED <<flow, journal, stack>> /\ log' = Snapshot
    BY DEF Flush, engineVars
<1>2. JournalOk(journal) /\ StackOk
    BY DEF TInv, EngineOk
<1>3. CASE At("calling") /\ Is("action") /\ ~Paused(Key)
  <2>1. log' = Set(Key, "RUNNING", {})
      BY <1>1, <1>3 DEF Snapshot
  <2>2. /\ Key \in Keys /\ EnclosingLoops(Key) \subseteq DOMAIN journal /\ Key[2] = Top.step
      BY <1>3, AtFacts
  <2>3. Key[2] \notin Loops
      BY <1>3, <2>2 DEF Loops, Is
  <2>4. JournalOk(log')
      BY <1>2, <2>1, <2>2, <2>3, JournalSet DEF Statuses
  <2> QED
      BY <1>1, <1>2, <2>4, NextEngine DEF StackOk
<1>4. CASE ~(At("calling") /\ Is("action") /\ ~Paused(Key))
  <2>1. log' = journal
      BY <1>1, <1>4 DEF Snapshot
  <2> QED
      BY <1>1, <1>2, <2>1, NextEngine DEF StackOk
<1> QED
    BY <1>3, <1>4

LEMMA UploadEngine == ASSUME TInv, Upload PROVE EngineOk'
BY NextEngine DEF Upload, TInv, EngineOk, StackOk

\* The worker dies or the sandbox is killed: what the engine had is gone.
LEMMA EngineGone ==
    ASSUME TInv, UNCHANGED <<flow, log>>, stack' = <<>>, journal' = NoEntries
    PROVE  EngineOk'
BY NoEntriesOk, StackEmptied, NextEngine DEF TInv, EngineOk

LEMMA RestEngine ==
    ASSUME TInv, SendReport \/ Complete \/ Signal \/ Retry \/ Redeliver \/ Kill
    PROVE  EngineOk'
<1>1. CASE SendReport \/ Complete \/ Signal \/ Retry
  <2>1. UNCHANGED <<flow, stack, journal, log>>
      BY <1>1 DEF SendReport, Complete, Signal, Retry, engineVars, serverVars
  <2> QED
      BY <2>1, SameJournal DEF TInv, EngineOk, StackOk
<1>2. CASE Redeliver \/ Kill
    BY <1>2, EngineGone DEF Redeliver, Kill, serverVars
<1> QED
    BY <1>1, <1>2

LEMMA StutterEngine == ASSUME TInv, UNCHANGED vars PROVE EngineOk'
BY SameJournal DEF vars, TInv, EngineOk, StackOk

LEMMA EngineStep == ASSUME TInv, [Next]_vars PROVE EngineOk'
<1>1. CASE Walk
    BY <1>1, WalkEngine
<1>2. CASE Start \/ ResolveFails \/ Flush \/ Upload
    BY <1>2, StartEngine, ResolveFailsEngine, FlushEngine, UploadEngine
<1>3. CASE SendReport \/ Complete \/ Signal \/ Retry \/ Redeliver \/ Kill
    BY <1>3, RestEngine
<1> QED
    BY <1>1, <1>2, <1>3, StutterEngine DEF Next

\* The verdict, the run's row and the history.
LEMMA VerdictFacts ==
    ASSUME flow \in Flows
    PROVE  /\ \A s \in Statuses : Verdict(s) \in [is : Statuses, failed : Steps \cup {NoStep}]
           /\ Running \in [is : Statuses, failed : Steps \cup {NoStep}]
           /\ Top.step \in Steps => Failure \in [is : Statuses, failed : Steps \cup {NoStep}]
BY DEF Verdict, Running, Failure, Statuses

LEMMA ReportedFacts ==
    ASSUME status \in [is : Statuses \cup {"TIMEOUT"}, failed : Steps \cup {NoStep}],
           NEW v \in [is : Statuses \cup {"TIMEOUT"}, failed : Steps \cup {NoStep}]
    PROVE  Reported(v) \in [is : Statuses \cup {"TIMEOUT"}, failed : Steps \cup {NoStep}]
BY DEF Reported

\* A step of the walk, or settings that cannot be resolved.
LEMMA WalkRun == ASSUME TInv, Walk \/ ResolveFails PROVE RunOk'
<1>1. \E at : At(at)
    BY DEF Walk, ResolveFails, Skip, Reuse, Call, Arm, Pause, Succeed, AttemptAgain, Fail, Handled,
       EnterLoop, EnterRouter, Replay, Answer, NoAnswer, NextChild, Leave, Entered
<1>2. stack # <<>> /\ verdict = Running /\ flow \in Flows /\ Top.step \in Steps /\ Key \in Keys
    BY <1>1, AtFacts
<1>3. UNCHANGED <<flow, job, phase, status, retriesDone>>
    BY DEF Walk, ResolveFails, Skip, Reuse, Call, Arm, Pause, Succeed, AttemptAgain, Fail, Handled,
       EnterLoop, EnterRouter, Replay, Answer, NoAnswer, NextChild, Leave, Inner
<1>4. \/ UNCHANGED verdict
      \/ /\ verdict' \in {Verdict("PAUSED"), Verdict("SUCCEEDED"), Running, Failure}
         /\ verdict' # Running => stack' = <<>>
  <2>1. CASE Pause \/ Succeed \/ Fail \/ NoAnswer \/ ResolveFails
      BY <2>1 DEF Pause, Succeed, Fail, NoAnswer, ResolveFails, Return
  <2>2. CASE \/ Skip \/ Reuse \/ Call \/ Arm \/ AttemptAgain \/ Handled \/ EnterLoop
             \/ EnterRouter \/ Replay \/ Answer \/ NextChild \/ Leave
      BY <2>2 DEF Skip, Reuse, Call, Arm, AttemptAgain, Handled, EnterLoop, EnterRouter, Replay,
         Answer, NextChild, Leave, Inner, engineVars
  <2> QED
      BY <2>1, <2>2 DEF Walk
<1>5. /\ verdict' \in [is : Statuses, failed : Steps \cup {NoStep}]
      /\ verdict' # Running => stack' = <<>>
    BY <1>2, <1>4, VerdictFacts DEF Statuses
<1>6. armed' \subseteq armed \cup {Key}
    BY DEF Walk, ResolveFails, Skip, Reuse, Call, Arm, Pause, Succeed, AttemptAgain, Fail, Handled,
       EnterLoop, EnterRouter, Replay, Answer, NoAnswer, NextChild, Leave, Inner
<1>7. succeeded' \subseteq succeeded \cup {Key} /\ readers' \subseteq readers \cup {Key}
    BY DEF Walk, ResolveFails, Skip, Reuse, Call, Arm, Pause, Succeed, AttemptAgain, Fail, Handled,
       EnterLoop, EnterRouter, Replay, Answer, NoAnswer, NextChild, Leave, Inner, historyVars
<1>8. faults' \subseteq faults
    BY DEF Walk, ResolveFails, Skip, Reuse, Call, Arm, Pause, Succeed, AttemptAgain, Fail, Handled,
       EnterLoop, EnterRouter, Replay, Answer, NoAnswer, NextChild, Leave, Inner
<1> QED
    BY <1>2, <1>3, <1>5, <1>6, <1>7, <1>8, SameFlow DEF TInv, RunOk, Running, Verdict

LEMMA StartRun == ASSUME TInv, Start PROVE RunOk'
BY SameFlow, VerdictFacts DEF TInv, RunOk, Start, serverVars, historyVars, Running, Verdict

LEMMA FlushRun == ASSUME TInv, Flush PROVE RunOk'
<1>1. /\ UNCHANGED <<flow, job, phase, stack, verdict, armed, retriesDone, faults, succeeded, readers>>
      /\ status' = Reported(Running)
    BY DEF Flush, engineVars, historyVars
<1>2. status' \in [is : Statuses \cup {"TIMEOUT"}, failed : Steps \cup {NoStep}]
    BY <1>1, ReportedFacts, VerdictFacts DEF TInv, RunOk
<1> QED
    BY <1>1, <1>2, SameFlow DEF TInv, RunOk, Running, Verdict

LEMMA UploadRun == ASSUME TInv, Upload PROVE RunOk'
<1>1. UNCHANGED <<flow, job, stack, status, armed, retriesDone, faults, succeeded, readers>>
    BY DEF Upload, historyVars
<1>2. /\ verdict' \in [is : Statuses, failed : Steps \cup {NoStep}] /\ stack' = <<>>
      /\ phase' = "uploaded"
    BY <1>1, VerdictFacts DEF Upload, TInv, RunOk, Statuses
<1> QED
    BY <1>1, <1>2, SameFlow DEF TInv, RunOk

LEMMA SendReportRun == ASSUME TInv, SendReport PROVE RunOk'
<1>1. /\ UNCHANGED <<flow, job, stack, verdict, retriesDone, faults, succeeded, readers>>
      /\ phase' = "reported" /\ status' = Reported(verdict) /\ armed' \subseteq armed
    BY DEF SendReport, engineVars, historyVars, KeptWaitpoints
<1>2. status' \in [is : Statuses \cup {"TIMEOUT"}, failed : Steps \cup {NoStep}]
    BY <1>1, ReportedFacts DEF TInv, RunOk
<1> QED
    BY <1>1, <1>2, SameFlow DEF TInv, RunOk, Running, Verdict

LEMMA CompleteRun == ASSUME TInv, Complete PROVE RunOk'
BY SameFlow DEF TInv, RunOk, Complete, serverVars, engineVars, historyVars, Running, Verdict

LEMMA QueueRun == ASSUME TInv, Signal \/ Retry PROVE RunOk'
<1>1. /\ UNCHANGED <<flow, stack, verdict, faults, succeeded>> /\ phase' = "queued"
      /\ status' = Reported(Running) /\ readers' = {} /\ armed' \subseteq armed
      /\ job' \in {ResumeJob("waitpoint"), ResumeJob("retry")}
    BY DEF Signal, Retry, Queue, engineVars
<1>2. retriesDone' \in 0..MaxRetries
    BY FlowExecutorAssumption DEF Signal, Retry, TInv, RunOk
<1>3. status' \in [is : Statuses \cup {"TIMEOUT"}, failed : Steps \cup {NoStep}]
    BY <1>1, ReportedFacts, VerdictFacts DEF TInv, RunOk
<1> QED
    BY <1>1, <1>2, <1>3, SameFlow DEF TInv, RunOk, Running, Verdict

LEMMA RedeliverRun == ASSUME TInv, Redeliver PROVE RunOk'
BY SameFlow, VerdictFacts DEF TInv, RunOk, Redeliver, serverVars, historyVars, Running, Verdict

LEMMA KillRun == ASSUME TInv, Kill PROVE RunOk'
<1> DEFINE v == Verdict("TIMEOUT")
<1>1. /\ UNCHANGED <<flow, job, retriesDone, succeeded, readers>>
      /\ phase' = "idle" /\ status' = Reported(v) /\ armed' \subseteq armed
      /\ stack' = <<>> /\ verdict' = Running /\ faults' \subseteq faults
    BY DEF Kill, historyVars, KeptWaitpoints
<1>2. v \in [is : Statuses \cup {"TIMEOUT"}, failed : Steps \cup {NoStep}]
    BY DEF Verdict
<1> HIDE DEF v
<1>3. status' \in [is : Statuses \cup {"TIMEOUT"}, failed : Steps \cup {NoStep}]
    BY <1>1, <1>2, ReportedFacts DEF TInv, RunOk
<1> QED
    BY <1>1, <1>3, SameFlow, VerdictFacts DEF TInv, RunOk, Running, Verdict

LEMMA StutterRun == ASSUME TInv, UNCHANGED vars PROVE RunOk'
BY SameFlow DEF vars, TInv, RunOk, Running, Verdict

LEMMA RunStep == ASSUME TInv, [Next]_vars PROVE RunOk'
BY WalkRun, StartRun, FlushRun, UploadRun, SendReportRun, CompleteRun, QueueRun, RedeliverRun,
   KillRun, StutterRun DEF Next

\* The journal, the log and the stack fit each other and the flow.
LEMMA Types == Spec => []TInv
<1>1. Init => TInv
  <2> SUFFICES ASSUME Init PROVE TInv
      OBVIOUS
  <2>1. JournalOk(journal) /\ JournalOk(log)
      BY NoEntriesOk DEF Init
  <2>2. StackOk
      BY StackEmptied DEF Init, StackOk
  <2>3. RunOk
      BY FlowExecutorAssumption DEF Init, RunOk, Running, Verdict, Statuses
  <2> QED
      BY <2>1, <2>2, <2>3 DEF TInv, EngineOk
<1>2. TInv /\ [Next]_vars => TInv'
    BY EngineStep, RunStep DEF TInv
<1> QED
    BY <1>1, <1>2, PTL DEF Spec

\* A recorded step or a frame is at a place of the flow.
LEMMA KeyFacts == ASSUME NEW k \in Keys PROVE IsKey(k)
<1>1. k[2] \in Steps /\ k[1] \in Seq(Loops \X Nat)
    BY DEF Keys, Paths
<1>2. \A n \in 1..Len(k[1]) : k[1][n] \in Loops \X Nat
    BY <1>1
<1> QED
    BY <1>1, <1>2 DEF IsKey, Loops

\* Everything is of its type; the iterations recorded are of recorded loops, so that a
\* restored journal never holds an iteration of a loop that it lacks; and a handler that
\* returned a verdict other than RUNNING has ended the recursion.
THEOREM TypeCorrect == Spec => []TypeOK
<1>1. TInv => TypeOK
  <2> SUFFICES ASSUME TInv PROVE TypeOK
      OBVIOUS
  <2> USE DEF TInv, EngineOk, RunOk
  <2>1. IsJournal(journal) /\ IsJournal(log)
      BY KeyFacts DEF JournalOk, IsJournal, Entries
  <2>2. \A k \in DOMAIN journal : EnclosingLoops(k) \subseteq DOMAIN journal
      BY DEF JournalOk
  <2>3. ASSUME NEW n \in 1..Len(stack)
        PROVE  /\ IsKey(<<stack[n].path, stack[n].step>>)
               /\ stack[n].at \in {"enter", "calling", "handled", "inside", "left"}
               /\ stack[n].i \in Nat /\ stack[n].todo \subseteq Nat
    <3>1. stack[n] \in Frames
        BY DEF StackOk, StackIs
    <3>2. <<stack[n].path, stack[n].step>> \in Keys
        BY <3>1 DEF Frames, Keys
    <3> QED
        BY <3>1, <3>2, KeyFacts DEF Frames
  <2>4. /\ verdict.is \in Statuses /\ verdict.failed \in Steps \cup {NoStep}
        /\ status.is \in Statuses \cup {"TIMEOUT"} /\ status.failed \in Steps \cup {NoStep}
      OBVIOUS
  <2>5. \A k \in armed \cup succeeded \cup readers : IsKey(k)
      BY KeyFacts
  <2> QED
      BY <2>1, <2>2, <2>3, <2>4, <2>5 DEF TypeOK
<1> QED
    BY <1>1, Types, PTL

(***************************************************************************)
(* The steps that begin a call.                                            *)
(***************************************************************************)
Calling(st) == st # <<>> /\ Last(st).at = "calling"

LEMMA BecomeCalling ==
    ASSUME StackOk, stack # <<>>, NEW fr \in Frames, fr.at # "calling"
    PROVE  ~Calling(Become(fr)) /\ Become(fr) \in Seq(Frames)
<1>1. stack \in Seq(Frames) /\ Len(stack) \in Nat \ {0}
    BY DEF StackOk, StackIs
<1> DEFINE st == Become(fr)
<1>2. st \in Seq(Frames) /\ Len(st) = Len(stack) /\ st[Len(stack)] = fr
    BY <1>1, BecomeFacts
<1> HIDE DEF st
<1>3. ~Calling(st)
    BY <1>2 DEF Calling, Last
<1> QED
    BY <1>2, <1>3 DEF st

LEMMA ExecuteCalling ==
    ASSUME NEW st \in Seq(Frames), ~Calling(st), flow \in Flows,
           NEW s \in Steps \cup {NoStep}, NEW p \in Paths
    PROVE  ~Calling(Execute(st, s, p))
<1>1. CASE s = NoStep
    BY <1>1 DEF Execute
<1>2. CASE s # NoStep
  <2> DEFINE x == Execute(st, s, p)
  <2>1. Len(x) = Len(st) + 1 /\ x[Len(st) + 1] = Frame(s, p)
      BY <1>2, ExecuteFacts
  <2> HIDE DEF x
  <2>2. Last(x) = Frame(s, p)
      BY <2>1 DEF Last
  <2>3. ~Calling(x)
      BY <2>2 DEF Calling, Frame
  <2> QED
      BY <2>3 DEF x
<1> QED
    BY <1>1, <1>2

LEMMA PastCalling ==
    ASSUME flow \in Flows, StackOk, stack # <<>>
    PROVE  ~Calling(Past)
<1> DEFINE r == Front(stack)
<1>1. /\ r \in Seq(Frames) /\ Len(r) = Len(stack) - 1 /\ Len(stack) \in Nat \ {0}
      /\ \A n \in 1..Len(stack) - 1 : r[n] = stack[n]
    BY FrontFacts DEF StackOk, StackIs
<1> HIDE DEF r
<1>2. ~Calling(r)
  <2> SUFFICES ASSUME r # <<>> PROVE r[Len(r)].at # "calling"
      BY DEF Calling, Last
  <2>1. Len(r) \in 1..Len(stack) - 1
      BY <1>1
  <2>2. stack[Len(r)].at \in {"inside", "left"}
      BY <1>1, <2>1 DEF StackOk, StackIs
  <2> QED
      BY <1>1, <2>1, <2>2
<1>3. flow.next[Top.step] \in Steps \cup {NoStep} /\ Top.path \in Paths
    BY TopFacts, FlowFacts DEF Frames
<1>4. ~Calling(Execute(r, flow.next[Top.step], Top.path))
    BY <1>1, <1>2, <1>3, ExecuteCalling
<1> QED
    BY <1>4 DEF Past, r

\* A step after which the innermost frame is not at a call begins none.
LEMMA NoCallBegins == ASSUME ~Calling(stack') \/ phase' # "executing" PROVE Begun = {}
BY DEF Begun, Calls, At, Top, Calling

LEMMA WalkBegins ==
    ASSUME TInv, Skip \/ Reuse \/ Arm \/ AttemptAgain \/ EnterLoop \/ EnterRouter \/ Replay
                 \/ Answer \/ Leave
    PROVE  Begun = {}
<1>0. \E at : At(at)
    BY DEF Skip, Reuse, Arm, AttemptAgain, EnterLoop, EnterRouter, Replay, Answer, Leave, Entered
<1>1. flow \in Flows /\ StackOk /\ stack # <<>> /\ Top \in Frames /\ Top.step \in Steps
    BY <1>0, AtFacts
<1>2. CASE Skip \/ Leave
    BY <1>1, <1>2, PastCalling, NoCallBegins DEF Skip, Leave
<1>3. CASE Reuse
  <2> DEFINE fr == [Top EXCEPT !.at = "handled"]
  <2>1. fr \in Frames /\ fr.at # "calling" /\ stack' = Become(fr)
      BY <1>1, <1>3 DEF Frames, Reuse, GoOn
  <2> HIDE DEF fr
  <2> QED
      BY <1>1, <2>1, BecomeCalling, NoCallBegins
<1>4. CASE Arm
    BY <1>4 DEF Arm, Inner, engineVars, Begun, Calls, At, Top, Key
<1>5. CASE AttemptAgain
  <2> DEFINE fr == [Top EXCEPT !.i = @ + 1]
  <2>1. /\ fr \in Frames /\ fr.step = Top.step /\ fr.path = Top.path /\ stack' = Become(fr)
        /\ At("calling")
      BY <1>1, <1>5 DEF Frames, AttemptAgain
  <2> HIDE DEF fr
  <2>2. Top' = fr
    <3>1. Len(stack') = Len(stack) /\ stack'[Len(stack)] = fr
        BY <1>1, <2>1, BecomeFacts DEF StackOk, StackIs
    <3> QED
        BY <3>1 DEF Top, Last
  <2>3. Key' = Key
      BY <2>1, <2>2 DEF Key
  <2> QED
      BY <2>1, <2>3 DEF Begun, Calls
<1>6. ASSUME NEW todo \in SUBSET Nat, stack' = Inside(todo) PROVE Begun = {}
  <2> DEFINE fr == [Top EXCEPT !.at = "inside", !.todo = todo]
  <2>1. fr \in Frames /\ fr.at # "calling" /\ stack' = Become(fr)
      BY <1>1, <1>6 DEF Frames, Inside
  <2> HIDE DEF fr
  <2> QED
      BY <1>1, <2>1, BecomeCalling, NoCallBegins
<1>7. CASE EnterLoop
  <2>1. 1..flow.items[Top.step] \in SUBSET Nat
      BY <1>1, FlowFacts
  <2> QED
      BY <1>6, <1>7, <2>1 DEF EnterLoop
<1>8. CASE EnterRouter
  <2>1. Matching \in SUBSET Nat /\ FirstOf(Matching) \in SUBSET Nat
      BY <1>1, <1>8, MatchingFacts, FirstOfFacts DEF EnterRouter
  <2> QED
      BY <1>6, <1>8, <2>1 DEF EnterRouter
<1>9. CASE Replay
  <2>1. journal[Key].routes \in SUBSET Nat
      BY <1>9 DEF Replay, Has, TInv, EngineOk, JournalOk, Entries
  <2> QED
      BY <1>6, <1>9, <2>1 DEF Replay
<1>10. CASE Answer
  <2>1. PICK routes \in Answers(Top.step) :
          stack' = Inside(IF Top.step \in flow.takesAll THEN routes ELSE FirstOf(routes))
      BY <1>10 DEF Answer
  <2>2. routes \in SUBSET Nat /\ FirstOf(routes) \in SUBSET Nat
      BY <1>1, <1>10, AnswersFacts, FirstOfFacts DEF Answer, Is
  <2> QED
      BY <1>6, <2>1, <2>2
<1> QED
    BY <1>2, <1>3, <1>4, <1>5, <1>7, <1>8, <1>9, <1>10

LEMMA ReturnBegins ==
    ASSUME TInv, Pause \/ Succeed \/ Fail \/ NoAnswer \/ ResolveFails
    PROVE  Begun = {}
<1>0. \E at : At(at)
    BY DEF Pause, Succeed, Fail, NoAnswer, ResolveFails, Entered
<1>1. flow \in Flows /\ StackOk /\ stack # <<>> /\ Top \in Frames
    BY <1>0, AtFacts
<1> DEFINE fr == [Top EXCEPT !.at = "handled"]
<1>2. fr \in Frames /\ fr.at # "calling" /\ GoOn("handled") = Become(fr)
    BY <1>1 DEF Frames, GoOn
<1> HIDE DEF fr
<1>3. stack' = <<>> \/ stack' = Become(fr)
    BY <1>2 DEF Pause, Succeed, Fail, NoAnswer, ResolveFails, Return, Verdict, Running, Failure
<1>4. ~Calling(stack')
    BY <1>1, <1>2, <1>3, BecomeCalling DEF Calling
<1> QED
    BY <1>4, NoCallBegins

LEMMA ChildBegins == ASSUME TInv, Handled \/ NextChild PROVE Begun = {}
<1>0. \E at : At(at)
    BY DEF Handled, NextChild
<1>1. /\ flow \in Flows /\ StackOk /\ stack # <<>> /\ Top \in Frames /\ FrameOk(Top, journal)
      /\ Top.step \in Steps /\ Top.path \in Paths
    BY <1>0, AtFacts
<1>2. ASSUME NEW fr \in Frames, fr.at # "calling", NEW c \in Steps \cup {NoStep},
             NEW p \in Paths, stack' = Execute(Become(fr), c, p)
      PROVE  Begun = {}
  <2>1. ~Calling(Become(fr)) /\ Become(fr) \in Seq(Frames)
      BY <1>1, <1>2, BecomeCalling
  <2>2. ~Calling(Execute(Become(fr), c, p))
      BY <1>1, <2>1, ExecuteCalling
  <2> QED
      BY <1>2, <2>2, NoCallBegins
<1>3. CASE Handled /\ Top.step \in flow.continues
  <2> DEFINE fr == [Top EXCEPT !.at = "left"]
             c  == flow.children[Top.step][IF Has(journal, Key, "FAILED") THEN 2 ELSE 1]
  <2>1. stack' = Execute(Become(fr), c, Top.path)
      BY <1>3 DEF Handled, GoOn
  <2>2. fr \in Frames /\ fr.at # "calling"
      BY <1>1 DEF Frames
  <2>3. c \in Steps \cup {NoStep}
      BY <1>1, <1>3, FlowFacts
  <2> HIDE DEF fr, c
  <2> QED
      BY <1>1, <1>2, <2>1, <2>2, <2>3
<1>4. CASE Handled /\ Top.step \notin flow.continues
    BY <1>1, <1>4, PastCalling, NoCallBegins DEF Handled
<1>5. CASE NextChild
  <2> DEFINE n  == Min(Top.todo)
             fr == [Top EXCEPT !.i = n, !.todo = @ \ {n}]
             p  == IF Is("loop") THEN Append(Top.path, <<Top.step, n>>) ELSE Top.path
             c  == flow.children[Top.step][IF Is("loop") THEN 1 ELSE n]
  <2>1. stack' = Execute(Become(fr), c, p) /\ Top.todo # {} /\ Top.at = "inside"
      BY <1>5 DEF NextChild, At
  <2>2. n \in Top.todo /\ n \in Nat
      BY <1>1, <2>1, MinFacts DEF Frames
  <2> HIDE DEF n
  <2>3. fr \in Frames /\ fr.at # "calling"
      BY <1>1, <2>1, <2>2 DEF Frames
  <2>4. c \in Steps \cup {NoStep}
      BY <1>1, <2>1, <2>2, FlowFacts DEF FrameOk, Is
  <2>5. p \in Paths
      BY <1>1, <2>2 DEF Loops, Is, Paths
  <2> HIDE DEF fr, p, c
  <2> QED
      BY <1>2, <2>1, <2>3, <2>4, <2>5
<1> QED
    BY <1>3, <1>4, <1>5

LEMMA AroundBegins ==
    ASSUME TInv, \/ Start \/ Flush \/ Upload \/ SendReport \/ Complete \/ Signal \/ Retry
                 \/ Redeliver \/ Kill \/ UNCHANGED vars
    PROVE  Begun = {}
<1>1. CASE Start
  <2>1. flow \in Flows /\ flow.head \in Steps /\ <<>> \in Paths
    <3>1. flow \in Flows /\ IsFlow(flow)
        BY FlowExecutorAssumption DEF TInv, RunOk
    <3>2. flow.head \in Steps
        BY <3>1 DEF IsFlow, Steps
    <3> QED
        BY <3>1, <3>2 DEF Paths
  <2>2. ~Calling(<<>>) /\ <<>> \in Seq(Frames)
      BY DEF Calling
  <2>3. ~Calling(Execute(<<>>, flow.head, <<>>))
      BY <2>1, <2>2, ExecuteCalling
  <2> QED
      BY <1>1, <2>3, NoCallBegins DEF Start
<1>2. CASE Flush \/ UNCHANGED vars
    BY <1>2 DEF Flush, engineVars, vars, Begun, Calls, At, Top, Key
<1>3. CASE Upload \/ SendReport \/ Complete \/ Signal \/ Retry \/ Redeliver \/ Kill
    BY <1>3, NoCallBegins DEF Upload, SendReport, Complete, Signal, Retry, Redeliver, Kill, Queue
<1> QED
    BY <1>1, <1>2, <1>3

\* Only Call begins a call, and only of the innermost frame's step.
LEMMA BegunFacts ==
    ASSUME TInv, [Next]_vars, NEW k \in Begun
    PROVE  Call /\ k = Key
<1>1. Call
    BY WalkBegins, ReturnBegins, ChildBegins, AroundBegins DEF Next, Walk
<1>2. /\ stack # <<>> /\ Top \in Frames /\ StackOk
      /\ stack' = Become([Top EXCEPT !.at = "calling", !.i = 1])
    BY <1>1, AtFacts DEF Call, Entered
<1> DEFINE fr == [Top EXCEPT !.at = "calling", !.i = 1]
<1>3. fr \in Frames /\ fr.step = Top.step /\ fr.path = Top.path
    BY <1>2 DEF Frames
<1> HIDE DEF fr
<1>4. Len(stack') = Len(stack) /\ stack'[Len(stack)] = fr
    BY <1>2, <1>3, BecomeFacts DEF StackOk, StackIs, fr
<1>5. Top' = fr
    BY <1>4 DEF Top, Last
<1>6. Key' = Key
    BY <1>3, <1>5 DEF Key
<1> QED
    BY <1>1, <1>6 DEF Begun, Calls

\* What is called is not recorded as succeeded.
LEMMA CalledFresh == ASSUME Call PROVE ~Has(journal, Key, "SUCCEEDED") /\ At("enter")
BY DEF Call, Entered, Completed, Paused, Asks, Has

\* In a walk whose settings resolve, a step recorded as succeeded stays so.
LEMMA SetStays ==
    ASSUME NEW k, NEW s, NEW r, NEW x, Has(journal, x, "SUCCEEDED"),
           x # k \/ s = "SUCCEEDED"
    PROVE  Has(Set(k, s, r), x, "SUCCEEDED")
BY DEF Has, Set, Entry

LEMMA SucceededStays ==
    ASSUME TInv, Walk \/ ResolveFails, NEW k, Has(journal, k, "SUCCEEDED")
    PROVE  (ResolveFails => stack' = <<>>) /\ (Walk => Has(journal', k, "SUCCEEDED"))
<1>1. ResolveFails => stack' = <<>>
    BY DEF ResolveFails, Return, Failure, Running, Verdict
<1>2. CASE Pause \/ Succeed \/ Fail
  <2>1. k # Key
    <3>1. At("calling")
        BY <1>2 DEF Pause, Succeed, Fail
    <3> QED
        BY <3>1, AtFacts DEF FrameOk
  <2>2. \E s : journal' = Set(Key, s, {})
      BY <1>2 DEF Pause, Succeed, Fail
  <2> QED
      BY <1>1, <2>1, <2>2, SetStays
<1>3. CASE EnterLoop \/ EnterRouter \/ Answer
  <2>1. UNCHANGED journal \/ \E r : journal' = Set(Key, "SUCCEEDED", r)
      BY <1>3 DEF EnterLoop, EnterRouter, Answer
  <2> QED
      BY <1>1, <2>1, SetStays DEF Has
<1>4. CASE NoAnswer
    BY <1>1, <1>4, SetStays DEF NoAnswer, Paused, Has
<1>5. CASE Skip \/ Reuse \/ Call \/ Arm \/ AttemptAgain \/ Handled \/ Replay \/ NextChild \/ Leave
  <2>1. UNCHANGED journal
      BY <1>5 DEF Skip, Reuse, Call, Arm, AttemptAgain, Handled, Replay, NextChild, Leave, Inner,
         engineVars
  <2> QED
      BY <1>1, <2>1 DEF Has
<1> QED
    BY <1>1, <1>2, <1>3, <1>4, <1>5 DEF Walk

(***************************************************************************)
(* What the log has is in the journal of the job that resumes.             *)
(***************************************************************************)
Restored ==
    phase = "executing" /\ stack # <<>> /\ job.kind = "resume" =>
        \A k \in DOMAIN log :
            Has(log, k, "SUCCEEDED") => \/ Has(journal, k, "SUCCEEDED")
                                        \/ \E e \in EnclosingLoops(k) : Has(log, e, "FAILED")

LEMMA RestoredStep == ASSUME TInv, Restored, [Next]_vars PROVE Restored'
<1> SUFFICES ASSUME phase' = "executing", stack' # <<>>, job'.kind = "resume",
                    NEW k \in DOMAIN log', Has(log', k, "SUCCEEDED")
             PROVE  \/ Has(journal', k, "SUCCEEDED")
                    \/ \E e \in EnclosingLoops(k) : Has(log', e, "FAILED")
    BY DEF Restored, Has, EnclosingLoops
<1>1. CASE Start
  <2>1. journal' = Restrict(log, RestoredSteps) /\ log' = log /\ job' = job
      BY <1>1 DEF Start, serverVars, BeginJob
  <2>2. CASE k \in RestoredSteps
      BY <2>1, <2>2, RestrictFacts DEF Has
  <2>3. CASE k \notin RestoredSteps
    <3>1. PICK e \in {k} \cup EnclosingLoops(k) : ~IsStepRestorable(log[e].status)
        BY <2>1, <2>3 DEF RestoredSteps
    <3>2. e # k
        BY <2>1, <3>1 DEF IsStepRestorable, Has
    <3>3. /\ JournalOk(log) /\ k \in Keys /\ k \in DOMAIN log
          /\ EnclosingLoops(k) \subseteq DOMAIN log
        BY <2>1 DEF TInv, EngineOk, JournalOk
    <3>4. e[2] \in Loops
      <4>1. PICK p \in Paths, s \in Steps : k = <<p, s>>
          BY <3>3 DEF Keys
      <4> QED
          BY <3>1, <3>2, <4>1, EnclosingKeys
    <3>5. log[e].status \in {"SUCCEEDED", "FAILED"} /\ e \in DOMAIN log
        BY <3>1, <3>2, <3>3, <3>4 DEF JournalOk
    <3> QED
        BY <2>1, <3>1, <3>2, <3>5 DEF IsStepRestorable, Has
  <2> QED
      BY <2>2, <2>3
<1>2. CASE Flush
  <2>1. UNCHANGED journal /\ log' = Snapshot
      BY <1>2 DEF Flush, engineVars
  <2>2. Has(journal, k, "SUCCEEDED")
      BY <2>1 DEF Snapshot, Set, Entry, Has
  <2> QED
      BY <2>1, <2>2
<1>3. CASE Walk \/ ResolveFails
  <2>1. phase = "executing" /\ stack # <<>> /\ UNCHANGED <<job, log>>
    <3>1. \E at : At(at)
        BY <1>3 DEF Walk, ResolveFails, Skip, Reuse, Call, Arm, Pause, Succeed, AttemptAgain, Fail,
           Handled, EnterLoop, EnterRouter, Replay, Answer, NoAnswer, NextChild, Leave, Entered
    <3>2. UNCHANGED <<job, log>>
        BY <1>3 DEF Walk, ResolveFails, Skip, Reuse, Call, Arm, Pause, Succeed, AttemptAgain, Fail,
           Handled, EnterLoop, EnterRouter, Replay, Answer, NoAnswer, NextChild, Leave, Inner,
           engineVars
    <3> QED
        BY <3>1, <3>2 DEF At
  <2>2. \/ Has(journal, k, "SUCCEEDED")
        \/ \E e \in EnclosingLoops(k) : Has(log, e, "FAILED")
      BY <2>1 DEF Restored
  <2>3. Has(journal, k, "SUCCEEDED") => Has(journal', k, "SUCCEEDED")
      BY <1>3, SucceededStays
  <2> QED
      BY <2>1, <2>2, <2>3
<1>4. CASE UNCHANGED vars
    BY <1>4 DEF vars, Restored
<1>5. CASE Upload \/ SendReport \/ Complete \/ Signal \/ Retry \/ Redeliver \/ Kill
    BY <1>5 DEF Upload, SendReport, Complete, Signal, Retry, Redeliver, Kill, Queue
<1> QED
    BY <1>1, <1>2, <1>3, <1>4, <1>5 DEF Next

\* A job that resumes a run calls no step that the log records as succeeded, save in a loop
\* that failed, whatever dies, is delivered twice, is killed or fails to resolve meanwhile:
\* the log it starts from, and every log it uploads, has nothing more than its journal.
THEOREM ResumedJobsReuse == Spec => SavedStepsAreReused
<1>1. Init => Restored
    BY DEF Init, Restored
<1>2. TInv /\ Restored /\ [Next]_vars => Restored'
    BY RestoredStep
<1>3. TInv /\ Restored /\ [Next]_vars =>
          [job.kind = "resume" => \A k \in Begun :
              Has(log, k, "SUCCEEDED") => \E e \in EnclosingLoops(k) : Has(log, e, "FAILED")]_vars
  <2> SUFFICES ASSUME TInv, Restored, [Next]_vars, job.kind = "resume", NEW k \in Begun,
                      Has(log, k, "SUCCEEDED")
               PROVE  \E e \in EnclosingLoops(k) : Has(log, e, "FAILED")
      OBVIOUS
  <2>1. Call /\ k = Key
      BY BegunFacts
  <2>2. ~Has(journal, k, "SUCCEEDED") /\ phase = "executing" /\ stack # <<>>
      BY <2>1, CalledFresh DEF At
  <2>3. k \in DOMAIN log
      BY DEF Has
  <2> QED
      BY <2>2, <2>3 DEF Restored
<1> QED
    BY <1>1, <1>2, <1>3, Types, PTL DEF Spec, SavedStepsAreReused

(***************************************************************************)
(* What ever succeeded is in the journal, or in the log, of a run without  *)
(* faults.                                                                 *)
(***************************************************************************)
LoopsHold(j) == \A k \in DOMAIN j : k[2] \in Loops => j[k].status = "SUCCEEDED"
Holds(j)     == \A k \in succeeded : Has(j, k, "SUCCEEDED")

Kept ==
    faults = Faults =>
        /\ LoopsHold(journal) /\ LoopsHold(log)
        /\ phase \in {"executing", "uploaded"} => Holds(journal)
        /\ phase \in {"uploaded", "reported", "idle"} => Holds(log)
        /\ phase = "queued" /\ job.kind = "resume" => Holds(log)
        /\ phase = "queued" /\ job.kind = "begin" => succeeded = {}

LEMMA FaultsShrink == ASSUME TInv, [Next]_vars PROVE faults' \subseteq faults
BY DEF TInv, RunOk, vars, Next, Walk, Start, ResolveFails, Skip, Reuse, Call, Arm, Pause, Succeed,
   AttemptAgain, Fail, Handled, EnterLoop, EnterRouter, Replay, Answer, NoAnswer, NextChild, Leave,
   Inner, Flush, Upload, SendReport, Complete, Signal, Retry, Redeliver, Kill

\* The entries of loops, and what succeeded, over an entry that is set.
LEMMA LoopsHoldSet ==
    ASSUME LoopsHold(journal), NEW k, NEW s, NEW r, k[2] \in Loops => s = "SUCCEEDED"
    PROVE  LoopsHold(Set(k, s, r))
BY DEF LoopsHold, Set, Entry

\* A step of the walk, in the terms of what is kept.
LEMMA WalkKeeps ==
    ASSUME TInv, LoopsHold(journal), Holds(journal), Walk
    PROVE  /\ LoopsHold(journal')
           /\ \A k \in succeeded' : Has(journal', k, "SUCCEEDED")
<1>1. CASE Pause \/ Succeed \/ Fail
  <2>1. At("calling")
      BY <1>1 DEF Pause, Succeed, Fail
  <2>2. Key[2] \notin Loops
      BY <2>1, AtFacts DEF FrameOk, Loops
  <2>3. PICK s : journal' = Set(Key, s, {}) /\ (Succeed => s = "SUCCEEDED")
      BY <1>1 DEF Pause, Succeed, Fail
  <2>4. LoopsHold(journal')
      BY <2>2, <2>3, LoopsHoldSet
  <2>5. \A k \in succeeded : Has(journal', k, "SUCCEEDED")
      BY SucceededStays DEF Holds
  <2>6. Succeed => Has(journal', Key, "SUCCEEDED")
      BY <2>3 DEF Has, Set, Entry
  <2>7. succeeded' = succeeded \/ (Succeed /\ succeeded' = succeeded \cup {Key})
      BY <1>1 DEF Pause, Succeed, Fail, Inner, historyVars
  <2> QED
      BY <2>4, <2>5, <2>6, <2>7
<1>2. CASE Answer
  <2>1. At("enter") /\ Is("ai") /\ succeeded' = succeeded \cup {Key}
      BY <1>2 DEF Answer, Entered
  <2>2. Key[2] \notin Loops
      BY <2>1, AtFacts DEF Loops, Is
  <2>3. PICK r : journal' = Set(Key, "SUCCEEDED", r)
      BY <1>2 DEF Answer
  <2>4. LoopsHold(journal')
      BY <2>2, <2>3, LoopsHoldSet
  <2>5. \A k \in succeeded : Has(journal', k, "SUCCEEDED")
      BY <1>2, SucceededStays DEF Holds, Walk
  <2>6. Has(journal', Key, "SUCCEEDED")
      BY <2>3 DEF Has, Set, Entry
  <2> QED
      BY <2>1, <2>4, <2>5, <2>6
<1>3. CASE EnterLoop \/ EnterRouter \/ NoAnswer
  <2>1. succeeded' = succeeded
      BY <1>3 DEF EnterLoop, EnterRouter, NoAnswer, Inner, historyVars
  <2>2. \A k \in succeeded : Has(journal', k, "SUCCEEDED")
      BY <1>3, SucceededStays DEF Holds, Walk
  <2>3. LoopsHold(journal')
    <3>1. CASE EnterLoop \/ EnterRouter
      <4>1. UNCHANGED journal \/ \E r : journal' = Set(Key, "SUCCEEDED", r)
          BY <3>1 DEF EnterLoop, EnterRouter
      <4> QED
          BY <4>1, LoopsHoldSet DEF LoopsHold
    <3>2. CASE NoAnswer
      <4>1. At("enter") /\ Is("ai") /\ journal' = Set(Key, "FAILED", {})
          BY <3>2 DEF NoAnswer, Entered
      <4>2. Key[2] \notin Loops
          BY <4>1, AtFacts DEF Loops, Is
      <4> QED
          BY <4>1, <4>2, LoopsHoldSet
    <3> QED
        BY <1>3, <3>1, <3>2
  <2> QED
      BY <2>1, <2>2, <2>3
<1>4. CASE Skip \/ Reuse \/ Call \/ Arm \/ AttemptAgain \/ Handled \/ Replay \/ NextChild \/ Leave
  <2>1. UNCHANGED <<journal, succeeded>>
      BY <1>4 DEF Skip, Reuse, Call, Arm, AttemptAgain, Handled, Replay, NextChild, Leave, Inner,
         engineVars, historyVars
  <2> QED
      BY <2>1 DEF Holds
<1> QED
    BY <1>1, <1>2, <1>3, <1>4 DEF Walk

LEMMA KeptStep == ASSUME TInv, Kept, [Next]_vars PROVE Kept'
<1> SUFFICES ASSUME faults' = Faults PROVE Kept'
    BY DEF Kept
<1>1. UNCHANGED <<faults, flow>> /\ faults = Faults
    BY FaultsShrink, FlowStays DEF TInv, RunOk
<1>2. /\ LoopsHold(journal) /\ LoopsHold(log)
      /\ phase \in {"executing", "uploaded"} => Holds(journal)
      /\ phase \in {"uploaded", "reported", "idle"} => Holds(log)
      /\ phase = "queued" /\ job.kind = "resume" => Holds(log)
      /\ phase = "queued" /\ job.kind = "begin" => succeeded = {}
    BY <1>1 DEF Kept
<1>3. ~ResolveFails /\ ~Redeliver /\ ~Kill
    BY <1>1 DEF ResolveFails, Redeliver, Kill
<1>4. SUFFICES /\ LoopsHold(journal') /\ LoopsHold(log')
               /\ phase' \in {"executing", "uploaded"} =>
                     \A k \in succeeded' : Has(journal', k, "SUCCEEDED")
               /\ phase' \in {"uploaded", "reported", "idle"} =>
                     \A k \in succeeded' : Has(log', k, "SUCCEEDED")
               /\ phase' = "queued" /\ job'.kind = "resume" =>
                     \A k \in succeeded' : Has(log', k, "SUCCEEDED")
               /\ phase' = "queued" /\ job'.kind = "begin" => succeeded' = {}
    BY <1>1, SameFlow DEF Kept, LoopsHold, Holds, Has
<1>5. CASE Start
  <2>1. /\ phase = "queued" /\ phase' = "executing" /\ UNCHANGED <<log, succeeded>>
        /\ journal' = IF job.kind = "begin" THEN NoEntries ELSE Restrict(log, RestoredSteps)
      BY <1>5 DEF Start, serverVars, historyVars
  <2>2. CASE job.kind = "begin"
      BY <1>2, <2>1, <2>2 DEF LoopsHold, NoEntries
  <2>3. CASE job.kind # "begin"
    <3>1. job.kind = "resume"
        BY <2>3 DEF TInv, RunOk, BeginJob, ResumeJob
    <3>2. Holds(log)
        BY <1>2, <2>1, <3>1
    <3>3. ASSUME NEW k \in succeeded PROVE Has(journal', k, "SUCCEEDED")
      <4>1. Has(log, k, "SUCCEEDED") /\ k \in DOMAIN log
          BY <3>2, <3>3 DEF Holds, Has
      <4>2. k \in Keys /\ EnclosingLoops(k) \subseteq DOMAIN log
          BY <4>1 DEF TInv, EngineOk, JournalOk
      <4>3. ASSUME NEW e \in EnclosingLoops(k) PROVE log[e].status = "SUCCEEDED"
        <5>1. PICK p \in Paths, s \in Steps : k = <<p, s>>
            BY <4>2 DEF Keys
        <5>2. e[2] \in Loops
            BY <4>3, <5>1, EnclosingKeys
        <5> QED
            BY <1>2, <4>2, <5>2 DEF LoopsHold
      <4>4. k \in RestoredSteps
          BY <4>1, <4>3 DEF RestoredSteps, IsStepRestorable, Has
      <4> QED
          BY <2>1, <2>3, <4>1, <4>4, RestrictFacts DEF Has
    <3>4. RestoredSteps \subseteq DOMAIN log
        BY DEF RestoredSteps
    <3>5. LoopsHold(journal')
        BY <1>2, <2>1, <2>3, <3>4, RestrictFacts DEF LoopsHold
    <3> QED
        BY <1>2, <2>1, <3>3, <3>5
  <2> QED
      BY <2>2, <2>3
<1>6. CASE Walk
  <2>1. phase = "executing" /\ UNCHANGED <<phase, log>>
    <3>1. \E at : At(at)
        BY <1>6 DEF Walk, Skip, Reuse, Call, Arm, Pause, Succeed, AttemptAgain, Fail, Handled,
           EnterLoop, EnterRouter, Replay, Answer, NoAnswer, NextChild, Leave, Entered
    <3>2. UNCHANGED <<phase, log>>
        BY <1>6 DEF Walk, Skip, Reuse, Call, Arm, Pause, Succeed, AttemptAgain, Fail, Handled,
           EnterLoop, EnterRouter, Replay, Answer, NoAnswer, NextChild, Leave, Inner, engineVars
    <3> QED
        BY <3>1, <3>2 DEF At
  <2> QED
      BY <1>2, <1>6, <2>1, WalkKeeps
<1>7. CASE Flush
  <2>1. UNCHANGED <<phase, job, journal, succeeded>> /\ log' = Snapshot /\ phase = "executing"
      BY <1>7 DEF Flush, engineVars, historyVars
  <2>2. LoopsHold(log')
    <3>1. At("calling") => Key[2] = Top.step
        BY AtFacts
    <3> QED
        BY <1>2, <2>1, <3>1, LoopsHoldSet DEF Snapshot, Loops, Is
  <2> QED
      BY <1>2, <2>1, <2>2 DEF Holds
<1>8. CASE Upload
    BY <1>2, <1>8 DEF Upload, historyVars, Holds
<1>9. CASE SendReport \/ Complete
    BY <1>2, <1>9 DEF SendReport, Complete, engineVars, serverVars, historyVars, Holds
<1>10. CASE Signal \/ Retry
    BY <1>2, <1>10 DEF Signal, Retry, Queue, ResumeJob, engineVars, Holds
<1>11. CASE UNCHANGED vars
    BY <1>2, <1>11 DEF vars, Holds
<1> QED
    BY <1>3, <1>5, <1>6, <1>7, <1>8, <1>9, <1>10, <1>11 DEF Next

\* Until something dies, is killed or fails to resolve, no step that ever succeeded is called
\* again, whatever is paused, allowed to fail, resumed and retried: what succeeded is in the
\* journal of the walk, and between walks in the log, with the loops around it.
THEOREM UndisturbedRunsReuse ==
    Spec => [][faults = Faults => \A k \in Begun : k \notin succeeded]_vars
<1>1. Init => Kept
    BY DEF Init, Kept, LoopsHold, NoEntries, BeginJob
<1>2. TInv /\ Kept /\ [Next]_vars => Kept'
    BY KeptStep
<1>3. TInv /\ Kept /\ [Next]_vars =>
          [faults = Faults => \A k \in Begun : k \notin succeeded]_vars
  <2> SUFFICES ASSUME TInv, Kept, [Next]_vars, faults = Faults, NEW k \in Begun
               PROVE  k \notin succeeded
      OBVIOUS
  <2>1. Call /\ k = Key
      BY BegunFacts
  <2>2. ~Has(journal, k, "SUCCEEDED") /\ phase = "executing"
      BY <2>1, CalledFresh DEF At
  <2> QED
      BY <2>2 DEF Kept, Holds
<1> QED
    BY <1>1, <1>2, <1>3, Types, PTL DEF Spec

\* In particular, a run that meets none of them calls no step again that succeeded.
THEOREM FaultlessRunsReuse == Faults = {} => (Spec => SucceedsOnce)
<1> SUFFICES ASSUME Faults = {} PROVE Spec => SucceedsOnce
    OBVIOUS
<1>1. TInv => faults = Faults
    BY DEF TInv, RunOk
<1>2. [faults = Faults => \A k \in Begun : k \notin succeeded]_vars /\ faults = Faults
        => [\A k \in Begun : k \notin succeeded]_vars
    OBVIOUS
<1> QED
    BY <1>1, <1>2, UndisturbedRunsReuse, Types, PTL DEF SucceedsOnce

(***************************************************************************)
(* The one route of an AI router.                                          *)
(***************************************************************************)
BestAis == {s \in Steps : flow.kind[s] = "ai"} \ flow.takesAll

\* A child of such a router is where the router was answered with its route
RouteOk(j, p, c) ==
    \A q \in BestAis : \A n \in DOMAIN flow.children[q] :
        flow.children[q][n] = c => Has(j, <<p, q>>, "SUCCEEDED") /\ n \in j[<<p, q>>].routes

RoutesOk(j) ==
    \A k \in DOMAIN j : /\ RouteOk(j, k[1], k[2])
                        /\ k[2] \in BestAis => \A m, n \in j[k].routes : m = n

RoutedFrame(fr, j) ==
    /\ RouteOk(j, fr.path, fr.step)
    /\ fr.at = "inside" /\ fr.step \in BestAis =>
          Has(j, <<fr.path, fr.step>>, "SUCCEEDED") /\ fr.todo \subseteq j[<<fr.path, fr.step>>].routes

RoutedStack(st, j) == \A n \in 1..Len(st) : RoutedFrame(st[n], j)

Routed == RoutesOk(journal) /\ RoutesOk(log) /\ RoutedStack(stack, journal)

\* A child hangs nowhere else in the flow.
LEMMA PlaceFacts ==
    ASSUME flow \in Flows, NEW q \in Steps, NEW n \in DOMAIN flow.children[q],
           flow.children[q][n] # NoStep
    PROVE  /\ flow.children[q][n] # flow.head
           /\ \A s \in Steps : flow.next[s] # flow.children[q][n]
           /\ \A s \in Steps : \A m \in DOMAIN flow.children[s] :
                 flow.children[s][m] = flow.children[q][n] => s = q /\ m = n
<1>1. IsFlow(flow)
    BY FlowExecutorAssumption
<1>2. \A p, r \in Places(flow) : StepAt(flow, p) = StepAt(flow, r) /\ StepAt(flow, p) # NoStep => p = r
    BY <1>1 DEF IsFlow
<1>3. \A s \in Steps : /\ s # NoStep /\ \A m \in DOMAIN flow.children[s] : m # 0
  <2> TAKE s \in Steps
  <2>1. s # NoStep /\ flow.children[s] \in Seq(Steps \cup {NoStep})
      BY <1>1 DEF IsFlow, Steps
  <2> QED
      BY <2>1
<1>4. /\ <<NoStep, 0>> \in Places(flow) /\ StepAt(flow, <<NoStep, 0>>) = flow.head
      /\ \A s \in Steps : /\ <<s, 0>> \in Places(flow)
                          /\ StepAt(flow, <<s, 0>>) = flow.next[s]
                          /\ \A m \in DOMAIN flow.children[s] :
                                /\ <<s, m>> \in Places(flow)
                                /\ StepAt(flow, <<s, m>>) = flow.children[s][m]
    BY <1>3 DEF Places, StepAt, Steps
<1>5. <<q, n>> \in Places(flow) /\ StepAt(flow, <<q, n>>) = flow.children[q][n]
    BY <1>4
<1>6. flow.children[q][n] # flow.head
    BY <1>2, <1>3, <1>4, <1>5
<1>7. ASSUME NEW s \in Steps, flow.next[s] = flow.children[q][n] PROVE FALSE
  <2>1. <<s, 0>> \in Places(flow) /\ StepAt(flow, <<s, 0>>) = StepAt(flow, <<q, n>>)
      BY <1>4, <1>5, <1>7
  <2>2. <<s, 0>> = <<q, n>>
      BY <1>2, <1>5, <2>1
  <2> QED
      BY <1>3, <2>2
<1>8. ASSUME NEW s \in Steps, NEW m \in DOMAIN flow.children[s],
             flow.children[s][m] = flow.children[q][n]
      PROVE  s = q /\ m = n
  <2>1. <<s, m>> \in Places(flow) /\ StepAt(flow, <<s, m>>) = StepAt(flow, <<q, n>>)
      BY <1>4, <1>5, <1>8
  <2>2. <<s, m>> = <<q, n>>
      BY <1>2, <1>5, <2>1
  <2> QED
      BY <2>2
<1> QED
    BY <1>6, <1>7, <1>8

\* The head of the flow, a successor and a child of anything else hang at no route.
LEMMA NoRoute ==
    ASSUME flow \in Flows, NEW c, c # NoStep,
           \/ c = flow.head
           \/ \E s \in Steps : c = flow.next[s]
           \/ \E s \in Steps \ BestAis : \E m \in DOMAIN flow.children[s] : c = flow.children[s][m],
           NEW p, NEW j
    PROVE  RouteOk(j, p, c)
<1>1. ASSUME NEW q \in BestAis, NEW n \in DOMAIN flow.children[q], flow.children[q][n] = c
      PROVE  FALSE
    BY <1>1, PlaceFacts DEF BestAis
<1> QED
    BY <1>1 DEF RouteOk

\* The answers of best-route routers that are recorded in j are in k.
Keeps(j, k) == \A x \in DOMAIN j : x[2] \in BestAis /\ j[x].status = "SUCCEEDED" =>
                                      x \in DOMAIN k /\ k[x] = j[x]

LEMMA KeepsRoute ==
    ASSUME NEW j, NEW k, Keeps(j, k), NEW p, NEW c, RouteOk(j, p, c)
    PROVE  RouteOk(k, p, c)
BY DEF Keeps, RouteOk, Has

LEMMA KeepsFrame ==
    ASSUME NEW j, NEW k, Keeps(j, k), NEW fr, RoutedFrame(fr, j)
    PROVE  RoutedFrame(fr, k)
<1>1. RouteOk(k, fr.path, fr.step)
    BY KeepsRoute DEF RoutedFrame
<1> QED
    BY <1>1 DEF Keeps, RoutedFrame, Has

LEMMA KeepsItself == ASSUME NEW j PROVE Keeps(j, j)
BY DEF Keeps

LEMMA KeepsSet ==
    ASSUME NEW k, NEW s, NEW r, k[2] \notin BestAis \/ ~Has(journal, k, "SUCCEEDED")
    PROVE  Keeps(journal, Set(k, s, r))
BY DEF Keeps, Set, Entry, Has

\* An entry is set of a step that is where it may be.
LEMMA RoutesSet ==
    ASSUME RoutesOk(journal), NEW k, NEW s, NEW r, RouteOk(journal, k[1], k[2]),
           k[2] \notin BestAis \/ ~Has(journal, k, "SUCCEEDED"),
           k[2] \in BestAis => \A m, n \in r : m = n
    PROVE  RoutesOk(Set(k, s, r)) /\ Keeps(journal, Set(k, s, r))
<1> DEFINE j == Set(k, s, r)
<1>1. Keeps(journal, j)
    BY KeepsSet
<1>2. /\ DOMAIN j = DOMAIN journal \cup {k} /\ j[k].routes = r
      /\ \A x \in DOMAIN journal : x # k => j[x] = journal[x]
    BY DEF Set, Entry
<1> HIDE DEF j
<1>3. ASSUME NEW x \in DOMAIN j
      PROVE  RouteOk(j, x[1], x[2]) /\ (x[2] \in BestAis => \A m, n \in j[x].routes : m = n)
  <2>1. RouteOk(journal, x[1], x[2])
      BY <1>2, <1>3 DEF RoutesOk
  <2>2. RouteOk(j, x[1], x[2])
      BY <1>1, <2>1, KeepsRoute
  <2>3. x[2] \in BestAis => \A m, n \in j[x].routes : m = n
      BY <1>2, <1>3 DEF RoutesOk
  <2> QED
      BY <2>2, <2>3
<1> QED
    BY <1>1, <1>3 DEF RoutesOk, j

\* Some of a journal is kept, answers with what hangs on them.
LEMMA RoutesRestricted ==
    ASSUME NEW j, RoutesOk(j), NEW S \in SUBSET DOMAIN j,
           \A x \in S : \A q \in BestAis : Has(j, <<x[1], q>>, "SUCCEEDED") => <<x[1], q>> \in S
    PROVE  RoutesOk(Restrict(j, S))
<1> DEFINE r == Restrict(j, S)
<1>1. DOMAIN r = S /\ \A x \in S : r[x] = j[x]
    BY RestrictFacts
<1> HIDE DEF r
<1>2. ASSUME NEW x \in S
      PROVE  RouteOk(r, x[1], x[2]) /\ (x[2] \in BestAis => \A m, n \in r[x].routes : m = n)
  <2>1. RouteOk(j, x[1], x[2]) /\ (x[2] \in BestAis => \A m, n \in j[x].routes : m = n)
      BY DEF RoutesOk
  <2>2. RouteOk(r, x[1], x[2])
      BY <1>1, <1>2, <2>1 DEF RouteOk, Has
  <2> QED
      BY <1>1, <2>1, <2>2
<1> QED
    BY <1>1, <1>2 DEF RoutesOk, r

\* The stack.
LEMMA RoutedTop == ASSUME StackOk, stack # <<>>, Routed PROVE RoutedFrame(Top, journal)
<1>1. Len(stack) \in Nat \ {0} /\ Top = stack[Len(stack)]
    BY TopFacts
<1> QED
    BY <1>1 DEF Routed, RoutedStack

LEMMA RoutedTurned ==
    ASSUME StackOk, stack # <<>>, Routed, NEW fr \in Frames, NEW j, Keeps(journal, j),
           RoutedFrame(fr, j)
    PROVE  RoutedStack(Become(fr), j)
<1> DEFINE st == Become(fr)
<1>0. stack \in Seq(Frames)
    BY DEF StackOk, StackIs
<1>1. /\ st \in Seq(Frames) /\ Len(st) = Len(stack) /\ Len(stack) \in Nat \ {0}
      /\ st[Len(stack)] = fr /\ \A n \in 1..Len(stack) - 1 : st[n] = stack[n]
  <2>1. Len(stack) \in Nat \ {0}
      BY <1>0
  <2> QED
      BY <1>0, <2>1, BecomeFacts
<1> HIDE DEF st
<1>2. ASSUME NEW n \in 1..Len(st) PROVE RoutedFrame(st[n], j)
  <2>1. CASE n = Len(stack)
      BY <1>1, <2>1
  <2>2. CASE n \in 1..Len(stack) - 1
    <3>1. st[n] = stack[n] /\ RoutedFrame(stack[n], journal)
        BY <1>1, <2>2 DEF Routed, RoutedStack
    <3>2. RoutedFrame(stack[n], j)
        BY <3>1, KeepsFrame
    <3> QED
        BY <3>1, <3>2
  <2> QED
      BY <1>1, <2>1, <2>2
<1> QED
    BY <1>2 DEF RoutedStack, st

LEMMA RoutedEntered ==
    ASSUME flow \in Flows, NEW st \in Seq(Frames), NEW j, RoutedStack(st, j),
           NEW s \in Steps \cup {NoStep}, NEW p \in Paths, s # NoStep => RouteOk(j, p, s)
    PROVE  RoutedStack(Execute(st, s, p), j)
<1> DEFINE x == Execute(st, s, p)
<1>1. CASE s = NoStep
    BY <1>1 DEF Execute
<1>2. CASE s # NoStep
  <2>1. /\ Len(st) \in Nat /\ Len(x) = Len(st) + 1 /\ x[Len(st) + 1] = Frame(s, p)
        /\ \A n \in 1..Len(st) : x[n] = st[n]
      BY <1>2, ExecuteFacts
  <2>2. RoutedFrame(Frame(s, p), j)
      BY <1>2 DEF RoutedFrame, Frame
  <2> HIDE DEF x
  <2>3. ASSUME NEW n \in 1..Len(x) PROVE RoutedFrame(x[n], j)
    <3>1. n = Len(st) + 1 \/ n \in 1..Len(st)
        BY <2>1
    <3> QED
        BY <2>1, <2>2, <3>1 DEF RoutedStack
  <2> QED
      BY <2>3 DEF RoutedStack, x
<1> QED
    BY <1>1, <1>2

LEMMA RoutedPassed ==
    ASSUME flow \in Flows, StackOk, stack # <<>>, Routed
    PROVE  RoutedStack(Past, journal)
<1> DEFINE r == Front(stack)
           c == flow.next[Top.step]
<1>1. /\ r \in Seq(Frames) /\ Len(r) = Len(stack) - 1 /\ Len(stack) \in Nat \ {0}
      /\ \A n \in 1..Len(stack) - 1 : r[n] = stack[n]
    BY FrontFacts DEF StackOk, StackIs
<1> HIDE DEF r
<1>2. RoutedStack(r, journal)
    BY <1>1 DEF Routed, RoutedStack
<1>3. c \in Steps \cup {NoStep} /\ Top.path \in Paths /\ Top.step \in Steps
    BY TopFacts, FlowFacts DEF Frames
<1>4. c # NoStep => RouteOk(journal, Top.path, c)
    BY <1>3, NoRoute
<1> HIDE DEF c
<1>5. RoutedStack(Execute(r, c, Top.path), journal)
    BY <1>1, <1>2, <1>3, <1>4, RoutedEntered
<1> QED
    BY <1>5 DEF Past, r, c

LEMMA RoutedEmptied == ASSUME NEW j PROVE RoutedStack(<<>>, j)
BY DEF RoutedStack

LEMMA NextRouted ==
    ASSUME UNCHANGED flow, RoutesOk(journal'), RoutesOk(log'), RoutedStack(stack', journal')
    PROVE  Routed'
<1>1. BestAis' = BestAis
    BY SameFlow DEF BestAis
<1> QED
    BY <1>1 DEF Routed, RoutesOk, RouteOk, RoutedStack, RoutedFrame, Has

LEMMA SameRoutes ==
    ASSUME Routed, UNCHANGED <<flow, journal, log>>, RoutedStack(stack', journal)
    PROVE  Routed'
BY NextRouted DEF Routed

\* The innermost frame goes on, and is not inside.
LEMMA RoutedGoesOn ==
    ASSUME TInv, Routed, NEW at, At(at), NEW fr \in Frames, fr.step = Top.step, fr.path = Top.path,
           fr.at # "inside", NEW j, Keeps(journal, j)
    PROVE  RoutedStack(Become(fr), j)
<1>1. StackOk /\ stack # <<>>
    BY AtFacts
<1>2. RouteOk(journal, fr.path, fr.step)
    BY <1>1, RoutedTop DEF RoutedFrame
<1>3. RoutedFrame(fr, j)
    BY <1>2, KeepsRoute DEF RoutedFrame
<1> QED
    BY <1>1, <1>3, RoutedTurned

LEMMA WalkOnRoutes ==
    ASSUME TInv, Routed, Skip \/ Reuse \/ Call \/ Arm \/ AttemptAgain \/ Leave
    PROVE  Routed'
<1>1. UNCHANGED <<flow, journal, log>>
    BY DEF Skip, Reuse, Call, Arm, AttemptAgain, Leave, Inner, engineVars
<1>2. PICK at : At(at)
    BY DEF Skip, Reuse, Call, Arm, AttemptAgain, Leave, Entered
<1>3. flow \in Flows /\ StackOk /\ stack # <<>> /\ Top \in Frames
    BY <1>2, AtFacts
<1>4. CASE Skip \/ Leave
    BY <1>1, <1>3, <1>4, RoutedPassed, SameRoutes DEF Skip, Leave
<1>5. CASE Arm
    BY <1>1, <1>5, SameRoutes DEF Arm, engineVars, Inner, Routed
<1>6. ASSUME NEW fr \in Frames, fr.step = Top.step, fr.path = Top.path, fr.at # "inside",
             stack' = Become(fr)
      PROVE  Routed'
    BY <1>1, <1>2, <1>6, RoutedGoesOn, KeepsItself, SameRoutes
<1>7. CASE Reuse
  <2> DEFINE fr == [Top EXCEPT !.at = "handled"]
  <2>1. /\ fr \in Frames /\ fr.step = Top.step /\ fr.path = Top.path /\ fr.at # "inside"
        /\ stack' = Become(fr)
      BY <1>3, <1>7 DEF Frames, Reuse, GoOn
  <2> HIDE DEF fr
  <2> QED
      BY <1>6, <2>1
<1>8. CASE Call
  <2> DEFINE fr == [Top EXCEPT !.at = "calling", !.i = 1]
  <2>1. /\ fr \in Frames /\ fr.step = Top.step /\ fr.path = Top.path /\ fr.at # "inside"
        /\ stack' = Become(fr)
      BY <1>3, <1>8 DEF Frames, Call
  <2> HIDE DEF fr
  <2> QED
      BY <1>6, <2>1
<1>9. CASE AttemptAgain
  <2> DEFINE fr == [Top EXCEPT !.i = @ + 1]
  <2>1. /\ fr \in Frames /\ fr.step = Top.step /\ fr.path = Top.path /\ fr.at # "inside"
        /\ stack' = Become(fr)
      BY <1>3, <1>9 DEF Frames, AttemptAgain, At
  <2> HIDE DEF fr
  <2> QED
      BY <1>6, <2>1
<1> QED
    BY <1>4, <1>5, <1>7, <1>8, <1>9

\* The call of a step ends, or a question is not answered.
LEMMA CallEndsRouted ==
    ASSUME TInv, Routed, Pause \/ Succeed \/ Fail \/ NoAnswer
    PROVE  Routed'
<1>1. PICK at : At(at)
    BY DEF Pause, Succeed, Fail, NoAnswer, Entered
<1>2. StackOk /\ stack # <<>> /\ Top \in Frames /\ Key = <<Top.path, Top.step>>
    BY <1>1, AtFacts
<1>3. UNCHANGED <<flow, log>>
    BY DEF Pause, Succeed, Fail, NoAnswer, Inner
<1>4. ~Has(journal, Key, "SUCCEEDED")
  <2>1. CASE NoAnswer
      BY <2>1 DEF NoAnswer, Paused, Has
  <2>2. CASE Pause \/ Succeed \/ Fail
    <3>1. At("calling")
        BY <2>2 DEF Pause, Succeed, Fail
    <3> QED
        BY <3>1, AtFacts DEF FrameOk
  <2> QED
      BY <2>1, <2>2
<1>5. RouteOk(journal, Key[1], Key[2])
    BY <1>2, RoutedTop DEF RoutedFrame
<1>6. PICK s : journal' = Set(Key, s, {})
    BY DEF Pause, Succeed, Fail, NoAnswer
<1>7. RoutesOk(journal') /\ Keeps(journal, journal')
    BY <1>4, <1>5, <1>6, RoutesSet DEF Routed
<1> DEFINE fr == [Top EXCEPT !.at = "handled"]
<1>8. stack' = <<>> \/ stack' = Become(fr)
    BY DEF Pause, Succeed, Fail, NoAnswer, Return, Verdict, Running, Failure, GoOn
<1>9. fr \in Frames /\ fr.step = Top.step /\ fr.path = Top.path /\ fr.at # "inside"
    BY <1>2 DEF Frames
<1> HIDE DEF fr
<1>10. RoutedStack(stack', journal')
    BY <1>1, <1>7, <1>8, <1>9, RoutedGoesOn, RoutedEmptied
<1> QED
    BY <1>3, <1>7, <1>10, NextRouted DEF Routed

\* A loop or a router turns to its children.
LEMMA RoutedInside ==
    ASSUME TInv, Routed, At("enter"), UNCHANGED <<flow, log>>, NEW todo \in SUBSET Nat,
           stack' = Inside(todo), RoutesOk(journal'), Keeps(journal, journal'),
           Top.step \in BestAis => Has(journal', Key, "SUCCEEDED") /\ todo \subseteq journal'[Key].routes
    PROVE  Routed'
<1> DEFINE fr == [Top EXCEPT !.at = "inside", !.todo = todo]
<1>1. StackOk /\ stack # <<>> /\ Top \in Frames /\ Key = <<Top.path, Top.step>>
    BY AtFacts
<1>2. /\ fr \in Frames /\ fr.step = Top.step /\ fr.path = Top.path /\ fr.todo = todo
      /\ stack' = Become(fr)
    BY <1>1 DEF Frames, Inside
<1> HIDE DEF fr
<1>3. RouteOk(journal, fr.path, fr.step)
    BY <1>1, <1>2, RoutedTop DEF RoutedFrame
<1>4. RouteOk(journal', fr.path, fr.step)
    BY <1>3, KeepsRoute
<1>5. RoutedFrame(fr, journal')
    BY <1>1, <1>2, <1>4 DEF RoutedFrame
<1>6. RoutedStack(stack', journal')
    BY <1>1, <1>2, <1>5, RoutedTurned
<1> QED
    BY <1>6, NextRouted DEF Routed

LEMMA EntersRouted == ASSUME TInv, Routed, EnterLoop \/ EnterRouter PROVE Routed'
<1>1. At("enter") /\ UNCHANGED <<flow, log>> /\ (Is("loop") \/ Is("router"))
    BY DEF EnterLoop, EnterRouter, Entered, Inner
<1>2. /\ flow \in Flows /\ Top.step \in Steps /\ Key = <<Top.path, Top.step>>
      /\ StackOk /\ stack # <<>>
    BY <1>1, AtFacts
<1>3. Top.step \notin BestAis
    BY <1>1 DEF BestAis, Is
<1>4. RouteOk(journal, Key[1], Key[2])
    BY <1>2, RoutedTop DEF RoutedFrame
<1>5. UNCHANGED journal \/ \E r : journal' = Set(Key, "SUCCEEDED", r)
    BY DEF EnterLoop, EnterRouter
<1>6. RoutesOk(journal') /\ Keeps(journal, journal')
    BY <1>2, <1>3, <1>4, <1>5, RoutesSet, KeepsItself DEF Routed
<1>7. \E todo \in SUBSET Nat : stack' = Inside(todo)
  <2>1. CASE EnterLoop
    <3>1. 1..flow.items[Top.step] \in SUBSET Nat
        BY <1>2, FlowFacts
    <3> QED
        BY <2>1, <3>1 DEF EnterLoop
  <2>2. CASE EnterRouter
    <3>1. Matching \in SUBSET Nat /\ FirstOf(Matching) \in SUBSET Nat
        BY <1>2, <2>2, MatchingFacts, FirstOfFacts DEF EnterRouter
    <3> QED
        BY <2>2, <3>1 DEF EnterRouter
  <2> QED
      BY <2>1, <2>2
<1> QED
    BY <1>1, <1>3, <1>6, <1>7, RoutedInside

LEMMA ReplayRouted == ASSUME TInv, Routed, Replay PROVE Routed'
<1> DEFINE todo == journal[Key].routes
<1>1. /\ At("enter") /\ UNCHANGED <<flow, log, journal>> /\ stack' = Inside(todo)
      /\ Has(journal, Key, "SUCCEEDED")
    BY DEF Replay, Entered, Inner
<1>2. todo \in SUBSET Nat
    BY <1>1 DEF Has, TInv, EngineOk, JournalOk, Entries
<1>3. todo \subseteq journal'[Key].routes /\ Has(journal', Key, "SUCCEEDED")
    BY <1>1
<1> HIDE DEF todo
<1> QED
    BY <1>1, <1>2, <1>3, RoutedInside, KeepsItself DEF Routed

LEMMA AnswerRouted == ASSUME DistinctRoutes, TInv, Routed, Answer PROVE Routed'
<1>1. PICK routes \in Answers(Top.step) :
        /\ journal' = Set(Key, "SUCCEEDED", routes)
        /\ stack' = Inside(IF Top.step \in flow.takesAll THEN routes ELSE FirstOf(routes))
    BY DEF Answer
<1> DEFINE todo == IF Top.step \in flow.takesAll THEN routes ELSE FirstOf(routes)
<1>2. At("enter") /\ Is("ai") /\ Paused(Key) /\ UNCHANGED <<flow, log>> /\ stack' = Inside(todo)
    BY <1>1 DEF Answer, Entered, Inner
<1>3. /\ flow \in Flows /\ Top.step \in Steps /\ Key = <<Top.path, Top.step>>
      /\ StackOk /\ stack # <<>>
    BY <1>2, AtFacts
<1>4. RouteOk(journal, Key[1], Key[2])
    BY <1>3, RoutedTop DEF RoutedFrame
<1>5. ~Has(journal, Key, "SUCCEEDED")
    BY <1>2 DEF Paused, Has
<1>6. Key[2] \in BestAis => \A m, n \in routes : m = n
  <2> SUFFICES ASSUME Top.step \notin flow.takesAll PROVE \A m, n \in routes : m = n
      BY <1>3 DEF BestAis
  <2> DEFINE names == flow.choices[Top.step]
  <2>2. IsInjective(names)
      BY <1>2, <1>3 DEF DistinctRoutes, Is, Steps
  <2>3. PICK name : routes = {n \in DOMAIN names : names[n] \in {name}}
      BY <1>1 DEF Answers
  <2> HIDE DEF names
  <2> QED
      BY <2>2, <2>3 DEF IsInjective
<1>7. RoutesOk(journal') /\ Keeps(journal, journal')
    BY <1>1, <1>4, <1>5, <1>6, RoutesSet DEF Routed
<1>8. routes \in SUBSET Nat
    BY <1>2, <1>3, AnswersFacts DEF Is
<1>9. todo \in SUBSET Nat /\ todo \subseteq routes
    BY <1>8, FirstOfFacts
<1>10. Has(journal', Key, "SUCCEEDED") /\ journal'[Key].routes = routes
    BY <1>1 DEF Has, Set, Entry
<1> HIDE DEF todo
<1> QED
    BY <1>2, <1>7, <1>9, <1>10, RoutedInside

\* A handler calls the executor for a child.
LEMMA ChildRouted == ASSUME TInv, Routed, Handled \/ NextChild PROVE Routed'
<1>1. UNCHANGED <<flow, journal, log>>
    BY DEF Handled, NextChild, Inner
<1>2. PICK at : At(at)
    BY DEF Handled, NextChild
<1>3. /\ flow \in Flows /\ StackOk /\ stack # <<>> /\ Top \in Frames /\ FrameOk(Top, journal)
      /\ Top.step \in Steps /\ Top.path \in Paths /\ RoutedFrame(Top, journal)
    BY <1>2, AtFacts, RoutedTop
<1>4. ASSUME NEW fr \in Frames, RoutedFrame(fr, journal), NEW c \in Steps \cup {NoStep},
             NEW p \in Paths, c # NoStep => RouteOk(journal, p, c),
             stack' = Execute(Become(fr), c, p)
      PROVE  Routed'
  <2>1. RoutedStack(Become(fr), journal) /\ Become(fr) \in Seq(Frames)
      BY <1>3, <1>4, RoutedTurned, KeepsItself, BecomeFacts DEF StackOk, StackIs
  <2>2. RoutedStack(Execute(Become(fr), c, p), journal)
      BY <1>3, <1>4, <2>1, RoutedEntered
  <2> QED
      BY <1>1, <1>4, <2>2, SameRoutes
<1>5. CASE Handled /\ Top.step \in flow.continues
  <2> DEFINE fr == [Top EXCEPT !.at = "left"]
             n  == IF Has(journal, Key, "FAILED") THEN 2 ELSE 1
             c  == flow.children[Top.step][n]
  <2>1. stack' = Execute(Become(fr), c, Top.path)
      BY <1>5 DEF Handled, GoOn
  <2>2. fr \in Frames /\ RoutedFrame(fr, journal)
      BY <1>3 DEF Frames, RoutedFrame
  <2>3. n \in DOMAIN flow.children[Top.step] /\ c \in Steps \cup {NoStep} /\ Top.step \notin BestAis
      BY <1>3, <1>5, FlowFacts DEF BestAis
  <2> HIDE DEF fr, n
  <2>4. c # NoStep => RouteOk(journal, Top.path, c)
      BY <1>3, <2>3, NoRoute
  <2> HIDE DEF c
  <2> QED
      BY <1>3, <1>4, <2>1, <2>2, <2>3, <2>4
<1>6. CASE Handled /\ Top.step \notin flow.continues
    BY <1>1, <1>3, <1>6, RoutedPassed, SameRoutes DEF Handled
<1>7. CASE NextChild
  <2> DEFINE n  == Min(Top.todo)
             fr == [Top EXCEPT !.i = n, !.todo = @ \ {n}]
             p  == IF Is("loop") THEN Append(Top.path, <<Top.step, n>>) ELSE Top.path
             m  == IF Is("loop") THEN 1 ELSE n
             c  == flow.children[Top.step][m]
  <2>1. stack' = Execute(Become(fr), c, p) /\ Top.todo # {} /\ Top.at = "inside"
      BY <1>7 DEF NextChild, At
  <2>2. n \in Top.todo /\ n \in Nat
      BY <1>3, <2>1, MinFacts DEF Frames
  <2> HIDE DEF n
  <2>3. fr \in Frames /\ RoutedFrame(fr, journal)
      BY <1>3, <2>1, <2>2 DEF Frames, RoutedFrame
  <2>4. m \in DOMAIN flow.children[Top.step] /\ c \in Steps \cup {NoStep}
      BY <1>3, <2>1, <2>2, FlowFacts DEF FrameOk, Is
  <2>5. p \in Paths
      BY <1>3, <2>2 DEF Loops, Is, Paths
  <2> HIDE DEF fr
  <2>6. ASSUME c # NoStep PROVE RouteOk(journal, p, c)
    <3>1. CASE Top.step \in BestAis
      <4>1. p = Top.path /\ m = n
          BY <3>1 DEF BestAis, Is
      <4>2. Has(journal, <<p, Top.step>>, "SUCCEEDED") /\ n \in journal[<<p, Top.step>>].routes
          BY <1>3, <2>1, <2>2, <3>1, <4>1 DEF RoutedFrame
      <4>3. ASSUME NEW q \in BestAis, NEW l \in DOMAIN flow.children[q], flow.children[q][l] = c
            PROVE  q = Top.step /\ l = n
          BY <1>3, <2>4, <2>6, <4>1, <4>3, PlaceFacts DEF BestAis
      <4> HIDE DEF c, p, m
      <4> QED
          BY <4>2, <4>3 DEF RouteOk
    <3>2. CASE Top.step \notin BestAis
        BY <1>3, <2>4, <2>6, <3>2, NoRoute
    <3> QED
        BY <3>1, <3>2
  <2> HIDE DEF p, m, c
  <2> QED
      BY <1>4, <2>1, <2>3, <2>4, <2>5, <2>6
<1> QED
    BY <1>5, <1>6, <1>7

LEMMA ResolveFailsRouted == ASSUME TInv, Routed, ResolveFails PROVE Routed'
<1> DEFINE j    == Set(Key, "FAILED", {})
           lost == IF Is("loop") THEN InIterationsOf(Key) ELSE {}
           S    == (DOMAIN journal \cup {Key}) \ lost
<1>1. /\ At("enter") /\ journal' = Restrict(j, S) /\ UNCHANGED <<flow, log>> /\ stack' = <<>>
      /\ Is("ai") => ~Has(journal, Key, "SUCCEEDED")
    BY DEF ResolveFails, Entered, Inner, Return, Failure, Running, Verdict
<1>2. StackOk /\ stack # <<>> /\ Key = <<Top.path, Top.step>> /\ Key \in Keys
    BY <1>1, AtFacts
<1>3. RouteOk(journal, Key[1], Key[2])
    BY <1>2, RoutedTop DEF RoutedFrame
<1>4. RoutesOk(j)
    BY <1>1, <1>2, <1>3, RoutesSet DEF Routed, BestAis, Is
<1>5. DOMAIN j = DOMAIN journal \cup {Key}
    BY DEF Set
<1>6. ASSUME NEW x \in S, NEW q \in BestAis, Has(j, <<x[1], q>>, "SUCCEEDED")
      PROVE  <<x[1], q>> \in S
  <2>1. <<x[1], q>> \in DOMAIN journal \cup {Key}
      BY <1>5, <1>6 DEF Has
  <2>2. ASSUME <<x[1], q>> \in lost PROVE FALSE
    <3>1. /\ Len(x[1]) > Len(Key[1]) /\ SubSeq(x[1], 1, Len(Key[1])) = Key[1]
          /\ x[1][Len(Key[1]) + 1][1] = Key[2] /\ Is("loop")
        BY <2>2 DEF InIterationsOf
    <3>2. Len(Key[1]) \in Nat
        BY <1>2 DEF Keys, Paths
    <3>3. x # Key
        BY <3>1, <3>2
    <3> QED
        BY <1>6, <3>1, <3>3 DEF InIterationsOf
  <2> QED
      BY <2>1, <2>2
<1>7. S \in SUBSET DOMAIN j
    BY <1>5
<1> HIDE DEF j, lost, S
<1>8. RoutesOk(journal')
    BY <1>1, <1>4, <1>6, <1>7, RoutesRestricted
<1> QED
    BY <1>1, <1>8, RoutedEmptied, NextRouted DEF Routed

LEMMA NoEntriesRouted == RoutesOk(NoEntries)
BY DEF RoutesOk, NoEntries

LEMMA StartRouted == ASSUME TInv, Routed, Start PROVE Routed'
<1>1. /\ UNCHANGED <<flow, log>> /\ stack' = Execute(<<>>, flow.head, <<>>)
      /\ journal' = IF job.kind = "begin" THEN NoEntries ELSE Restrict(log, RestoredSteps)
    BY DEF Start, serverVars
<1>2. flow \in Flows /\ IsFlow(flow)
    BY FlowExecutorAssumption DEF TInv, RunOk
<1>3. flow.head \in Steps /\ flow.head # NoStep
    BY <1>2 DEF IsFlow, Steps
<1>4. ASSUME NEW k \in RestoredSteps, NEW q \in BestAis, Has(log, <<k[1], q>>, "SUCCEEDED")
      PROVE  <<k[1], q>> \in RestoredSteps
  <2>1. EnclosingLoops(<<k[1], q>>) = EnclosingLoops(k)
      BY DEF EnclosingLoops
  <2> QED
      BY <1>4, <2>1 DEF RestoredSteps, Has, IsStepRestorable
<1>5. RoutesOk(Restrict(log, RestoredSteps))
  <2>1. RestoredSteps \in SUBSET DOMAIN log
      BY DEF RestoredSteps
  <2> QED
      BY <1>4, <2>1, RoutesRestricted DEF Routed
<1>6. RoutesOk(journal')
    BY <1>1, <1>5, NoEntriesRouted
<1>7. ASSUME NEW j PROVE RoutedStack(Execute(<<>>, flow.head, <<>>), j)
  <2>1. RouteOk(j, <<>>, flow.head)
      BY <1>2, <1>3, NoRoute
  <2>2. <<>> \in Seq(Frames) /\ <<>> \in Paths
      BY DEF Paths
  <2> QED
      BY <1>2, <1>3, <2>1, <2>2, RoutedEmptied, RoutedEntered
<1> QED
    BY <1>1, <1>6, <1>7, NextRouted DEF Routed

LEMMA FlushRouted == ASSUME TInv, Routed, Flush PROVE Routed'
<1>1. UNCHANGED <<flow, journal, stack>> /\ log' = Snapshot
    BY DEF Flush, engineVars
<1>2. CASE At("calling") /\ Is("action") /\ ~Paused(Key)
  <2>1. log' = Set(Key, "RUNNING", {})
      BY <1>1, <1>2 DEF Snapshot
  <2>2. StackOk /\ stack # <<>> /\ Key = <<Top.path, Top.step>>
      BY <1>2, AtFacts
  <2>3. RouteOk(journal, Key[1], Key[2])
      BY <2>2, RoutedTop DEF RoutedFrame
  <2>4. RoutesOk(log')
      BY <1>2, <2>1, <2>2, <2>3, RoutesSet DEF Routed, BestAis, Is
  <2> QED
      BY <1>1, <2>4, NextRouted DEF Routed
<1>3. CASE ~(At("calling") /\ Is("action") /\ ~Paused(Key))
  <2>1. log' = journal
      BY <1>1, <1>3 DEF Snapshot
  <2> QED
      BY <1>1, <2>1, NextRouted DEF Routed
<1> QED
    BY <1>2, <1>3

LEMMA AroundRouted ==
    ASSUME TInv, Routed, \/ Upload \/ SendReport \/ Complete \/ Signal \/ Retry \/ Redeliver
                         \/ Kill \/ UNCHANGED vars
    PROVE  Routed'
<1>1. CASE Upload
    BY <1>1, NextRouted DEF Upload, Routed
<1>2. CASE SendReport \/ Complete \/ Signal \/ Retry \/ UNCHANGED vars
  <2>1. UNCHANGED <<flow, stack, journal, log>>
      BY <1>2 DEF SendReport, Complete, Signal, Retry, vars, engineVars, serverVars
  <2> QED
      BY <2>1, SameRoutes DEF Routed
<1>3. CASE Redeliver \/ Kill
  <2>1. UNCHANGED <<flow, log>> /\ stack' = <<>> /\ journal' = NoEntries
      BY <1>3 DEF Redeliver, Kill, serverVars
  <2> QED
      BY <2>1, NoEntriesRouted, RoutedEmptied, NextRouted DEF Routed
<1> QED
    BY <1>1, <1>2, <1>3

LEMMA RoutedStep == ASSUME DistinctRoutes, TInv, Routed, [Next]_vars PROVE Routed'
BY WalkOnRoutes, CallEndsRouted, EntersRouted, ReplayRouted, AnswerRouted, ChildRouted,
   ResolveFailsRouted, StartRouted, FlushRouted, AroundRouted DEF Next, Walk

\* Of an AI router that takes the best route, one route runs, whatever is answered, paused,
\* resumed, retried, killed or delivered twice: what is recorded behind a route, or is about
\* to run, hangs on a recorded answer that names the route, an answer names one, and no walk
\* replaces an answer, or restores what hangs on it without it.
THEOREM OneRouteRuns == DistinctRoutes => (Spec => []OneRoute)
<1> SUFFICES ASSUME DistinctRoutes PROVE Spec => []OneRoute
    OBVIOUS
<1>1. Init => Routed
    BY NoEntriesRouted, RoutedEmptied DEF Init, Routed
<1>2. TInv /\ Routed /\ [Next]_vars => Routed'
    BY RoutedStep
<1>3. TInv /\ Routed => OneRoute
  <2> SUFFICES ASSUME TInv, Routed, NEW k \in DOMAIN journal, flow.kind[k[2]] = "ai",
                      k[2] \notin flow.takesAll
               PROVE  Cardinality({n \in DOMAIN flow.children[k[2]] :
                          <<k[1], flow.children[k[2]][n]>> \in DOMAIN journal}) <= 1
      BY DEF OneRoute
  <2> DEFINE S == {n \in DOMAIN flow.children[k[2]] :
                      <<k[1], flow.children[k[2]][n]>> \in DOMAIN journal}
  <2>1. k \in Keys /\ k = <<k[1], k[2]>> /\ k[2] \in BestAis
      BY DEF TInv, EngineOk, JournalOk, Keys, BestAis
  <2>2. ASSUME NEW n \in S PROVE n \in journal[k].routes
    <3>1. RouteOk(journal, k[1], flow.children[k[2]][n])
        BY <2>2 DEF Routed, RoutesOk
    <3> QED
        BY <2>1, <2>2, <3>1 DEF RouteOk
  <2>3. \A m, n \in S : m = n
      BY <2>1, <2>2 DEF Routed, RoutesOk
  <2> HIDE DEF S
  <2>4. CASE S = {}
    <3>1. Cardinality(S) = 0
        BY <2>4, FS_EmptySet
    <3> QED
        BY <3>1 DEF S
  <2>5. CASE S # {}
    <3>1. PICK n \in S : TRUE
        BY <2>5
    <3>2. S = {n}
        BY <2>3, <3>1
    <3>3. Cardinality(S) = 1
        BY <3>2, FS_Singleton
    <3> QED
        BY <3>3 DEF S
  <2> QED
      BY <2>4, <2>5
<1> QED
    BY <1>1, <1>2, <1>3, Types, PTL DEF Spec

=============================================================================
