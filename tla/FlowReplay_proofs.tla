--------------------------- MODULE FlowReplay_proofs ---------------------------
(***************************************************************************)
(* Proofs about FlowExecutor: a job that resumes a run walks the way to    *)
(* the step that paused, and calls nothing before it.                      *)
(***************************************************************************)
EXTENDS FlowExecutor_proofs

(***************************************************************************)
(* The tree of steps.                                                      *)
(***************************************************************************)
Below(f, s) == {f.next[s]} \cup ToSet(f.children[s])

\* The loops that a step is in, and how many they are
Around(f, t) == {l \in DOMAIN f.kind : /\ f.kind[l] = "loop" /\ f.children[l][1] # NoStep
                                       /\ t \in AllSteps(f, f.children[l][1])}
Depth(f, t)  == Cardinality(Around(f, t))

\* A step hangs at one place.
LEMMA OnePlace ==
    ASSUME flow \in Flows, NEW t, t # NoStep
    PROVE  /\ \A s \in Steps : flow.next[s] # flow.head \/ flow.head = NoStep
           /\ \A s, r \in Steps : t = flow.next[s] /\ t = flow.next[r] => s = r
<1>1. \A p, q \in Places(flow) : StepAt(flow, p) = StepAt(flow, q) /\ StepAt(flow, p) # NoStep => p = q
    BY FlowExecutorAssumption DEF IsFlow
<1>2. <<NoStep, 0>> \in Places(flow) /\ StepAt(flow, <<NoStep, 0>>) = flow.head
    BY DEF Places, StepAt
<1>3. ASSUME NEW s \in Steps
      PROVE  <<s, 0>> \in Places(flow) /\ StepAt(flow, <<s, 0>>) = flow.next[s] /\ s # NoStep
    BY FlowFacts DEF Places, StepAt, Steps
<1>4. ASSUME NEW s \in Steps, flow.next[s] = flow.head, flow.head # NoStep PROVE FALSE
  <2>1. <<s, 0>> = <<NoStep, 0>>
      BY <1>1, <1>2, <1>3, <1>4
  <2> QED
      BY <1>3, <2>1
<1>5. ASSUME NEW s \in Steps, NEW r \in Steps, t = flow.next[s], t = flow.next[r] PROVE s = r
  <2>1. <<s, 0>> = <<r, 0>>
      BY <1>1, <1>3, <1>5
  <2> QED
      BY <2>1
<1> QED
    BY <1>4, <1>5

\* What is behind a step is closed, and is the least such set.
LEMMA AllStepsFacts ==
    ASSUME flow \in Flows, NEW s \in Steps
    PROVE  /\ AllSteps(flow, s) \subseteq Steps /\ s \in AllSteps(flow, s)
           /\ \A t \in AllSteps(flow, s) : Below(flow, t) \subseteq AllSteps(flow, s) \cup {NoStep}
<1>1. AllSteps(flow, s) \subseteq Steps /\ s \in AllSteps(flow, s)
    BY DEF AllSteps, Steps
<1>2. ASSUME NEW t \in AllSteps(flow, s), NEW c \in Below(flow, t), c # NoStep
      PROVE  c \in AllSteps(flow, s)
  <2>1. c \in Steps
    <3>1. t \in Steps
        BY <1>1
    <3> QED
        BY <1>2, <3>1, FlowFacts DEF Below, ToSet
  <2>2. ASSUME NEW S \in SUBSET Steps, s \in S,
               \A r \in S : Below(flow, r) \subseteq S \cup {NoStep}
        PROVE  c \in S
    <3>1. t \in S
        BY <2>2 DEF AllSteps, Below, Steps
    <3> QED
        BY <1>2, <2>2, <3>1
  <2> QED
      BY <2>1, <2>2 DEF AllSteps, Below, Steps
<1> QED
    BY <1>1, <1>2

LEMMA AllStepsLeast ==
    ASSUME NEW s \in Steps, NEW S \in SUBSET Steps, s \in S,
           \A r \in S : Below(flow, r) \subseteq S \cup {NoStep}
    PROVE  AllSteps(flow, s) \subseteq S
BY DEF AllSteps, Below, Steps

\* What is behind a step and not the step itself hangs at something behind the step.
LEMMA HasParent ==
    ASSUME flow \in Flows, NEW u \in Steps, NEW t \in AllSteps(flow, u), t # u
    PROVE  \E r \in AllSteps(flow, u) : t \in Below(flow, r)
<1> SUFFICES ASSUME \A r \in AllSteps(flow, u) : t \notin Below(flow, r) PROVE FALSE
    OBVIOUS
<1> DEFINE S == AllSteps(flow, u) \ {t}
<1>1. S \in SUBSET Steps /\ u \in S
    BY AllStepsFacts
<1>2. \A r \in S : Below(flow, r) \subseteq S \cup {NoStep}
    BY AllStepsFacts
<1> HIDE DEF S
<1>3. t \in S
    BY <1>1, <1>2, AllStepsLeast
<1> QED
    BY <1>3 DEF S

\* The head hangs at nothing, a successor or a child at one step.
LEMMA Parents ==
    ASSUME flow \in Flows, NEW s \in Steps, NEW r \in Steps
    PROVE  /\ flow.head # NoStep /\ flow.head \notin Below(flow, r)
           /\ flow.next[s] # NoStep /\ flow.next[s] \in Below(flow, r) => r = s
           /\ \A n \in DOMAIN flow.children[s] :
                 flow.children[s][n] # NoStep /\ flow.children[s][n] \in Below(flow, r) => r = s
<1>1. flow.head # NoStep
    BY FlowFacts
<1>2. flow.head \notin Below(flow, r)
  <2>1. flow.next[r] # flow.head
      BY <1>1, OnePlace
  <2>2. \A n \in DOMAIN flow.children[r] : flow.children[r][n] # flow.head
      BY <1>1, PlaceFacts
  <2> QED
      BY <2>1, <2>2 DEF Below, ToSet
<1>3. ASSUME flow.next[s] # NoStep, flow.next[s] \in Below(flow, r) PROVE r = s
  <2>1. \A n \in DOMAIN flow.children[r] : flow.children[r][n] # flow.next[s]
      BY <1>3, PlaceFacts
  <2>2. flow.next[s] = flow.next[r]
      BY <1>3, <2>1 DEF Below, ToSet
  <2> QED
      BY <1>3, <2>2, OnePlace
<1>4. ASSUME NEW n \in DOMAIN flow.children[s], flow.children[s][n] # NoStep,
             flow.children[s][n] \in Below(flow, r)
      PROVE  r = s
    BY <1>4, PlaceFacts DEF Below, ToSet
<1> QED
    BY <1>1, <1>2, <1>3, <1>4

\* No step is behind what hangs at it: everything is behind the head.
LEMMA NoCycle ==
    ASSUME flow \in Flows, NEW s \in Steps, NEW t \in Steps, t \in Below(flow, s),
           \A r \in Steps : t \in Below(flow, r) => r = s
    PROVE  s \notin AllSteps(flow, t)
<1> SUFFICES ASSUME s \in AllSteps(flow, t) PROVE FALSE
    OBVIOUS
<1> DEFINE S == Steps \ AllSteps(flow, t)
<1>1. flow.head \in Steps /\ Steps = AllSteps(flow, flow.head)
    BY FlowExecutorAssumption DEF IsFlow, Steps
<1>2. t # flow.head
    BY Parents
<1>3. flow.head \in S
  <2>1. ASSUME flow.head \in AllSteps(flow, t) PROVE FALSE
    <3>1. PICK r \in AllSteps(flow, t) : flow.head \in Below(flow, r)
        BY <1>2, <2>1, HasParent
    <3> QED
        BY <3>1, AllStepsFacts, Parents
  <2> QED
      BY <1>1, <2>1
<1>4. ASSUME NEW r \in S, NEW c \in Below(flow, r), c # NoStep PROVE c \in S
  <2>1. c \in Steps /\ r \in Steps
      BY <1>1, <1>4, AllStepsFacts
  <2>2. ASSUME c \in AllSteps(flow, t) PROVE FALSE
    <3>1. CASE c = t
        BY <1>4, <2>1, <3>1
    <3>2. CASE c # t
      <4>1. PICK q \in AllSteps(flow, t) : c \in Below(flow, q)
          BY <2>2, <3>2, HasParent
      <4>2. q \in Steps
          BY <4>1, AllStepsFacts
      <4>3. q = r
          BY <1>4, <2>1, <4>1, <4>2, Parents DEF Below, ToSet
      <4> QED
          BY <4>1, <4>3
    <3> QED
        BY <3>1, <3>2
  <2> QED
      BY <2>1, <2>2
<1> HIDE DEF S
<1>5. Steps \subseteq S
  <2>1. S \in SUBSET Steps
      BY DEF S
  <2> QED
      BY <1>1, <1>3, <1>4, <2>1, AllStepsLeast
<1> QED
    BY <1>5, AllStepsFacts DEF S

LEMMA DepthFacts ==
    ASSUME flow \in Flows
    PROVE  /\ \A t : Around(flow, t) \subseteq Loops /\ IsFiniteSet(Around(flow, t))
           /\ \A t : Depth(flow, t) \in Nat
<1>1. IsFiniteSet(Steps)
    BY FlowExecutorAssumption DEF IsFlow, Steps
<1>2. ASSUME NEW t PROVE Around(flow, t) \subseteq Loops /\ IsFiniteSet(Around(flow, t))
  <2>1. Around(flow, t) \subseteq Loops /\ Around(flow, t) \in SUBSET Steps
      BY DEF Around, Loops, Steps
  <2> QED
      BY <1>1, <2>1, FS_Subset
<1> QED
    BY <1>2, FS_CardinalityType DEF Depth

\* The loops around a step and around what hangs at it.
LEMMA AroundBelow ==
    ASSUME flow \in Flows, NEW s \in Steps, NEW t \in Steps, t \in Below(flow, s),
           \A r \in Steps : t \in Below(flow, r) => r = s
    PROVE  /\ Around(flow, s) \subseteq Around(flow, t)
           /\ \A l \in Around(flow, t) : l \in Around(flow, s) \/ (l = s /\ flow.children[l][1] = t)
           /\ PathTo(flow, t) \subseteq PathTo(flow, s) \cup {s}
           /\ s \in PathTo(flow, t)
<1>0. ASSUME NEW u \in Steps PROVE AllSteps(flow, u) \subseteq Steps /\ u \in AllSteps(flow, u)
    BY <1>0, AllStepsFacts
<1>1. ASSUME NEW u \in Steps, s \in AllSteps(flow, u) PROVE t \in AllSteps(flow, u)
  <2>1. t # NoStep
      BY FlowFacts
  <2> QED
      BY <1>1, <2>1, AllStepsFacts
<1>2. ASSUME NEW u \in Steps, u # t, t \in AllSteps(flow, u) PROVE s \in AllSteps(flow, u)
  <2>1. PICK r \in AllSteps(flow, u) : t \in Below(flow, r)
      BY <1>2, HasParent
  <2> QED
      BY <1>0, <2>1
<1>3. ASSUME NEW l \in Loops, flow.children[l][1] # NoStep
      PROVE  flow.children[l][1] \in Steps /\ flow.children[l][1] \in Below(flow, l)
  <2>1. l \in Steps /\ flow.kind[l] = "loop"
      BY DEF Loops
  <2>2. 1 \in DOMAIN flow.children[l]
      BY <2>1, FlowFacts
  <2> QED
      BY <1>3, <2>1, <2>2, FlowFacts DEF Below, ToSet
<1>4. \A u : Around(flow, u) = {l \in Loops : /\ flow.children[l][1] # NoStep
                                              /\ u \in AllSteps(flow, flow.children[l][1])}
    BY DEF Around, Loops, Steps
<1>5. Around(flow, s) \subseteq Around(flow, t)
    BY <1>1, <1>3, <1>4
<1>6. ASSUME NEW l \in Around(flow, t) PROVE l \in Around(flow, s) \/ (l = s /\ flow.children[l][1] = t)
  <2>1. l \in Loops /\ flow.children[l][1] # NoStep /\ t \in AllSteps(flow, flow.children[l][1])
      BY <1>4
  <2>2. CASE flow.children[l][1] = t
    <3>1. l = s
        BY <1>3, <2>1, <2>2 DEF Loops
    <3> QED
        BY <2>2, <3>1
  <2>3. CASE flow.children[l][1] # t
      BY <1>2, <1>3, <1>4, <2>1, <2>3
  <2> QED
      BY <2>2, <2>3
<1>7. PathTo(flow, t) \subseteq PathTo(flow, s) \cup {s}
    BY <1>2 DEF PathTo, Steps
<1>8. s # t
    BY <1>0, NoCycle
<1>9. s \in PathTo(flow, t)
    BY <1>0, <1>1, <1>8 DEF PathTo, Steps
<1> QED
    BY <1>5, <1>6, <1>7, <1>9

\* Where the flow begins.
LEMMA WayFromHead ==
    ASSUME flow \in Flows
    PROVE  flow.head \in Steps /\ PathTo(flow, flow.head) = {} /\ Depth(flow, flow.head) = 0
<1>1. flow.head \in Steps
    BY FlowExecutorAssumption DEF IsFlow, Steps
<1>2. ASSUME NEW u \in Steps, u # flow.head, flow.head \in AllSteps(flow, u) PROVE FALSE
  <2>1. PICK r \in AllSteps(flow, u) : flow.head \in Below(flow, r)
      BY <1>2, HasParent
  <2> QED
      BY <2>1, AllStepsFacts, Parents
<1>3. PathTo(flow, flow.head) = {}
    BY <1>2 DEF PathTo, Steps
<1>4. ASSUME NEW l \in Around(flow, flow.head) PROVE FALSE
  <2>1. l \in Steps /\ flow.kind[l] = "loop" /\ flow.children[l][1] # NoStep
        /\ flow.head \in AllSteps(flow, flow.children[l][1])
      BY DEF Around, Steps
  <2>2. 1 \in DOMAIN flow.children[l] /\ flow.children[l][1] \in Steps
      BY <2>1, FlowFacts
  <2>3. flow.children[l][1] # flow.head
      BY <2>1, <2>2, PlaceFacts
  <2> QED
      BY <1>2, <2>1, <2>2, <2>3
<1>5. Around(flow, flow.head) = {}
    BY <1>4
<1> QED
    BY <1>1, <1>3, <1>5, FS_EmptySet DEF Depth

\* After a step, or in a branch of it.
LEMMA WayOn ==
    ASSUME flow \in Flows, NEW s \in Steps, NEW t, t # NoStep,
           \/ t = flow.next[s]
           \/ flow.kind[s] # "loop" /\ \E n \in DOMAIN flow.children[s] : t = flow.children[s][n]
    PROVE  /\ t \in Steps /\ PathTo(flow, t) \subseteq PathTo(flow, s) \cup {s}
           /\ s \in PathTo(flow, t) /\ Depth(flow, t) = Depth(flow, s)
<1>1. t \in Steps /\ t \in Below(flow, s)
    BY FlowFacts DEF Below, ToSet
<1>2. \A r \in Steps : t \in Below(flow, r) => r = s
    BY Parents
<1>3. ASSUME flow.kind[s] = "loop" PROVE flow.children[s][1] # t
  <2>1. 1 \in DOMAIN flow.children[s] /\ t = flow.next[s]
      BY <1>3, FlowFacts
  <2> QED
      BY <2>1, PlaceFacts
<1>4. \A l \in Around(flow, t) : flow.kind[l] = "loop"
    BY DEF Around
<1>5. /\ Around(flow, s) \subseteq Around(flow, t)
      /\ \A l \in Around(flow, t) : l \in Around(flow, s) \/ (l = s /\ flow.children[l][1] = t)
      /\ PathTo(flow, t) \subseteq PathTo(flow, s) \cup {s} /\ s \in PathTo(flow, t)
    BY <1>1, <1>2, AroundBelow
<1>6. Around(flow, t) = Around(flow, s)
    BY <1>3, <1>4, <1>5
<1> QED
    BY <1>1, <1>5, <1>6 DEF Depth

\* In a loop.
LEMMA WayIn ==
    ASSUME flow \in Flows, NEW s \in Loops, NEW t, t # NoStep, t = flow.children[s][1]
    PROVE  /\ t \in Steps /\ PathTo(flow, t) \subseteq PathTo(flow, s) \cup {s}
           /\ Depth(flow, t) = Depth(flow, s) + 1
<1>0. s \in Steps /\ flow.kind[s] = "loop"
    BY DEF Loops
<1>1. t \in Steps /\ t \in Below(flow, s) /\ 1 \in DOMAIN flow.children[s]
    BY <1>0, FlowFacts DEF Below, ToSet
<1>2. \A r \in Steps : t \in Below(flow, r) => r = s
    BY <1>0, <1>1, Parents
<1>3. s \notin AllSteps(flow, t)
    BY <1>0, <1>1, <1>2, NoCycle
<1>4. s \notin Around(flow, s)
    BY <1>3 DEF Around
<1>5. s \in Around(flow, t)
    BY <1>0, <1>1, AllStepsFacts DEF Around, Steps
<1>6. Around(flow, t) = Around(flow, s) \cup {s}
    BY <1>0, <1>1, <1>2, <1>5, AroundBelow
<1>7. Cardinality(Around(flow, s) \cup {s}) = Cardinality(Around(flow, s)) + 1
    BY <1>4, DepthFacts, FS_AddElement
<1> QED
    BY <1>0, <1>1, <1>2, <1>6, <1>7, AroundBelow DEF Depth

(***************************************************************************)
(* What is behind the walk.                                                *)
(***************************************************************************)
KeyOf(fr) == <<fr.path, fr.step>>

\* Passed, Paused in a given journal
PassedIn(f, j, k) == Has(j, k, "SUCCEEDED") \/ (Has(j, k, "FAILED") /\ k[2] \in f.continues)
PausedIn(j)       == {k \in DOMAIN j : j[k].status = "PAUSED"}

\* Nothing has failed that may not fail, or is at work; actions and AI routers wait
Clean(f, j) == \A k \in DOMAIN j :
    PassedIn(f, j, k) \/ (j[k].status = "PAUSED" /\ f.kind[k[2]] \in {"action", "ai"})

\* Steps are recorded as deep as they are, and no skipped ones
Placed(f, j) == \A k \in DOMAIN j : k[2] \notin f.skipped /\ Len(k[1]) = Depth(f, k[2])

\* The steps on the way to a frame were passed, in the iterations around it; where its
\* children are at work, so was its own
Behind(f, fr, j) ==
    /\ Len(fr.path) = Depth(f, fr.step)
    /\ \A s \in PathTo(f, fr.step) :
          /\ Depth(f, s) <= Len(fr.path)
          /\ s \notin f.skipped => PassedIn(f, j, <<SubSeq(fr.path, 1, Depth(f, s)), s>>)
    /\ fr.at # "enter" => fr.step \notin f.skipped
    /\ fr.at \in {"handled", "inside", "left"} => PassedIn(f, j, KeyOf(fr))

\* What was passed in j was in k, and the answers of AI routers are the same
StaysPassed(f, j, k) ==
    \A x \in DOMAIN j : PassedIn(f, j, x) =>
        /\ x \in DOMAIN k /\ k[x].status = j[x].status
        /\ f.kind[x[2]] = "ai" => k[x].routes = j[x].routes

LEMMA PassedStays ==
    ASSUME NEW f, NEW j, NEW k, StaysPassed(f, j, k), NEW x, PassedIn(f, j, x)
    PROVE  PassedIn(f, k, x)
BY DEF StaysPassed, PassedIn, Has

LEMMA BehindStays ==
    ASSUME NEW f, NEW j, NEW k, StaysPassed(f, j, k), NEW fr, Behind(f, fr, j)
    PROVE  Behind(f, fr, k)
BY PassedStays DEF Behind

LEMMA StaysItself == ASSUME NEW f, NEW j PROVE StaysPassed(f, j, j)
BY DEF StaysPassed

\* An entry is set of a step that was not passed, or of a router again.
LEMMA StaysSet ==
    ASSUME NEW f, NEW k, NEW s, NEW r,
           \/ ~PassedIn(f, journal, k)
           \/ journal[k].status = s /\ f.kind[k[2]] # "ai"
    PROVE  StaysPassed(f, journal, Set(k, s, r))
<1> DEFINE j == Set(k, s, r)
<1>1. /\ DOMAIN j = DOMAIN journal \cup {k} /\ j[k].status = s
      /\ \A x \in DOMAIN journal : x # k => j[x] = journal[x]
    BY DEF Set, Entry
<1> HIDE DEF j
<1>2. StaysPassed(f, journal, j)
    BY <1>1 DEF StaysPassed
<1> QED
    BY <1>2 DEF j

LEMMA CleanSet ==
    ASSUME NEW f, NEW k, NEW s, NEW r, Clean(f, journal),
           \/ s = "SUCCEEDED" \/ (s = "FAILED" /\ k[2] \in f.continues)
           \/ s = "PAUSED" /\ f.kind[k[2]] \in {"action", "ai"}
    PROVE  Clean(f, Set(k, s, r))
<1> DEFINE j == Set(k, s, r)
<1>1. /\ DOMAIN j = DOMAIN journal \cup {k} /\ j[k].status = s
      /\ \A x \in DOMAIN journal : x # k => j[x] = journal[x]
    BY DEF Set, Entry
<1> HIDE DEF j
<1>2. Clean(f, j)
    BY <1>1 DEF Clean, PassedIn, Has
<1> QED
    BY <1>2 DEF j

LEMMA PlacedSet ==
    ASSUME NEW f, NEW k, NEW s, NEW r, Placed(f, journal), k[2] \notin f.skipped,
           Len(k[1]) = Depth(f, k[2])
    PROVE  Placed(f, Set(k, s, r))
BY DEF Placed, Set, Entry

LEMMA PausedSet ==
    ASSUME NEW k, NEW s, NEW r
    PROVE  PausedIn(Set(k, s, r)) = (PausedIn(journal) \ {k}) \cup (IF s = "PAUSED" THEN {k} ELSE {})
<1> DEFINE j == Set(k, s, r)
<1>1. /\ DOMAIN j = DOMAIN journal \cup {k} /\ j[k].status = s
      /\ \A x \in DOMAIN journal : x # k => j[x] = journal[x]
    BY DEF Set, Entry
<1> HIDE DEF j
<1>2. PausedIn(j) = (PausedIn(journal) \ {k}) \cup (IF s = "PAUSED" THEN {k} ELSE {})
    BY <1>1 DEF PausedIn
<1> QED
    BY <1>2 DEF j

\* The iterations around a step in a loop begin with those around the loop.
LEMMA PathFacts ==
    ASSUME NEW S, NEW p \in Seq(S)
    PROVE  Len(p) \in Nat /\ SubSeq(p, 1, Len(p)) = p
OBVIOUS

LEMMA IterationsAround ==
    ASSUME NEW S, NEW p \in Seq(S), NEW d \in Nat, d <= Len(p), NEW x \in S
    PROVE  SubSeq(Append(p, x), 1, d) = SubSeq(p, 1, d) /\ Len(Append(p, x)) = Len(p) + 1
<1> DEFINE q == Append(p, x)
<1>1. q \in Seq(S) /\ Len(q) = Len(p) + 1 /\ Len(p) \in Nat /\ \A n \in 1..Len(p) : q[n] = p[n]
    OBVIOUS
<1> HIDE DEF q
<1>2. SubSeq(q, 1, d) = SubSeq(p, 1, d)
    BY <1>1
<1> QED
    BY <1>1, <1>2 DEF q

\* A frame that begins after a step that was passed, or in a branch of it.
LEMMA BehindOn ==
    ASSUME flow \in Flows, NEW j, NEW fr \in Frames, Behind(flow, fr, j),
           fr.step \notin flow.skipped => PassedIn(flow, j, KeyOf(fr)),
           NEW t, t # NoStep,
           \/ t = flow.next[fr.step]
           \/ flow.kind[fr.step] # "loop" /\ \E n \in DOMAIN flow.children[fr.step] :
                                                  t = flow.children[fr.step][n]
    PROVE  Behind(flow, Frame(t, fr.path), j)
<1>1. fr.step \in Steps /\ fr.path \in Paths
    BY DEF Frames
<1>2. /\ PathTo(flow, t) \subseteq PathTo(flow, fr.step) \cup {fr.step}
      /\ Depth(flow, t) = Depth(flow, fr.step)
    BY <1>1, WayOn
<1>3. Len(fr.path) = Depth(flow, fr.step) /\ Len(fr.path) \in Nat
      /\ SubSeq(fr.path, 1, Depth(flow, fr.step)) = fr.path
    BY <1>1, PathFacts DEF Behind, Paths
<1>4. ASSUME NEW s \in PathTo(flow, t)
      PROVE  /\ Depth(flow, s) <= Len(fr.path)
             /\ s \notin flow.skipped => PassedIn(flow, j, <<SubSeq(fr.path, 1, Depth(flow, s)), s>>)
  <2>1. CASE s = fr.step
    <3>1. Depth(flow, s) = Len(fr.path) /\ <<SubSeq(fr.path, 1, Depth(flow, s)), s>> = KeyOf(fr)
        BY <1>3, <2>1 DEF KeyOf
    <3>2. Depth(flow, s) <= Len(fr.path)
        BY <1>3, <3>1
    <3> QED
        BY <2>1, <3>1, <3>2
  <2>2. CASE s \in PathTo(flow, fr.step)
      BY <2>2 DEF Behind
  <2> QED
      BY <1>2, <2>1, <2>2
<1> QED
    BY <1>2, <1>3, <1>4 DEF Behind, Frame

\* A frame that begins in an iteration of a loop.
LEMMA BehindIn ==
    ASSUME flow \in Flows, NEW j, NEW fr \in Frames, Behind(flow, fr, j),
           PassedIn(flow, j, KeyOf(fr)), flow.kind[fr.step] = "loop",
           NEW t, t # NoStep, t = flow.children[fr.step][1], NEW x \in Loops \X Nat
    PROVE  Behind(flow, Frame(t, Append(fr.path, x)), j)
<1>1. fr.step \in Loops /\ fr.path \in Paths
    BY DEF Frames, Loops
<1>2. /\ PathTo(flow, t) \subseteq PathTo(flow, fr.step) \cup {fr.step}
      /\ Depth(flow, t) = Depth(flow, fr.step) + 1
    BY <1>1, WayIn
<1>3. /\ Len(fr.path) = Depth(flow, fr.step) /\ Len(fr.path) \in Nat
      /\ SubSeq(fr.path, 1, Depth(flow, fr.step)) = fr.path
      /\ Len(Append(fr.path, x)) = Len(fr.path) + 1
    BY <1>1, PathFacts DEF Behind, Paths
<1>4. ASSUME NEW s \in PathTo(flow, t)
      PROVE  /\ Depth(flow, s) <= Len(fr.path) + 1
             /\ s \notin flow.skipped =>
                    PassedIn(flow, j, <<SubSeq(Append(fr.path, x), 1, Depth(flow, s)), s>>)
  <2>1. Depth(flow, s) \in Nat
      BY DepthFacts
  <2>2. /\ Depth(flow, s) <= Len(fr.path)
        /\ s \notin flow.skipped => PassedIn(flow, j, <<SubSeq(fr.path, 1, Depth(flow, s)), s>>)
    <3>1. CASE s = fr.step
      <4>1. Depth(flow, s) = Len(fr.path) /\ <<SubSeq(fr.path, 1, Depth(flow, s)), s>> = KeyOf(fr)
          BY <1>3, <3>1 DEF KeyOf
      <4>2. Depth(flow, s) <= Len(fr.path)
          BY <1>3, <4>1
      <4> QED
          BY <3>1, <4>1, <4>2
    <3>2. CASE s \in PathTo(flow, fr.step)
        BY <3>2 DEF Behind
    <3> QED
        BY <1>2, <3>1, <3>2
  <2>3. SubSeq(Append(fr.path, x), 1, Depth(flow, s)) = SubSeq(fr.path, 1, Depth(flow, s))
      BY <1>1, <2>1, <2>2, IterationsAround DEF Paths
  <2>4. Depth(flow, s) <= Len(fr.path) + 1
      BY <1>3, <2>1, <2>2
  <2> QED
      BY <2>2, <2>3, <2>4
<1> QED
    BY <1>2, <1>3, <1>4 DEF Behind, Frame

\* The frames of a stack, of which the innermost goes on.
StackBehind(f, st, j) == \A n \in 1..Len(st) : Behind(f, st[n], j)

LEMMA BehindTurned ==
    ASSUME StackOk, stack # <<>>, NEW j, StackBehind(flow, stack, journal),
           StaysPassed(flow, journal, j), NEW fr \in Frames, Behind(flow, fr, j)
    PROVE  StackBehind(flow, Become(fr), j)
<1> DEFINE st == Become(fr)
<1>0. stack \in Seq(Frames)
    BY DEF StackOk, StackIs
<1>1. /\ st \in Seq(Frames) /\ Len(st) = Len(stack) /\ Len(stack) \in Nat \ {0}
      /\ st[Len(stack)] = fr /\ \A n \in 1..Len(stack) - 1 : st[n] = stack[n]
  <2>1. Len(stack) \in Nat \ {0}
      BY <1>0
  <2> QED
      BY <1>0, <2>1, BecomeFacts
<1> HIDE DEF st
<1>2. ASSUME NEW n \in 1..Len(st) PROVE Behind(flow, st[n], j)
  <2>1. CASE n = Len(stack)
      BY <1>1, <2>1
  <2>2. CASE n \in 1..Len(stack) - 1
    <3>1. st[n] = stack[n] /\ Behind(flow, stack[n], journal)
        BY <1>1, <2>2 DEF StackBehind
    <3> QED
        BY <3>1, BehindStays
  <2> QED
      BY <1>1, <2>1, <2>2
<1> QED
    BY <1>2 DEF StackBehind, st

LEMMA BehindEntered ==
    ASSUME flow \in Flows, NEW st \in Seq(Frames), NEW j, StackBehind(flow, st, j),
           NEW s \in Steps \cup {NoStep}, NEW p \in Paths,
           s # NoStep => Behind(flow, Frame(s, p), j)
    PROVE  StackBehind(flow, Execute(st, s, p), j)
<1> DEFINE x == Execute(st, s, p)
<1>1. CASE s = NoStep
    BY <1>1 DEF Execute
<1>2. CASE s # NoStep
  <2>1. /\ Len(st) \in Nat /\ Len(x) = Len(st) + 1 /\ x[Len(st) + 1] = Frame(s, p)
        /\ \A n \in 1..Len(st) : x[n] = st[n]
      BY <1>2, ExecuteFacts
  <2> HIDE DEF x
  <2>2. ASSUME NEW n \in 1..Len(x) PROVE Behind(flow, x[n], j)
    <3>1. n = Len(st) + 1 \/ n \in 1..Len(st)
        BY <2>1
    <3> QED
        BY <1>2, <2>1, <3>1 DEF StackBehind
  <2> QED
      BY <2>2 DEF StackBehind, x
<1> QED
    BY <1>1, <1>2

LEMMA BehindPast ==
    ASSUME flow \in Flows, StackOk, stack # <<>>, StackBehind(flow, stack, journal),
           Top.step \notin flow.skipped => PassedIn(flow, journal, Key)
    PROVE  StackBehind(flow, Past, journal)
<1> DEFINE r == Front(stack)
           c == flow.next[Top.step]
<1>1. /\ r \in Seq(Frames) /\ Len(r) = Len(stack) - 1 /\ Len(stack) \in Nat \ {0}
      /\ \A n \in 1..Len(stack) - 1 : r[n] = stack[n]
    BY FrontFacts DEF StackOk, StackIs
<1> HIDE DEF r
<1>2. StackBehind(flow, r, journal)
    BY <1>1 DEF StackBehind
<1>3. /\ c \in Steps \cup {NoStep} /\ Top.path \in Paths /\ Top.step \in Steps /\ Top \in Frames
      /\ Key = KeyOf(Top)
    BY TopFacts, FlowFacts DEF Frames, Key, KeyOf
<1>4. Behind(flow, Top, journal)
    BY <1>1, TopFacts DEF StackBehind
<1>5. c # NoStep => Behind(flow, Frame(c, Top.path), journal)
    BY <1>3, <1>4, BehindOn
<1> HIDE DEF c
<1>6. StackBehind(flow, Execute(r, c, Top.path), journal)
    BY <1>1, <1>2, <1>3, <1>5, BehindEntered
<1> QED
    BY <1>6 DEF Past, r, c

(***************************************************************************)
(* The walk over a journal.  It does not depend on how often a step was    *)
(* attempted, nor, once a step was passed, on whether it was called.       *)
(***************************************************************************)
Bare(fr)      == [step |-> fr.step, path |-> fr.path, i |-> 0, todo |-> fr.todo,
                  at |-> IF fr.at = "calling" THEN "enter" ELSE fr.at]
BareStack(st) == [n \in 1..Len(st) |-> Bare(st[n])]

\* Seen and Matching of a given journal and frame
SeenOver(j, p, s) ==
    LET levels == {n \in 0..Len(p) : <<SubSeq(p, 1, n), s>> \in DOMAIN j}
    IN IF levels = {} THEN "nothing" ELSE j[<<SubSeq(p, 1, Max(levels)), s>>].status

HoldsOver(f, fr, j) ==
    {n \in DOMAIN f.choices[fr.step] :
        f.choices[fr.step][n].on \in {"fallback", SeenOver(j, fr.path, f.choices[fr.step][n].of)}}

MatchingOver(f, fr, j) ==
    {n \in HoldsOver(f, fr, j) :
        f.choices[fr.step][n].on = "fallback" => HoldsOver(f, fr, j) = {n}}

\* The children that a loop or a router that was passed turns to
Chosen(f, fr, j) ==
    CASE f.kind[fr.step] = "loop"   -> 1..f.items[fr.step]
      [] f.kind[fr.step] = "ai"     -> j[KeyOf(fr)].routes
      [] f.kind[fr.step] = "router" -> IF fr.step \in f.takesAll THEN MatchingOver(f, fr, j)
                                       ELSE FirstOf(MatchingOver(f, fr, j))

\* A step that was passed is entered
Entering(f, fr, j) == IF f.kind[fr.step] = "action" THEN [fr EXCEPT !.at = "handled"]
                      ELSE [fr EXCEPT !.at = "inside", !.todo = Chosen(f, fr, j)]

Branch(f, fr, j) == f.children[fr.step][IF Has(j, KeyOf(fr), "FAILED") THEN 2 ELSE 1]
Child(f, fr, n)  == f.children[fr.step][IF f.kind[fr.step] = "loop" THEN 1 ELSE n]
Inward(f, fr, n) == IF f.kind[fr.step] = "loop" THEN Append(fr.path, <<fr.step, n>>) ELSE fr.path

Turn(st, fr) == Append(Front(st), fr)

\* The next stack of a walk that calls nothing
After(f, st, j) ==
    LET fr == Last(st)
    IN IF fr.at = "enter" /\ fr.step \notin f.skipped
       THEN Turn(st, Entering(f, fr, j))
       ELSE IF fr.at = "handled" /\ fr.step \in f.continues
       THEN Execute(Turn(st, [fr EXCEPT !.at = "left"]), Branch(f, fr, j), fr.path)
       ELSE IF fr.at = "inside" /\ fr.todo # {}
       THEN Execute(Turn(st, [fr EXCEPT !.todo = @ \ {Min(fr.todo)}]), Child(f, fr, Min(fr.todo)),
                    Inward(f, fr, Min(fr.todo)))
       ELSE Execute(Front(st), f.next[fr.step], fr.path)

\* There the walk calls nothing
Passes(f, st, j) ==
    /\ st # <<>> /\ Behind(f, Last(st), j)
    /\ Last(st).at = "enter" /\ Last(st).step \notin f.skipped =>
          /\ f.kind[Last(st).step] = "action" => PassedIn(f, j, KeyOf(Last(st)))
          /\ f.kind[Last(st).step] = "ai" => Has(j, KeyOf(Last(st)), "SUCCEEDED")

LEMMA BareFacts ==
    ASSUME NEW fr \in Frames
    PROVE  /\ Bare(fr) \in Frames /\ Bare(fr).step = fr.step /\ Bare(fr).path = fr.path
           /\ Bare(fr).todo = fr.todo /\ Bare(fr).i = 0
           /\ Bare(fr).at = IF fr.at = "calling" THEN "enter" ELSE fr.at
           /\ KeyOf(Bare(fr)) = KeyOf(fr)
BY DEF Bare, Frames, KeyOf

\* Frames are equal if their fields are.
LEMMA FrameEqual ==
    ASSUME NEW a \in Frames, NEW b \in Frames, a.step = b.step, a.path = b.path, a.at = b.at,
           a.i = b.i, a.todo = b.todo
    PROVE  a = b
BY DEF Frames

LEMMA BareStackFacts ==
    ASSUME NEW st \in Seq(Frames)
    PROVE  /\ BareStack(st) \in Seq(Frames) /\ Len(BareStack(st)) = Len(st) /\ Len(st) \in Nat
           /\ \A n \in 1..Len(st) : BareStack(st)[n] = Bare(st[n])
<1>1. Len(st) \in Nat /\ \A n \in 1..Len(st) : st[n] \in Frames
    OBVIOUS
<1>2. \A n \in 1..Len(st) : Bare(st[n]) \in Frames
    BY <1>1, BareFacts
<1> QED
    BY <1>1, <1>2 DEF BareStack

LEMMA BareLast ==
    ASSUME NEW st \in Seq(Frames), st # <<>>
    PROVE  /\ BareStack(st) # <<>> /\ Last(BareStack(st)) = Bare(Last(st)) /\ Last(st) \in Frames
           /\ Front(BareStack(st)) = BareStack(Front(st))
           /\ Front(st) \in Seq(Frames)
<1> DEFINE b == BareStack(st)
<1>1. b \in Seq(Frames) /\ Len(b) = Len(st) /\ \A n \in 1..Len(st) : b[n] = Bare(st[n])
    BY BareStackFacts
<1>2. Len(st) \in Nat \ {0} /\ st[Len(st)] \in Frames
    OBVIOUS
<1> HIDE DEF b
<1>3. b # <<>>
    BY <1>1, <1>2
<1>4. Last(b) = Bare(Last(st)) /\ Last(st) \in Frames
    BY <1>1, <1>2 DEF Last
<1>5. /\ Front(st) \in Seq(Frames) /\ Len(Front(st)) = Len(st) - 1
      /\ \A n \in 1..Len(st) - 1 : Front(st)[n] = st[n]
    BY FrontFacts
<1>6. /\ Front(b) \in Seq(Frames) /\ Len(Front(b)) = Len(st) - 1
      /\ \A n \in 1..Len(st) - 1 : Front(b)[n] = b[n]
    BY <1>1, <1>3, FrontFacts
<1>7. /\ BareStack(Front(st)) \in Seq(Frames) /\ Len(BareStack(Front(st))) = Len(st) - 1
      /\ \A n \in 1..Len(st) - 1 : BareStack(Front(st))[n] = Bare(st[n])
    BY <1>5, BareStackFacts
<1>8. Front(b) = BareStack(Front(st))
  <2>1. \A n \in 1..Len(Front(b)) : Front(b)[n] = BareStack(Front(st))[n]
      BY <1>1, <1>2, <1>6, <1>7
  <2> QED
      BY <1>6, <1>7, <2>1, SeqEqual
<1> QED
    BY <1>3, <1>4, <1>5, <1>8 DEF b

LEMMA BareAppend ==
    ASSUME NEW st \in Seq(Frames), NEW fr \in Frames
    PROVE  BareStack(Append(st, fr)) = Append(BareStack(st), Bare(fr))
<1> DEFINE a == Append(st, fr)
           b == Append(BareStack(st), Bare(fr))
<1>1. /\ a \in Seq(Frames) /\ Len(a) = Len(st) + 1 /\ Len(st) \in Nat /\ a[Len(st) + 1] = fr
      /\ \A n \in 1..Len(st) : a[n] = st[n]
    OBVIOUS
<1>2. /\ BareStack(st) \in Seq(Frames) /\ Len(BareStack(st)) = Len(st) /\ Bare(fr) \in Frames
      /\ \A n \in 1..Len(st) : BareStack(st)[n] = Bare(st[n])
    BY BareFacts, BareStackFacts
<1>3. /\ b \in Seq(Frames) /\ Len(b) = Len(st) + 1 /\ b[Len(st) + 1] = Bare(fr)
      /\ \A n \in 1..Len(st) : b[n] = Bare(st[n])
    BY <1>2
<1> HIDE DEF a, b
<1>4. /\ BareStack(a) \in Seq(Frames) /\ Len(BareStack(a)) = Len(st) + 1
      /\ \A n \in 1..Len(st) + 1 : BareStack(a)[n] = Bare(a[n])
    BY <1>1, BareStackFacts
<1>5. ASSUME NEW n \in 1..Len(st) + 1 PROVE BareStack(a)[n] = b[n]
  <2>1. n = Len(st) + 1 \/ n \in 1..Len(st)
      BY <1>1
  <2> QED
      BY <1>1, <1>3, <1>4, <2>1
<1>6. BareStack(a) = b
    BY <1>3, <1>4, <1>5, SeqEqual
<1> QED
    BY <1>6 DEF a, b

LEMMA BareTurn ==
    ASSUME NEW st \in Seq(Frames), st # <<>>, NEW fr \in Frames
    PROVE  BareStack(Turn(st, fr)) = Turn(BareStack(st), Bare(fr)) /\ Turn(st, fr) \in Seq(Frames)
<1>1. Front(st) \in Seq(Frames) /\ Front(BareStack(st)) = BareStack(Front(st))
    BY BareLast
<1>2. BareStack(Append(Front(st), fr)) = Append(BareStack(Front(st)), Bare(fr))
    BY <1>1, BareAppend
<1> QED
    BY <1>1, <1>2 DEF Turn

LEMMA BareExecute ==
    ASSUME NEW st \in Seq(Frames), NEW s \in Steps \cup {NoStep}, NEW p \in Paths
    PROVE  BareStack(Execute(st, s, p)) = Execute(BareStack(st), s, p)
<1>1. CASE s = NoStep
    BY <1>1 DEF Execute
<1>2. CASE s # NoStep
  <2>1. Frame(s, p) \in Frames /\ Bare(Frame(s, p)) = Frame(s, p)
    <3>1. Frame(s, p) \in Frames
        BY <1>2 DEF Frame, Frames
    <3>2. Bare(Frame(s, p)) = Frame(s, p)
        BY DEF Frame, Bare
    <3> QED
        BY <3>1, <3>2
  <2> DEFINE fr == Frame(s, p)
  <2> HIDE DEF fr
  <2>2. BareStack(Append(st, fr)) = Append(BareStack(st), fr)
      BY <2>1, BareAppend DEF fr
  <2> QED
      BY <1>2, <2>2 DEF Execute, fr
<1> QED
    BY <1>1, <1>2

\* What a router before which everything was passed sees of a step on the way to it.
LEMMA SeenStays ==
    ASSUME flow \in Flows, NEW fr \in Frames, NEW j, NEW k, Behind(flow, fr, j),
           Placed(flow, j), Placed(flow, k), StaysPassed(flow, j, k), NEW s \in PathTo(flow, fr.step)
    PROVE  SeenOver(k, fr.path, s) = SeenOver(j, fr.path, s)
<1> DEFINE p    == fr.path
           d    == Depth(flow, s)
           x    == <<SubSeq(p, 1, d), s>>
           L(i) == {n \in 0..Len(p) : <<SubSeq(p, 1, n), s>> \in DOMAIN i}
<1>1. /\ d \in Nat /\ d <= Len(p) /\ p \in Paths /\ Len(p) \in Nat
      /\ s \notin flow.skipped => PassedIn(flow, j, x)
    BY DepthFacts, PathFacts DEF Behind, Frames, Paths
<1>2. ASSUME NEW n \in 0..Len(p) PROVE Len(SubSeq(p, 1, n)) = n
    BY <1>1 DEF Paths
<1>3. ASSUME NEW i, Placed(flow, i)
      PROVE  /\ L(i) \subseteq {d}
             /\ s \in flow.skipped => L(i) = {}
  <2> SUFFICES ASSUME NEW n \in L(i) PROVE n = d /\ s \notin flow.skipped
      OBVIOUS
  <2>1. Len(SubSeq(p, 1, n)) = d /\ s \notin flow.skipped
      BY <1>3 DEF Placed
  <2> QED
      BY <1>2, <2>1
<1>4. CASE s \in flow.skipped
  <2>1. L(j) = {} /\ L(k) = {}
      BY <1>3, <1>4
  <2> QED
      BY <2>1 DEF SeenOver
<1>5. CASE s \notin flow.skipped
  <2>1. x \in DOMAIN j /\ x \in DOMAIN k /\ k[x].status = j[x].status
      BY <1>1, <1>5 DEF StaysPassed, PassedIn, Has
  <2>2. L(j) = {d} /\ L(k) = {d}
    <3>1. d \in L(j) /\ d \in L(k)
        BY <1>1, <2>1
    <3>2. L(j) \subseteq {d} /\ L(k) \subseteq {d}
        BY <1>3
    <3> HIDE DEF L
    <3> QED
        BY <3>1, <3>2
  <2>3. Max({d}) = d
    <3>1. \E m \in {d} : \A n \in {d} : m >= n
        BY <1>1
    <3> QED
        BY <3>1 DEF Max
  <2>4. SeenOver(j, p, s) = j[x].status /\ SeenOver(k, p, s) = k[x].status
    <3>1. ASSUME NEW i, L(i) = {d} PROVE SeenOver(i, p, s) = i[x].status
      <4>1. SeenOver(i, p, s) = IF L(i) = {} THEN "nothing" ELSE i[<<SubSeq(p, 1, Max(L(i))), s>>].status
          BY DEF SeenOver
      <4> HIDE DEF L, d
      <4>2. L(i) # {} /\ Max(L(i)) = d
          BY <2>3, <3>1
      <4> QED
          BY <4>1, <4>2
    <3> HIDE DEF L, d, x
    <3> QED
        BY <2>2, <3>1
  <2> QED
      BY <2>1, <2>4
<1> QED
    BY <1>4, <1>5

\* So its conditions hold as before.
LEMMA MatchingStays ==
    ASSUME RoutersLookBack, flow \in Flows, NEW fr \in Frames, flow.kind[fr.step] = "router",
           NEW j, NEW k, Behind(flow, fr, j), Placed(flow, j), Placed(flow, k), StaysPassed(flow, j, k)
    PROVE  MatchingOver(flow, fr, k) = MatchingOver(flow, fr, j)
<1>1. fr.step \in DOMAIN flow.kind
    BY DEF Frames, Steps
<1>2. ASSUME NEW n \in DOMAIN flow.choices[fr.step]
      PROVE  \/ flow.choices[fr.step][n].on = "fallback"
             \/ SeenOver(k, fr.path, flow.choices[fr.step][n].of)
                    = SeenOver(j, fr.path, flow.choices[fr.step][n].of)
    BY <1>1, SeenStays DEF RoutersLookBack
<1>3. HoldsOver(flow, fr, k) = HoldsOver(flow, fr, j)
    BY <1>2 DEF HoldsOver
<1> QED
    BY <1>3 DEF MatchingOver

\* Where a walk calls nothing it goes the same way over a journal in which more is passed.
LEMMA AfterStays ==
    ASSUME RoutersLookBack, flow \in Flows, NEW st \in Seq(Frames), NEW j, NEW k,
           Placed(flow, j), Placed(flow, k), StaysPassed(flow, j, k), Passes(flow, st, j)
    PROVE  Passes(flow, st, k) /\ After(flow, st, k) = After(flow, st, j)
<1> DEFINE fr == Last(st)
<1>1. st # <<>> /\ Behind(flow, fr, j)
    BY DEF Passes
<1>2. fr \in Frames
    BY <1>1, BareLast
<1> HIDE DEF fr
<1>3. Behind(flow, fr, k)
    BY <1>1, BehindStays
<1>4. flow.kind[fr.step] \in Kinds
    BY <1>2, FlowFacts DEF Frames
<1>5. KeyOf(fr)[2] = fr.step
    BY DEF KeyOf
<1>6. CASE fr.at = "enter" /\ fr.step \notin flow.skipped
  <2>1. /\ flow.kind[fr.step] = "action" => PassedIn(flow, j, KeyOf(fr))
        /\ flow.kind[fr.step] = "ai" => Has(j, KeyOf(fr), "SUCCEEDED")
      BY <1>6 DEF Passes, fr
  <2>2. /\ flow.kind[fr.step] = "action" => PassedIn(flow, k, KeyOf(fr))
        /\ flow.kind[fr.step] = "ai" => /\ Has(k, KeyOf(fr), "SUCCEEDED")
                                        /\ k[KeyOf(fr)].routes = j[KeyOf(fr)].routes
    <3>1. CASE flow.kind[fr.step] = "action"
        BY <2>1, <3>1, PassedStays
    <3>2. CASE flow.kind[fr.step] = "ai"
      <4>1. Has(j, KeyOf(fr), "SUCCEEDED") /\ PassedIn(flow, j, KeyOf(fr))
          BY <2>1, <3>2 DEF PassedIn
      <4> QED
          BY <1>5, <3>2, <4>1 DEF StaysPassed, Has
    <3> QED
        BY <3>1, <3>2
  <2>3. Passes(flow, st, k)
      BY <1>1, <1>3, <2>2 DEF Passes, fr
  <2>4. Entering(flow, fr, k) = Entering(flow, fr, j)
    <3>1. CASE flow.kind[fr.step] = "action"
        BY <3>1 DEF Entering
    <3>2. CASE flow.kind[fr.step] = "loop"
        BY <3>2 DEF Entering, Chosen
    <3>3. CASE flow.kind[fr.step] = "ai"
      <4>1. Chosen(flow, fr, k) = Chosen(flow, fr, j)
          BY <2>2, <3>3 DEF Chosen
      <4> QED
          BY <3>3, <4>1 DEF Entering
    <3>4. CASE flow.kind[fr.step] = "router"
      <4>1. MatchingOver(flow, fr, k) = MatchingOver(flow, fr, j)
          BY <1>1, <1>2, <3>4, MatchingStays
      <4>2. Chosen(flow, fr, k) = Chosen(flow, fr, j)
          BY <3>4, <4>1 DEF Chosen
      <4> QED
          BY <3>4, <4>2 DEF Entering
    <3> QED
        BY <1>4, <3>1, <3>2, <3>3, <3>4 DEF Kinds
  <2>5. After(flow, st, k) = After(flow, st, j)
      BY <1>6, <2>4 DEF After, fr
  <2> QED
      BY <2>3, <2>5
<1>7. CASE ~(fr.at = "enter" /\ fr.step \notin flow.skipped)
  <2>1. Passes(flow, st, k)
      BY <1>1, <1>3, <1>7 DEF Passes, fr
  <2>2. fr.at = "handled" => Branch(flow, fr, k) = Branch(flow, fr, j)
    <3>1. fr.at = "handled" => PassedIn(flow, j, KeyOf(fr))
        BY <1>1 DEF Behind
    <3>2. fr.at = "handled" => (Has(k, KeyOf(fr), "FAILED") <=> Has(j, KeyOf(fr), "FAILED"))
        BY <3>1 DEF StaysPassed, PassedIn, Has
    <3> QED
        BY <3>2 DEF Branch
  <2>3. After(flow, st, k) = After(flow, st, j)
      BY <1>7, <2>2 DEF After, fr
  <2> QED
      BY <2>1, <2>3
<1> QED
    BY <1>6, <1>7

(***************************************************************************)
(* The way from the start of a walk to where it has to stop, or has got.   *)
(***************************************************************************)
First(f) == Execute(<<>>, f.head, <<>>)

Trail(f, R, F, j) ==
    /\ First(f) \in R /\ F \in R
    /\ \A st \in R \ {F} : Passes(f, st, j) /\ After(f, st, j) \in R

LEMMA TrailStays ==
    ASSUME RoutersLookBack, flow \in Flows, NEW R \in SUBSET Seq(Frames), NEW F, NEW j, NEW k,
           Placed(flow, j), Placed(flow, k), StaysPassed(flow, j, k), Trail(flow, R, F, j)
    PROVE  Trail(flow, R, F, k)
<1>1. ASSUME NEW st \in R \ {F} PROVE Passes(flow, st, k) /\ After(flow, st, k) \in R
  <2>1. st \in Seq(Frames) /\ Passes(flow, st, j) /\ After(flow, st, j) \in R
      BY DEF Trail
  <2>2. Passes(flow, st, k) /\ After(flow, st, k) = After(flow, st, j)
      BY <2>1, AfterStays
  <2> QED
      BY <2>1, <2>2
<1> QED
    BY <1>1 DEF Trail

LEMMA TrailGrows ==
    ASSUME NEW R, NEW F, NEW j, Trail(flow, R, F, j), Passes(flow, F, j)
    PROVE  Trail(flow, R \cup {After(flow, F, j)}, After(flow, F, j), j)
BY DEF Trail

(***************************************************************************)
(* The steps of the walk go this way.                                      *)
(***************************************************************************)
\* What is recorded and what is on the stack go together
InOrder == Placed(flow, journal) /\ Clean(flow, journal) /\ StackBehind(flow, stack, journal)

\* A step of the walk that goes on
Turned ==
    /\ BareStack(stack') = After(flow, BareStack(stack), journal')
    /\ Passes(flow, BareStack(stack), journal')
    /\ StaysPassed(flow, journal, journal')
    /\ Placed(flow, journal') /\ Clean(flow, journal') /\ StackBehind(flow, stack', journal')
    /\ PausedIn(journal') = PausedIn(journal) \ {Key}

LEMMA BehindBare ==
    ASSUME NEW f, NEW fr \in Frames, NEW j, Behind(f, fr, j)
    PROVE  Behind(f, Bare(fr), j)
<1>1. /\ Bare(fr).step = fr.step /\ Bare(fr).path = fr.path /\ KeyOf(Bare(fr)) = KeyOf(fr)
      /\ Bare(fr).at = IF fr.at = "calling" THEN "enter" ELSE fr.at
    BY BareFacts
<1> QED
    BY <1>1 DEF Behind

LEMMA ChosenBare ==
    ASSUME NEW fr \in Frames, NEW j
    PROVE  Chosen(flow, Bare(fr), j) = Chosen(flow, fr, j)
<1>1. Bare(fr).step = fr.step /\ Bare(fr).path = fr.path /\ KeyOf(Bare(fr)) = KeyOf(fr)
    BY BareFacts
<1>2. HoldsOver(flow, Bare(fr), j) = HoldsOver(flow, fr, j)
    BY <1>1 DEF HoldsOver
<1>3. MatchingOver(flow, Bare(fr), j) = MatchingOver(flow, fr, j)
    BY <1>1, <1>2 DEF MatchingOver
<1> QED
    BY <1>1, <1>3 DEF Chosen

\* The innermost frame, and what is behind it.
LEMMA TopOrder ==
    ASSUME TInv, InOrder, stack # <<>>
    PROVE  /\ stack \in Seq(Frames) /\ Top \in Frames /\ Top = Last(stack) /\ flow \in Flows
           /\ Top.step \in Steps /\ Top.path \in Paths
           /\ Behind(flow, Top, journal) /\ Key = KeyOf(Top) /\ Key \in Keys
           /\ FrameOk(Top, journal) /\ StackOk /\ JournalOk(journal)
           /\ Key \in DOMAIN journal => PassedIn(flow, journal, Key) \/ Paused(Key)
<1>1. /\ StackOk /\ JournalOk(journal) /\ flow \in Flows
      /\ stack \in Seq(Frames) /\ Len(stack) \in 1..Len(stack)
    BY TopFacts DEF TInv, EngineOk, RunOk, StackOk, StackIs
<1>2. Top = stack[Len(stack)] /\ Top \in Frames /\ FrameOk(Top, journal) /\ Key \in Keys
    BY <1>1, TopFacts
<1>3. Behind(flow, Top, journal)
    BY <1>1, <1>2 DEF InOrder, StackBehind
<1>4. Key \in DOMAIN journal => PassedIn(flow, journal, Key) \/ Paused(Key)
    BY DEF InOrder, Clean, Paused, Has
<1> QED
    BY <1>1, <1>2, <1>3, <1>4 DEF Top, Key, KeyOf, Frames

\* A step is recorded as passed, and its frame turns to its children or its branches.
LEMMA Enters ==
    ASSUME TInv, InOrder, stack # <<>>, Top.at \in {"enter", "calling"},
           Top.step \notin flow.skipped, StaysPassed(flow, journal, journal'),
           PassedIn(flow, journal', Key), Is("ai") => Has(journal', Key, "SUCCEEDED"),
           NEW fr \in Frames, fr.step = Top.step, fr.path = Top.path,
           fr.at = IF Is("action") THEN "handled" ELSE "inside",
           fr.todo = IF Is("action") THEN Top.todo ELSE Chosen(flow, Top, journal'),
           stack' = Become(fr)
    PROVE  /\ BareStack(stack') = After(flow, BareStack(stack), journal')
           /\ Passes(flow, BareStack(stack), journal')
           /\ StackBehind(flow, stack', journal')
<1> DEFINE b == Bare(Top)
<1>1. /\ stack \in Seq(Frames) /\ Top \in Frames /\ Top = Last(stack) /\ flow \in Flows
      /\ Behind(flow, Top, journal) /\ Key = KeyOf(Top) /\ StackOk
    BY TopOrder
<1>2. /\ b \in Frames /\ b.step = Top.step /\ b.path = Top.path /\ b.todo = Top.todo /\ b.i = 0
      /\ KeyOf(b) = Key /\ b.at = "enter" /\ Chosen(flow, b, journal') = Chosen(flow, Top, journal')
    BY <1>1, BareFacts, ChosenBare
<1>3. BareStack(stack) # <<>> /\ Last(BareStack(stack)) = b
    BY <1>1, BareLast
<1>4. Behind(flow, Top, journal')
    BY <1>1, BehindStays
<1>5. Behind(flow, b, journal')
    BY <1>1, <1>4, BehindBare
<1> HIDE DEF b
<1>6. Passes(flow, BareStack(stack), journal')
    BY <1>2, <1>3, <1>5 DEF Passes, Is
<1>7. Behind(flow, fr, journal')
  <2>1. KeyOf(fr) = Key
      BY <1>1 DEF KeyOf
  <2> QED
      BY <1>4, <2>1 DEF Behind
<1>8. StackBehind(flow, stack', journal')
  <2>1. StackBehind(flow, stack, journal)
      BY DEF InOrder
  <2> QED
      BY <1>1, <1>7, <2>1, BehindTurned
<1>9. Bare(fr) = Entering(flow, b, journal')
  <2>1. /\ Bare(fr) \in Frames /\ Bare(fr).step = fr.step /\ Bare(fr).path = fr.path
        /\ Bare(fr).todo = fr.todo /\ Bare(fr).i = 0 /\ Bare(fr).at = fr.at /\ fr.todo \in SUBSET Nat
      BY BareFacts DEF Frames
  <2>2. CASE Is("action")
    <3> DEFINE e == [b EXCEPT !.at = "handled"]
    <3>1. /\ e \in Frames /\ e.step = b.step /\ e.path = b.path /\ e.at = "handled"
          /\ e.i = b.i /\ e.todo = b.todo
        BY <1>2 DEF Frames
    <3>2. Entering(flow, b, journal') = e
        BY <1>2, <2>2 DEF Entering, Is
    <3> HIDE DEF e
    <3> QED
        BY <1>2, <2>1, <2>2, <3>1, <3>2, FrameEqual
  <2>3. CASE ~Is("action")
    <3> DEFINE t == fr.todo
               e == [b EXCEPT !.at = "inside", !.todo = t]
    <3>1. /\ e \in Frames /\ e.step = b.step /\ e.path = b.path /\ e.at = "inside"
          /\ e.i = b.i /\ e.todo = t
        BY <1>2, <2>1 DEF Frames
    <3>2. Entering(flow, b, journal') = e
        BY <1>2, <2>3 DEF Entering, Is
    <3> HIDE DEF e
    <3> QED
        BY <1>2, <2>1, <2>3, <3>1, <3>2, FrameEqual
  <2> QED
      BY <2>2, <2>3
<1>10. BareStack(stack') = Turn(BareStack(stack), Bare(fr))
  <2>1. Become(fr) = Turn(stack, fr)
      BY DEF Become, Turn
  <2> QED
      BY <1>1, <2>1, BareTurn
<1>11. After(flow, BareStack(stack), journal') = Turn(BareStack(stack), Entering(flow, b, journal'))
    BY <1>2, <1>3 DEF After
<1> QED
    BY <1>6, <1>8, <1>9, <1>10, <1>11

\* A frame that is not about to turn to anything is done, and its step was passed.
LEMMA PastTurns ==
    ASSUME TInv, InOrder, stack # <<>>, Top.at # "calling", stack' = Past, UNCHANGED <<flow, journal>>,
           Top.at = "enter" => Top.step \in flow.skipped,
           Top.at = "handled" => Top.step \notin flow.continues,
           Top.at = "inside" => Top.todo = {}
    PROVE  Turned
<1> DEFINE b == Bare(Top)
           s == flow.next[Top.step]
<1>1. /\ stack \in Seq(Frames) /\ Top \in Frames /\ Top = Last(stack) /\ flow \in Flows
      /\ Behind(flow, Top, journal) /\ Key = KeyOf(Top) /\ StackOk
      /\ Top.step \in Steps /\ Top.path \in Paths
    BY TopOrder
<1>2. /\ b \in Frames /\ b.step = Top.step /\ b.path = Top.path /\ b.todo = Top.todo
      /\ b.at = Top.at
    BY <1>1, BareFacts
<1>3. BareStack(stack) # <<>> /\ Last(BareStack(stack)) = b
      /\ Front(BareStack(stack)) = BareStack(Front(stack)) /\ Front(stack) \in Seq(Frames)
    BY <1>1, BareLast
<1>4. Behind(flow, b, journal)
    BY <1>1, BehindBare
<1> HIDE DEF b
<1>5. Passes(flow, BareStack(stack), journal)
    BY <1>2, <1>3, <1>4 DEF Passes
<1>6. After(flow, BareStack(stack), journal) = Execute(Front(BareStack(stack)), s, Top.path)
    BY <1>2, <1>3 DEF After
<1>7. s \in Steps \cup {NoStep}
    BY <1>1, FlowFacts
<1>8. BareStack(Past) = Execute(BareStack(Front(stack)), s, Top.path)
    BY <1>1, <1>3, <1>7, BareExecute DEF Past
<1>9. Top.step \notin flow.skipped => PassedIn(flow, journal, Key)
  <2>1. Top.at \in {"enter", "handled", "inside", "left"}
      BY <1>1 DEF Frames
  <2> QED
      BY <1>1, <2>1 DEF Behind
<1>10. StackBehind(flow, Past, journal)
    BY <1>1, <1>9, BehindPast DEF InOrder
<1>11. Key \notin PausedIn(journal)
  <2>1. Key[2] = Top.step
      BY DEF Key
  <2> QED
      BY <1>9, <2>1 DEF PausedIn, PassedIn, Has, InOrder, Placed
<1> QED
    BY <1>3, <1>5, <1>6, <1>8, <1>10, <1>11, StaysItself DEF Turned, InOrder

\* A frame turns to a child of its step, which was passed.
LEMMA ChildTurns ==
    ASSUME TInv, InOrder, stack # <<>>, Top.at \in {"handled", "inside"}, UNCHANGED <<flow, journal>>,
           NEW fr \in Frames, fr.step = Top.step, fr.path = Top.path, fr.at \in {"inside", "left"},
           NEW c \in Steps \cup {NoStep}, NEW p \in Paths,
           c # NoStep => Behind(flow, Frame(c, p), journal),
           stack' = Execute(Become(fr), c, p),
           After(flow, BareStack(stack), journal)
               = Execute(Turn(BareStack(stack), Bare(fr)), c, p)
    PROVE  Turned
<1> DEFINE b == Bare(Top)
<1>1. /\ stack \in Seq(Frames) /\ Top \in Frames /\ Top = Last(stack) /\ flow \in Flows
      /\ Behind(flow, Top, journal) /\ Key = KeyOf(Top) /\ StackOk
    BY TopOrder
<1>2. b.at = Top.at
    BY <1>1, BareFacts
<1>3. BareStack(stack) # <<>> /\ Last(BareStack(stack)) = b
    BY <1>1, BareLast
<1>4. Behind(flow, b, journal)
    BY <1>1, BehindBare
<1> HIDE DEF b
<1>5. Passes(flow, BareStack(stack), journal)
    BY <1>2, <1>3, <1>4 DEF Passes
<1>6. PassedIn(flow, journal, Key) /\ Behind(flow, fr, journal)
  <2>1. PassedIn(flow, journal, Key) /\ KeyOf(fr) = Key
      BY <1>1 DEF Behind, KeyOf
  <2> QED
      BY <1>1, <2>1 DEF Behind
<1> DEFINE st == Become(fr)
<1>7. st \in Seq(Frames) /\ BareStack(st) = Turn(BareStack(stack), Bare(fr))
  <2>1. st = Turn(stack, fr)
      BY DEF Become, Turn
  <2> QED
      BY <1>1, <2>1, BareTurn
<1>8. StackBehind(flow, st, journal)
    BY <1>1, <1>6, StaysItself, BehindTurned DEF InOrder
<1> HIDE DEF st
<1>9. StackBehind(flow, Execute(st, c, p), journal)
    BY <1>1, <1>7, <1>8, BehindEntered
<1>10. BareStack(Execute(st, c, p)) = Execute(BareStack(st), c, p)
    BY <1>7, BareExecute
<1>11. Key \notin PausedIn(journal)
    BY <1>6 DEF PausedIn, PassedIn, Has
<1> QED
    BY <1>5, <1>7, <1>9, <1>10, <1>11, StaysItself DEF Turned, InOrder, st

LEMMA SkipTurns == ASSUME TInv, InOrder, Skip PROVE Turned
BY PastTurns DEF Skip, At, Inner

LEMMA LeaveTurns == ASSUME TInv, InOrder, Leave PROVE Turned
BY PastTurns DEF Leave, At, Inner

LEMMA HandledTurns == ASSUME TInv, InOrder, Handled PROVE Turned
<1>1. /\ stack # <<>> /\ Top.at = "handled" /\ UNCHANGED <<flow, journal>>
    BY DEF Handled, At, Inner
<1>2. /\ stack \in Seq(Frames) /\ Top \in Frames /\ Top = Last(stack) /\ flow \in Flows
      /\ Behind(flow, Top, journal) /\ Key = KeyOf(Top) /\ Top.step \in Steps /\ Top.path \in Paths
      /\ flow.kind[Top.step] = "action"
    BY <1>1, TopOrder DEF FrameOk
<1>3. CASE Top.step \notin flow.continues
    BY <1>1, <1>3, PastTurns DEF Handled
<1>4. CASE Top.step \in flow.continues
  <2> DEFINE fr == [Top EXCEPT !.at = "left"]
             b  == Bare(Top)
             n  == IF Has(journal, Key, "FAILED") THEN 2 ELSE 1
             c  == flow.children[Top.step][n]
             e  == [b EXCEPT !.at = "left"]
  <2>1. stack' = Execute(Become(fr), c, Top.path)
      BY <1>4 DEF Handled, GoOn
  <2>2. n \in DOMAIN flow.children[Top.step] /\ c \in Steps \cup {NoStep}
      BY <1>2, <1>4, FlowFacts
  <2>3. /\ fr \in Frames /\ fr.step = Top.step /\ fr.path = Top.path /\ fr.at = "left"
        /\ fr.todo = Top.todo
      BY <1>2 DEF Frames
  <2>4. /\ b \in Frames /\ b.step = Top.step /\ b.path = Top.path /\ b.todo = Top.todo /\ b.i = 0
        /\ KeyOf(b) = Key /\ b.at = "handled"
      BY <1>1, <1>2, BareFacts
  <2>5. BareStack(stack) # <<>> /\ Last(BareStack(stack)) = b
      BY <1>1, <1>2, BareLast
  <2>6. Branch(flow, b, journal) = c
      BY <2>4 DEF Branch
  <2>7. Bare(fr) = e
    <3>1. /\ Bare(fr) \in Frames /\ Bare(fr).step = fr.step /\ Bare(fr).path = fr.path
          /\ Bare(fr).todo = fr.todo /\ Bare(fr).i = 0 /\ Bare(fr).at = fr.at
        BY <2>3, BareFacts
    <3> HIDE DEF fr, b
    <3>2. /\ e \in Frames /\ e.step = b.step /\ e.path = b.path /\ e.at = "left"
          /\ e.i = b.i /\ e.todo = b.todo
        BY <2>4 DEF Frames
    <3> HIDE DEF e
    <3> QED
        BY <2>3, <2>4, <3>1, <3>2, FrameEqual
  <2> HIDE DEF fr, b, n, c
  <2>8. After(flow, BareStack(stack), journal) = Execute(Turn(BareStack(stack), e), c, Top.path)
      BY <1>4, <2>4, <2>5, <2>6 DEF After
  <2>9. c # NoStep => Behind(flow, Frame(c, Top.path), journal)
    <3>1. PassedIn(flow, journal, KeyOf(Top))
        BY <1>1, <1>2 DEF Behind
    <3> QED
        BY <1>2, <2>2, <3>1, BehindOn DEF c
  <2> QED
      BY <1>1, <1>2, <2>1, <2>2, <2>3, <2>7, <2>8, <2>9, ChildTurns
<1> QED
    BY <1>3, <1>4

LEMMA NextChildTurns == ASSUME TInv, InOrder, NextChild PROVE Turned
<1> DEFINE n  == Min(Top.todo)
           fr == [Top EXCEPT !.i = n, !.todo = @ \ {n}]
           p  == IF Is("loop") THEN Append(Top.path, <<Top.step, n>>) ELSE Top.path
           m  == IF Is("loop") THEN 1 ELSE n
           c  == flow.children[Top.step][m]
           b  == Bare(Top)
           e  == [b EXCEPT !.todo = @ \ {n}]
<1>1. /\ stack # <<>> /\ Top.at = "inside" /\ UNCHANGED <<flow, journal>> /\ Top.todo # {}
      /\ stack' = Execute(Become(fr), c, p)
    BY DEF NextChild, At, Inner
<1>2. /\ stack \in Seq(Frames) /\ Top \in Frames /\ Top = Last(stack) /\ flow \in Flows
      /\ Behind(flow, Top, journal) /\ Key = KeyOf(Top) /\ Top.step \in Steps /\ Top.path \in Paths
      /\ Is("loop") \/ Top.todo \subseteq DOMAIN flow.children[Top.step]
    BY <1>1, TopOrder DEF FrameOk, Is
<1>3. n \in Top.todo /\ n \in Nat
    BY <1>1, <1>2, MinFacts DEF Frames
<1>4. m \in DOMAIN flow.children[Top.step] /\ c \in Steps \cup {NoStep}
    BY <1>2, <1>3, FlowFacts DEF Is
<1>5. /\ b \in Frames /\ b.step = Top.step /\ b.path = Top.path /\ b.todo = Top.todo /\ b.i = 0
      /\ KeyOf(b) = Key /\ b.at = "inside"
    BY <1>1, <1>2, BareFacts
<1>6. BareStack(stack) # <<>> /\ Last(BareStack(stack)) = b
    BY <1>1, <1>2, BareLast
<1>7. Child(flow, b, n) = c /\ Inward(flow, b, n) = p
    BY <1>5 DEF Child, Inward, Is
<1> HIDE DEF b, m, c, p
<1>8. After(flow, BareStack(stack), journal) = Execute(Turn(BareStack(stack), e), c, p)
    BY <1>1, <1>5, <1>6, <1>7 DEF After
<1> HIDE DEF n
<1>9. /\ fr \in Frames /\ fr.step = Top.step /\ fr.path = Top.path /\ fr.at = "inside"
      /\ fr.todo = Top.todo \ {n}
    BY <1>1, <1>2, <1>3 DEF Frames
<1>10. Bare(fr) = e
  <2>1. /\ Bare(fr) \in Frames /\ Bare(fr).step = fr.step /\ Bare(fr).path = fr.path
        /\ Bare(fr).todo = fr.todo /\ Bare(fr).i = 0 /\ Bare(fr).at = fr.at
      BY <1>9, BareFacts
  <2>2. /\ e \in Frames /\ e.step = b.step /\ e.path = b.path /\ e.at = b.at
        /\ e.i = b.i /\ e.todo = b.todo \ {n}
      BY <1>5 DEF Frames
  <2> HIDE DEF e, fr
  <2>3. /\ Bare(fr).step = e.step /\ Bare(fr).path = e.path /\ Bare(fr).at = e.at
        /\ Bare(fr).i = e.i
      BY <1>5, <1>9, <2>1, <2>2
  <2>4. Bare(fr).todo = e.todo
      BY <1>5, <1>9, <2>1, <2>2
  <2> QED
      BY <2>1, <2>2, <2>3, <2>4, FrameEqual
<1>11. p \in Paths
    BY <1>2, <1>3 DEF p, Is, Loops, Paths
<1>12. c # NoStep => Behind(flow, Frame(c, p), journal)
  <2>1. PassedIn(flow, journal, KeyOf(Top))
      BY <1>1, <1>2 DEF Behind
  <2>2. CASE Is("loop")
    <3>1. <<Top.step, n>> \in Loops \X Nat /\ c = flow.children[Top.step][1]
        BY <1>2, <1>3, <2>2 DEF Is, Loops, c, m
    <3> QED
        BY <1>2, <2>1, <2>2, <3>1, BehindIn DEF Is, p
  <2>3. CASE ~Is("loop")
      BY <1>2, <1>4, <2>1, <2>3, BehindOn DEF Is, p, c
  <2> QED
      BY <2>2, <2>3
<1> HIDE DEF fr, e
<1> QED
    BY <1>1, <1>2, <1>4, <1>8, <1>9, <1>10, <1>11, <1>12, ChildTurns

\* A call is of a step that was not passed
Fresh == At("calling") => Key \notin DOMAIN journal \/ Paused(Key)

\* The entry of a step is set, as one that was passed.
LEMMA RecordsPassed ==
    ASSUME TInv, InOrder, stack # <<>>, Top.step \notin flow.skipped, NEW s, NEW r,
           s = "SUCCEEDED" \/ (s = "FAILED" /\ Top.step \in flow.continues),
           ~PassedIn(flow, journal, Key) \/ (journal[Key].status = s /\ ~Is("ai")),
           journal' = Set(Key, s, r)
    PROVE  /\ StaysPassed(flow, journal, journal') /\ Placed(flow, journal') /\ Clean(flow, journal')
           /\ PausedIn(journal') = PausedIn(journal) \ {Key}
           /\ PassedIn(flow, journal', Key) /\ Key \in DOMAIN journal'
           /\ journal'[Key].status = s /\ journal'[Key].routes = r
<1>1. /\ Behind(flow, Top, journal) /\ Key = KeyOf(Top) /\ Key[1] = Top.path /\ Key[2] = Top.step
    BY TopOrder DEF KeyOf
<1>2. StaysPassed(flow, journal, Set(Key, s, r))
    BY <1>1, StaysSet DEF Is
<1>3. Placed(flow, Set(Key, s, r))
    BY <1>1, PlacedSet DEF InOrder, Behind
<1>4. Clean(flow, Set(Key, s, r))
    BY <1>1, CleanSet DEF InOrder
<1>5. PausedIn(Set(Key, s, r)) = (PausedIn(journal) \ {Key}) \cup (IF s = "PAUSED" THEN {Key} ELSE {})
    BY PausedSet
<1>6. /\ Key \in DOMAIN Set(Key, s, r) /\ Set(Key, s, r)[Key].status = s
      /\ Set(Key, s, r)[Key].routes = r
    BY DEF Set, Entry
<1> QED
    BY <1>1, <1>2, <1>3, <1>4, <1>5, <1>6 DEF PassedIn, Has

LEMMA ReuseTurns == ASSUME TInv, InOrder, Reuse PROVE Turned
<1> DEFINE fr == [Top EXCEPT !.at = "handled"]
<1>1. /\ stack # <<>> /\ Top.at = "enter" /\ UNCHANGED <<flow, journal>> /\ Is("action")
      /\ Top.step \notin flow.skipped /\ Completed(Key) /\ stack' = Become(fr)
    BY DEF Reuse, Entered, At, Inner, GoOn
<1>2. PassedIn(flow, journal, Key) /\ Key \notin PausedIn(journal)
    BY <1>1, TopOrder DEF Completed, PassedIn, Has, PausedIn, Paused
<1>3. fr \in Frames /\ fr.step = Top.step /\ fr.path = Top.path /\ fr.at = "handled" /\ fr.todo = Top.todo
    BY <1>1, TopOrder DEF Frames
<1> HIDE DEF fr
<1>4. ~Is("ai")
    BY <1>1 DEF Is
<1>5. /\ BareStack(stack') = After(flow, BareStack(stack), journal')
      /\ Passes(flow, BareStack(stack), journal') /\ StackBehind(flow, stack', journal')
    BY <1>1, <1>2, <1>3, <1>4, StaysItself, Enters
<1> QED
    BY <1>1, <1>2, <1>5, StaysItself DEF Turned, InOrder

\* The call of an action ended, and the action was passed.
LEMMA CallTurns ==
    ASSUME TInv, InOrder, Fresh, At("calling"), Is("action"), NEW s,
           s = "SUCCEEDED" \/ (s = "FAILED" /\ Top.step \in flow.continues),
           journal' = Set(Key, s, {}), stack' = GoOn("handled"), UNCHANGED flow
    PROVE  Turned
<1> DEFINE fr == [Top EXCEPT !.at = "handled"]
<1>1. stack # <<>> /\ Top.at = "calling" /\ stack' = Become(fr)
    BY DEF At, GoOn
<1>2. Top \in Frames /\ Behind(flow, Top, journal)
    BY <1>1, TopOrder
<1>3. fr \in Frames /\ fr.step = Top.step /\ fr.path = Top.path /\ fr.at = "handled" /\ fr.todo = Top.todo
    BY <1>2 DEF Frames
<1> HIDE DEF fr
<1>4. Top.step \notin flow.skipped
    BY <1>1, <1>2 DEF Behind
<1>5. ~PassedIn(flow, journal, Key)
    BY DEF Fresh, Paused, PassedIn, Has
<1>6. /\ StaysPassed(flow, journal, journal') /\ Placed(flow, journal') /\ Clean(flow, journal')
      /\ PausedIn(journal') = PausedIn(journal) \ {Key} /\ PassedIn(flow, journal', Key)
    BY <1>1, <1>4, <1>5, RecordsPassed
<1>7. ~Is("ai")
    BY DEF Is
<1>8. /\ BareStack(stack') = After(flow, BareStack(stack), journal')
      /\ Passes(flow, BareStack(stack), journal') /\ StackBehind(flow, stack', journal')
    BY <1>1, <1>3, <1>4, <1>6, <1>7, Enters
<1> QED
    BY <1>6, <1>8 DEF Turned

LEMMA SucceedTurns ==
    ASSUME TInv, InOrder, Fresh, Succeed, verdict' = Running
    PROVE  Turned
<1>1. stack' = GoOn("handled") /\ UNCHANGED flow
    BY DEF Succeed, Return, Inner
<1> QED
    BY <1>1, CallTurns DEF Succeed

LEMMA FailTurns ==
    ASSUME TInv, InOrder, Fresh, Fail, verdict' = Running
    PROVE  Turned
<1>1. /\ stack' = GoOn("handled") /\ UNCHANGED flow /\ Top.step \in flow.continues
      /\ journal' = Set(Key, "FAILED", {}) /\ At("calling")
    BY DEF Fail, Return, Inner, Failure, Running, Verdict
<1>2. Is("action")
    BY <1>1, AtFacts, FlowFacts DEF Is
<1> QED
    BY <1>1, <1>2, CallTurns

\* A loop or a router turns to what it chooses over a journal where it was passed.
LEMMA InsideTurns ==
    ASSUME TInv, InOrder, Entered, ~Is("action"), UNCHANGED flow,
           StaysPassed(flow, journal, journal'), Placed(flow, journal'), Clean(flow, journal'),
           PausedIn(journal') = PausedIn(journal) \ {Key},
           Has(journal', Key, "SUCCEEDED"), NEW todo \in SUBSET Nat,
           todo = Chosen(flow, Top, journal'), stack' = Inside(todo)
    PROVE  Turned
<1> DEFINE fr == [Top EXCEPT !.at = "inside", !.todo = todo]
<1>1. /\ stack # <<>> /\ Top.at = "enter" /\ Top.step \notin flow.skipped /\ stack' = Become(fr)
    BY DEF Entered, At, Inside
<1>2. Top \in Frames
    BY <1>1, TopOrder
<1>3. fr \in Frames /\ fr.step = Top.step /\ fr.path = Top.path /\ fr.at = "inside" /\ fr.todo = todo
    BY <1>2 DEF Frames
<1> HIDE DEF fr
<1>4. PassedIn(flow, journal', Key)
    BY DEF PassedIn
<1>5. /\ BareStack(stack') = After(flow, BareStack(stack), journal')
      /\ Passes(flow, BareStack(stack), journal') /\ StackBehind(flow, stack', journal')
    BY <1>1, <1>3, <1>4, Enters
<1> QED
    BY <1>5 DEF Turned

LEMMA EnterLoopTurns == ASSUME TInv, InOrder, EnterLoop PROVE Turned
<1>1. /\ Entered /\ Is("loop") /\ stack' = Inside(1..flow.items[Top.step]) /\ UNCHANGED flow
      /\ journal' = IF Key \in DOMAIN journal THEN journal ELSE Set(Key, "SUCCEEDED", {})
      /\ stack # <<>> /\ Top.step \notin flow.skipped
    BY DEF EnterLoop, Inner, Entered, At
<1>2. Key[2] = Top.step /\ Top.step \in Steps /\ flow \in Flows /\ JournalOk(journal)
    BY <1>1, TopOrder DEF KeyOf
<1>3. ~Is("action") /\ ~Is("ai") /\ Top.step \notin flow.continues
    BY <1>1, <1>2, FlowFacts DEF Is
<1>4. Key \in DOMAIN journal => Has(journal, Key, "SUCCEEDED")
  <2>1. Key[2] \notin flow.continues
      BY <1>2, <1>3
  <2>2. Key \in DOMAIN journal => journal[Key].status \in {"SUCCEEDED", "FAILED"}
      BY <1>1, <1>2 DEF JournalOk, Loops, Is
  <2>3. Key \in DOMAIN journal => PassedIn(flow, journal, Key) \/ Paused(Key)
      BY <1>1, TopOrder
  <2> QED
      BY <2>1, <2>2, <2>3 DEF PassedIn, Has, Paused
<1>5. /\ StaysPassed(flow, journal, journal') /\ Placed(flow, journal') /\ Clean(flow, journal')
      /\ PausedIn(journal') = PausedIn(journal) \ {Key} /\ Has(journal', Key, "SUCCEEDED")
  <2>1. CASE Key \in DOMAIN journal
      BY <1>1, <1>4, <2>1, StaysItself DEF InOrder, PausedIn, Has
  <2>2. CASE Key \notin DOMAIN journal
    <3>1. ~PassedIn(flow, journal, Key) /\ journal' = Set(Key, "SUCCEEDED", {})
        BY <1>1, <2>2 DEF PassedIn, Has
    <3> QED
        BY <1>1, <3>1, RecordsPassed DEF Has
  <2> QED
      BY <2>1, <2>2
<1>6. 1..flow.items[Top.step] \in SUBSET Nat
    BY <1>2, FlowFacts
<1>7. 1..flow.items[Top.step] = Chosen(flow, Top, journal')
    BY <1>1 DEF Chosen, Is
<1> QED
    BY <1>1, <1>3, <1>5, <1>6, <1>7, InsideTurns

\* Matching in the terms of the walk.
LEMMA MatchingIs == Matching = MatchingOver(flow, Top, journal)
<1>1. \A s : Seen(s) = SeenOver(journal, Top.path, s)
    BY DEF Seen, SeenOver
<1> QED
    BY <1>1 DEF Matching, MatchingOver, HoldsOver

LEMMA EnterRouterTurns == ASSUME RoutersLookBack, TInv, InOrder, EnterRouter PROVE Turned
<1> DEFINE m    == Matching
           todo == IF Top.step \in flow.takesAll THEN m ELSE FirstOf(m)
<1>1. /\ Entered /\ Is("router") /\ stack' = Inside(todo) /\ UNCHANGED flow
      /\ journal' = Set(Key, "SUCCEEDED", m) /\ stack # <<>> /\ Top.step \notin flow.skipped
    BY DEF EnterRouter, Inner, Entered, At
<1>2. /\ Key[2] = Top.step /\ Top.step \in Steps /\ flow \in Flows /\ Top \in Frames
      /\ Behind(flow, Top, journal)
    BY <1>1, TopOrder DEF KeyOf
<1>3. ~Is("action") /\ ~Is("ai") /\ Top.step \notin flow.continues
    BY <1>1, <1>2, FlowFacts DEF Is
<1>4. ~PassedIn(flow, journal, Key) \/ journal[Key].status = "SUCCEEDED"
    BY <1>2, <1>3 DEF PassedIn, Has
<1>5. m \in SUBSET Nat /\ m = MatchingOver(flow, Top, journal)
    BY <1>1, <1>2, MatchingFacts, MatchingIs
<1> HIDE DEF m
<1>6. /\ StaysPassed(flow, journal, journal') /\ Placed(flow, journal') /\ Clean(flow, journal')
      /\ PausedIn(journal') = PausedIn(journal) \ {Key} /\ Has(journal', Key, "SUCCEEDED")
    BY <1>1, <1>3, <1>4, RecordsPassed DEF Has
<1>7. MatchingOver(flow, Top, journal') = m
    BY <1>1, <1>2, <1>5, <1>6, MatchingStays DEF InOrder, Is
<1>8. todo = Chosen(flow, Top, journal') /\ todo \in SUBSET Nat
    BY <1>1, <1>5, <1>7, FirstOfFacts DEF Chosen, Is
<1> HIDE DEF todo
<1> QED
    BY <1>1, <1>3, <1>6, <1>8, InsideTurns

LEMMA ReplayTurns == ASSUME TInv, InOrder, Replay PROVE Turned
<1> DEFINE todo == journal[Key].routes
<1>1. /\ Entered /\ Is("ai") /\ stack' = Inside(todo) /\ UNCHANGED <<flow, journal>>
      /\ Has(journal, Key, "SUCCEEDED") /\ stack # <<>>
    BY DEF Replay, Inner, Entered, At
<1>2. ~Is("action") /\ Key = KeyOf(Top) /\ JournalOk(journal)
    BY <1>1, TopOrder DEF Is
<1>3. todo \in SUBSET Nat /\ todo = Chosen(flow, Top, journal')
    BY <1>1, <1>2 DEF JournalOk, Entries, Chosen, Is, Has
<1>4. PausedIn(journal') = PausedIn(journal) \ {Key}
    BY <1>1 DEF PausedIn, Has
<1> HIDE DEF todo
<1> QED
    BY <1>1, <1>2, <1>3, <1>4, StaysItself, InsideTurns DEF InOrder

LEMMA AnswerTurns == ASSUME DistinctRoutes, TInv, InOrder, Answer PROVE Turned
<1>1. PICK r \in Answers(Top.step) :
        /\ journal' = Set(Key, "SUCCEEDED", r)
        /\ stack' = Inside(IF Top.step \in flow.takesAll THEN r ELSE FirstOf(r))
    BY DEF Answer
<1> DEFINE todo == IF Top.step \in flow.takesAll THEN r ELSE FirstOf(r)
<1>2. /\ Entered /\ Is("ai") /\ UNCHANGED flow /\ Paused(Key) /\ stack # <<>>
      /\ Top.step \notin flow.skipped
    BY DEF Answer, Inner, Entered, At
<1>3. Key = KeyOf(Top) /\ Top.step \in Steps /\ flow \in Flows /\ ~Is("action")
    BY <1>2, TopOrder DEF Is
<1>4. ~PassedIn(flow, journal, Key)
    BY <1>2 DEF PassedIn, Paused, Has
<1>5. r \in SUBSET Nat
    BY <1>2, <1>3, AnswersFacts DEF Is
<1>6. Top.step \notin flow.takesAll => FirstOf(r) = r
  <2> SUFFICES ASSUME Top.step \notin flow.takesAll PROVE FirstOf(r) = r
      OBVIOUS
  <2>1. PICK name \in ToSet(flow.choices[Top.step]) \cup {"fallback"} :
          r = {n \in DOMAIN flow.choices[Top.step] : flow.choices[Top.step][n] \in {name}}
      BY <1>1 DEF Answers
  <2>2. IsInjective(flow.choices[Top.step])
      BY <1>2, <1>3 DEF DistinctRoutes, Is, Steps
  <2>3. \A n, o \in r : n = o
      BY <2>1, <2>2 DEF IsInjective
  <2>4. r # {} => Min(r) \in r
      BY <1>5, MinFacts
  <2> QED
      BY <2>3, <2>4 DEF FirstOf
<1>7. /\ StaysPassed(flow, journal, journal') /\ Placed(flow, journal') /\ Clean(flow, journal')
      /\ PausedIn(journal') = PausedIn(journal) \ {Key} /\ Has(journal', Key, "SUCCEEDED")
      /\ journal'[Key].routes = r
    BY <1>1, <1>2, <1>4, RecordsPassed DEF Has
<1>8. todo = r /\ r = Chosen(flow, Top, journal')
    BY <1>2, <1>3, <1>6, <1>7 DEF Chosen, Is
<1> HIDE DEF todo
<1>9. stack' = Inside(r)
    BY <1>1, <1>8 DEF todo
<1> QED
    BY <1>2, <1>3, <1>5, <1>7, <1>8, <1>9, InsideTurns

(***************************************************************************)
(* The walk of a run without faults.                                       *)
(***************************************************************************)
Walking == phase = "executing" /\ verdict = Running
Trails  == SUBSET Seq(Frames)

\* The walk is on its way to a step that waits, the only one, or has got there; else it is
\* where it has got so far, and nothing waits but what it has come to
OnTrail(R, F) ==
    /\ Trail(flow, R, F, journal) /\ BareStack(stack) \in R
    /\ BareStack(stack) = F => PausedIn(journal) \subseteq {Key}
    /\ BareStack(stack) # F => /\ F # <<>> /\ Last(F).at = "enter"
                               /\ PausedIn(journal) = {KeyOf(Last(F))}

\* One step waits, and a walk over this journal gets there
Waiting(j) == \E R \in Trails : \E F : /\ Trail(flow, R, F, j) /\ F # <<>> /\ Last(F).at = "enter"
                                       /\ PausedIn(j) = {KeyOf(Last(F))}

WalkOrder ==
    /\ Placed(flow, journal) /\ StackBehind(flow, stack, journal)
    /\ Walking => /\ Clean(flow, journal) /\ Fresh
                  /\ stack = <<>> => PausedIn(journal) = {}
                  /\ stack # <<>> => \E R \in Trails : \E F : OnTrail(R, F)
    /\ verdict.is = "PAUSED" /\ phase # "queued" =>
          Clean(flow, journal) /\ Waiting(journal) /\ PausedIn(journal) \subseteq armed
    /\ verdict.is = "FAILED" => PausedIn(journal) = {}

\* A step that was passed, or is skipped, is not one that waits.
LEMMA PassesKey ==
    ASSUME TInv, InOrder, stack # <<>>, Passes(flow, BareStack(stack), journal)
    PROVE  /\ Key \notin PausedIn(journal)
           /\ Top.at = "calling" => PassedIn(flow, journal, Key)
           /\ Entered /\ Is("action") => PassedIn(flow, journal, Key)
           /\ Entered /\ Is("ai") => Has(journal, Key, "SUCCEEDED")
<1> DEFINE b == Bare(Top)
<1>1. /\ stack \in Seq(Frames) /\ Top \in Frames /\ Top = Last(stack)
      /\ Behind(flow, Top, journal) /\ Key = KeyOf(Top) /\ FrameOk(Top, journal)
      /\ Key[2] = Top.step
    BY TopOrder DEF KeyOf
<1>2. /\ b.step = Top.step /\ KeyOf(b) = Key /\ b.at = IF Top.at = "calling" THEN "enter" ELSE Top.at
    BY <1>1, BareFacts
<1>3. Last(BareStack(stack)) = b
    BY <1>1, BareLast
<1>4. b.at = "enter" /\ Top.step \notin flow.skipped =>
          /\ Is("action") => PassedIn(flow, journal, Key)
          /\ Is("ai") => Has(journal, Key, "SUCCEEDED")
    BY <1>2, <1>3 DEF Passes, Is
<1>5. Key \in PausedIn(journal) => /\ ~PassedIn(flow, journal, Key) /\ (Is("action") \/ Is("ai"))
                                   /\ Top.step \notin flow.skipped
    BY <1>1 DEF InOrder, Clean, Placed, PausedIn, PassedIn, Has, Is
<1>6. Top.at \in {"enter", "calling", "handled", "inside", "left"}
    BY <1>1 DEF Frames
<1>7. Top.at \in {"handled", "inside", "left"} => PassedIn(flow, journal, Key)
    BY <1>1 DEF Behind
<1>8. Top.at = "calling" => Top.step \notin flow.skipped /\ (Is("action") \/ Is("ai"))
    BY <1>1 DEF Behind, FrameOk, Is
<1>9. Has(journal, Key, "SUCCEEDED") => PassedIn(flow, journal, Key)
    BY DEF PassedIn
<1>10. Key \notin PausedIn(journal)
  <2> SUFFICES ASSUME Key \in PausedIn(journal) PROVE FALSE
      OBVIOUS
  <2>1. ~PassedIn(flow, journal, Key) /\ (Is("action") \/ Is("ai")) /\ Top.step \notin flow.skipped
      BY <1>5
  <2>2. Top.at \in {"enter", "calling"}
      BY <1>6, <1>7, <2>1
  <2>3. b.at = "enter"
      BY <1>2, <2>2
  <2> QED
      BY <1>4, <1>9, <2>1, <2>3
<1>11. Top.at = "calling" => PassedIn(flow, journal, Key)
    BY <1>2, <1>4, <1>8, <1>9
<1>12. Entered => b.at = "enter" /\ Top.step \notin flow.skipped
    BY <1>2 DEF Entered, At
<1> QED
    BY <1>4, <1>10, <1>11, <1>12

\* A step that is called, or answered, is where the walk has got, and no other step waits.
LEMMA AtEnd ==
    ASSUME TInv, InOrder, stack # <<>>, NEW R, NEW F, OnTrail(R, F),
           \/ Top.at = "calling" /\ Fresh /\ At("calling")
           \/ Entered /\ Is("action") /\ ~Completed(Key)
           \/ Entered /\ Is("ai") /\ ~Has(journal, Key, "SUCCEEDED")
    PROVE  BareStack(stack) = F /\ PausedIn(journal) \subseteq {Key}
<1>1. ASSUME BareStack(stack) # F PROVE FALSE
  <2>1. Passes(flow, BareStack(stack), journal)
      BY <1>1 DEF OnTrail, Trail
  <2>2. Top.at = "calling" /\ Fresh /\ At("calling") => ~PassedIn(flow, journal, Key)
      BY DEF Fresh, PassedIn, Has, Paused
  <2>3. ~Completed(Key) => ~PassedIn(flow, journal, Key)
      BY DEF Completed, PassedIn, Has, Paused
  <2> QED
      BY <2>1, <2>2, <2>3, PassesKey
<1> QED
    BY <1>1 DEF OnTrail

\* A step that goes on stays on the way, or gets one step further.
LEMMA TurnedOn ==
    ASSUME RoutersLookBack, TInv, InOrder, stack # <<>>, stack' \in Seq(Frames), UNCHANGED flow,
           Turned, NEW R \in Trails, NEW F, OnTrail(R, F)
    PROVE  /\ stack' = <<>> => PausedIn(journal') = {}
           /\ stack' # <<>> => \E Q \in Trails : \E G : OnTrail(Q, G)'
<1> DEFINE b == BareStack(stack)
           a == BareStack(stack')
<1>1. /\ a = After(flow, b, journal') /\ Passes(flow, b, journal')
      /\ StaysPassed(flow, journal, journal') /\ PausedIn(journal') = PausedIn(journal) \ {Key}
      /\ Placed(flow, journal) /\ Placed(flow, journal')
    BY DEF Turned, InOrder
<1>2. a \in Seq(Frames) /\ (stack' = <<>> <=> a = <<>>)
  <2>1. a \in Seq(Frames) /\ Len(a) = Len(stack')
      BY BareStackFacts
  <2> HIDE DEF a
  <2> QED
      BY <2>1
<1>3. stack' # <<>> => KeyOf(Last(a)) = Key'
  <2> SUFFICES ASSUME stack' # <<>> PROVE KeyOf(Last(a)) = Key'
      OBVIOUS
  <2>1. Last(a) = Bare(Last(stack')) /\ Last(stack') \in Frames
      BY BareLast
  <2>2. KeyOf(Bare(Last(stack'))) = KeyOf(Last(stack'))
      BY <2>1, BareFacts
  <2> QED
      BY <2>1, <2>2 DEF KeyOf, Key, Top
<1>4. Trail(flow, R, F, journal')
  <2>1. Trail(flow, R, F, journal) /\ flow \in Flows /\ R \in SUBSET Seq(Frames)
      BY DEF OnTrail, TInv, RunOk, Trails
  <2> QED
      BY <1>1, <2>1, TrailStays
<1>5. b \in R
    BY DEF OnTrail
<1>6. CASE b = F
  <2> PICK G : G = a
      OBVIOUS
  <2> PICK Q : Q = R \cup {G}
      OBVIOUS
  <2>1. PausedIn(journal') = {}
      BY <1>1, <1>6 DEF OnTrail
  <2>2. Trail(flow, Q, G, journal')
      BY <1>1, <1>4, <1>6, TrailGrows
  <2>3. Q \in Trails /\ a = G /\ G \in Q
      BY <1>2 DEF Trails
  <2>4. OnTrail(Q, G)'
      BY <2>1, <2>2, <2>3 DEF OnTrail
  <2> QED
      BY <2>1, <2>3, <2>4
<1>7. CASE b # F
  <2>1. F # <<>> /\ Last(F).at = "enter" /\ PausedIn(journal) = {KeyOf(Last(F))}
        /\ Passes(flow, b, journal)
      BY <1>5, <1>7 DEF OnTrail, Trail
  <2>2. PausedIn(journal') = {KeyOf(Last(F))}
      BY <1>1, <2>1, PassesKey
  <2>3. a \in R
      BY <1>1, <1>4, <1>5, <1>7 DEF Trail
  <2>4. stack' # <<>>
    <3>1. a # F => a # <<>>
        BY <1>4, <2>3 DEF Trail, Passes
    <3> QED
        BY <1>2, <2>1, <3>1
  <2>5. OnTrail(R, F)'
      BY <1>3, <1>4, <2>1, <2>2, <2>3, <2>4 DEF OnTrail
  <2> QED
      BY <2>4, <2>5
<1> QED
    BY <1>6, <1>7

\* What a step of the walk starts from.
LEMMA WalkStarts ==
    ASSUME TInv, WalkOrder, Walk
    PROVE  /\ Walking /\ stack # <<>> /\ InOrder /\ Fresh /\ phase' = phase
           /\ UNCHANGED <<flow, job, log, status, faults>>
           /\ \E R \in Trails : \E F : OnTrail(R, F)
<1>1. \E at : At(at)
    BY DEF Walk, Skip, Reuse, Call, Arm, Pause, Succeed, AttemptAgain, Fail, Handled,
       EnterLoop, EnterRouter, Replay, Answer, NoAnswer, NextChild, Leave, Entered
<1>2. Walking /\ stack # <<>>
    BY <1>1, AtFacts DEF Walking, At
<1>3. phase' = phase /\ UNCHANGED <<flow, job, log, status, faults>>
    BY DEF Walk, Skip, Reuse, Call, Arm, Pause, Succeed, AttemptAgain, Fail, Handled,
       EnterLoop, EnterRouter, Replay, Answer, NoAnswer, NextChild, Leave, Inner, engineVars
<1> QED
    BY <1>2, <1>3 DEF WalkOrder, InOrder

\* A step goes on, goes on with its call, or returns.
LEMMA Turns ==
    ASSUME RoutersLookBack, DistinctRoutes, TInv, InOrder, Fresh, Walk, verdict' = Running
    PROVE  Turned \/ Call \/ Arm \/ AttemptAgain
<1>1. ~Pause /\ ~NoAnswer
    BY DEF Pause, NoAnswer, Return, Verdict, Running, Failure
<1> QED
    BY <1>1, SkipTurns, LeaveTurns, HandledTurns, NextChildTurns, ReuseTurns, SucceedTurns, FailTurns,
       EnterLoopTurns, EnterRouterTurns, ReplayTurns, AnswerTurns DEF Walk

\* After a step that is none of these no call is in progress.
LEMMA NotCalling ==
    ASSUME TInv, Walk, ~Call, ~Arm, ~AttemptAgain
    PROVE  ~At("calling")'
<1>1. CASE Pause \/ Succeed \/ Fail \/ NoAnswer
  <2> DEFINE fr == [Top EXCEPT !.at = "handled"]
  <2>1. StackOk /\ stack # <<>> /\ Top \in Frames
    <3>1. \E at : At(at)
        BY <1>1 DEF Pause, Succeed, Fail, NoAnswer, Entered
    <3> QED
        BY <3>1, AtFacts
  <2>2. fr \in Frames /\ fr.at # "calling" /\ GoOn("handled") = Become(fr)
      BY <2>1 DEF Frames, GoOn
  <2> HIDE DEF fr
  <2>3. stack' = <<>> \/ stack' = Become(fr)
      BY <1>1, <2>2 DEF Pause, Succeed, Fail, NoAnswer, Return, Verdict, Running, Failure
  <2>4. ~Calling(stack')
      BY <2>1, <2>2, <2>3, BecomeCalling DEF Calling
  <2> QED
      BY <2>4 DEF Calling, At, Top
<1>2. CASE Skip \/ Reuse \/ EnterLoop \/ EnterRouter \/ Replay \/ Answer \/ Leave \/ Handled \/ NextChild
  <2>1. Begun = {}
      BY <1>2, WalkBegins, ChildBegins
  <2>2. Calls = {}
      BY <1>2 DEF Skip, Reuse, EnterLoop, EnterRouter, Replay, Answer, Leave, Handled, NextChild,
         Entered, Calls, At
  <2>3. At("calling")' => Key' \in Calls'
      BY DEF Calls
  <2> QED
      BY <2>1, <2>2, <2>3 DEF Begun
<1> QED
    BY <1>1, <1>2 DEF Walk

\* A call that begins or goes on leaves the walk where it is.
LEMMA Remains ==
    ASSUME TInv, stack # <<>>, NEW fr \in Frames, Bare(fr) = Bare(Top), stack' = Become(fr)
    PROVE  /\ BareStack(stack') = BareStack(stack) /\ stack' # <<>>
           /\ Top' = fr /\ Key' = KeyOf(fr) /\ KeyOf(fr) = Key
<1>1. stack \in Seq(Frames) /\ Top = Last(stack) /\ Top \in Frames
    BY TopFacts DEF TInv, EngineOk, StackOk, StackIs, Top
<1> DEFINE b == BareStack(stack)
<1>2. b \in Seq(Frames) /\ b # <<>> /\ Last(b) = Bare(Top) /\ Bare(Top) \in Frames
    BY <1>1, BareStackFacts, BareLast, BareFacts
<1>3. BareStack(stack') = Turn(b, Bare(Top))
  <2>1. Become(fr) = Turn(stack, fr)
      BY DEF Become, Turn
  <2> QED
      BY <1>1, <2>1, BareTurn
<1> HIDE DEF b
<1>4. Turn(b, Last(b)) = b
  <2> DEFINE r == Front(b)
             t == Append(r, Last(b))
  <2>1. /\ r \in Seq(Frames) /\ Len(r) = Len(b) - 1 /\ Len(b) \in Nat \ {0}
        /\ \A n \in 1..Len(b) - 1 : r[n] = b[n]
      BY <1>2, FrontFacts
  <2>2. Last(b) = b[Len(b)] /\ Last(b) \in Frames
      BY <1>2 DEF Last
  <2> HIDE DEF r
  <2>3. t \in Seq(Frames) /\ Len(t) = Len(b) /\ \A n \in 1..Len(t) : t[n] = b[n]
      BY <2>1, <2>2
  <2>4. t = b
      BY <1>2, <2>3, SeqEqual
  <2> QED
      BY <2>4 DEF Turn, r
<1>5. Len(stack') = Len(stack) /\ stack'[Len(stack)] = fr /\ Len(stack) \in Nat \ {0}
  <2>1. Len(stack) \in Nat \ {0}
      BY <1>1
  <2> QED
      BY <1>1, <2>1, BecomeFacts
<1>6. Top' = fr /\ Key' = KeyOf(fr) /\ stack' # <<>>
  <2>1. stack' # <<>>
      BY <1>5
  <2>2. Top' = fr
      BY <1>5 DEF Top, Last
  <2> QED
      BY <2>1, <2>2 DEF Key, KeyOf
<1>7. KeyOf(fr) = Key
  <2>1. KeyOf(Bare(fr)) = KeyOf(fr) /\ KeyOf(Bare(Top)) = KeyOf(Top)
      BY <1>1, BareFacts
  <2> QED
      BY <2>1 DEF Key, KeyOf
<1> QED
    BY <1>2, <1>3, <1>4, <1>6, <1>7 DEF b

LEMMA CallOrder ==
    ASSUME TInv, WalkOrder, [Next]_vars, Call \/ Arm \/ AttemptAgain
    PROVE  WalkOrder'
<1>1. /\ Walking /\ stack # <<>> /\ InOrder /\ Fresh /\ phase' = phase /\ UNCHANGED flow
      /\ \E R \in Trails : \E F : OnTrail(R, F)
    BY WalkStarts DEF Walk
<1>2. UNCHANGED <<journal, verdict>>
    BY DEF Call, Arm, AttemptAgain, Inner, engineVars
<1>3. /\ BareStack(stack') = BareStack(stack) /\ Key' = Key /\ stack' # <<>>
      /\ StackBehind(flow, stack', journal)
  <2>1. CASE Arm
      BY <1>1, <2>1 DEF Arm, Inner, engineVars, Key, Top, InOrder
  <2>2. CASE Call \/ AttemptAgain
    <3>1. PICK i \in Nat : stack' = Become([Top EXCEPT !.at = "calling", !.i = i])
      <4>1. CASE Call
          BY <4>1 DEF Call
      <4>2. CASE AttemptAgain
        <5>1. Top \in Frames /\ Top.at = "calling" /\ stack' = Become([Top EXCEPT !.i = @ + 1])
            BY <1>1, <4>2, TopOrder DEF AttemptAgain, At
        <5>2. Top.i + 1 \in Nat
            BY <5>1 DEF Frames
        <5>3. [Top EXCEPT !.i = @ + 1] = [Top EXCEPT !.at = "calling", !.i = Top.i + 1]
            BY <5>1 DEF Frames
        <5> QED
            BY <5>1, <5>2, <5>3
      <4> QED
          BY <2>2, <4>1, <4>2
    <3> DEFINE fr == [Top EXCEPT !.at = "calling", !.i = i]
    <3>2. Top \in Frames /\ Behind(flow, Top, journal) /\ StackOk /\ Top.at \in {"enter", "calling"}
          /\ Top.step \notin flow.skipped
        BY <1>1, <2>2, TopOrder DEF Call, AttemptAgain, Entered, At, Behind
    <3>3. /\ fr \in Frames /\ fr.step = Top.step /\ fr.path = Top.path /\ fr.at = "calling"
          /\ fr.todo = Top.todo
        BY <3>2 DEF Frames
    <3> HIDE DEF fr
    <3>4. Bare(fr) = Bare(Top)
        BY <3>2, <3>3 DEF Bare
    <3>5. Behind(flow, fr, journal)
        BY <3>2, <3>3 DEF Behind
    <3>6. StackBehind(flow, Become(fr), journal)
        BY <1>1, <3>2, <3>3, <3>5, StaysItself, BehindTurned DEF InOrder
    <3> QED
        BY <1>1, <3>1, <3>3, <3>4, <3>6, Remains DEF fr
  <2> QED
      BY <2>1, <2>2
<1>4. Fresh'
  <2>1. Key \notin DOMAIN journal \/ Paused(Key)
    <3>1. CASE Call
      <4>1. Is("action") => ~Completed(Key)
          BY <3>1 DEF Call, Is
      <4>2. Is("ai") => ~Has(journal, Key, "SUCCEEDED") /\ Key[2] \notin flow.continues
        <5>1. Key[2] = Top.step /\ Top.step \in Steps /\ flow \in Flows
            BY <1>1, TopOrder DEF KeyOf
        <5> QED
            BY <3>1, <5>1, FlowFacts DEF Call, Is, Asks
      <4>3. Is("action") \/ Is("ai")
          BY <3>1 DEF Call
      <4>4. Key \in DOMAIN journal => PassedIn(flow, journal, Key) \/ Paused(Key)
          BY <1>1, TopOrder
      <4> QED
          BY <4>1, <4>2, <4>3, <4>4 DEF Completed, PassedIn
    <3>2. CASE Arm \/ AttemptAgain
        BY <1>1, <3>2 DEF Arm, AttemptAgain, Fresh
    <3> QED
        BY <3>1, <3>2
  <2> QED
      BY <1>2, <1>3, <2>1 DEF Fresh, Paused
<1>5a. PICK R \in Trails : \E F : OnTrail(R, F)
    BY <1>1
<1>5. PICK F : OnTrail(R, F)
    BY <1>5a
<1>6. OnTrail(R, F)'
    BY <1>1, <1>2, <1>3, <1>5 DEF OnTrail
<1>7. R \in Trails'
    BY <1>1, <1>5, SameFlow DEF Trails
<1>8. verdict.is = "RUNNING"
    BY <1>1 DEF Walking, Running, Verdict
<1> QED
    BY <1>1, <1>2, <1>3, <1>4, <1>6, <1>7, <1>8 DEF WalkOrder, InOrder

LEMMA TurnedOrder ==
    ASSUME RoutersLookBack, TInv, WalkOrder, [Next]_vars, Walk, Turned, verdict' = Running,
           ~Call, ~Arm, ~AttemptAgain
    PROVE  WalkOrder'
<1>1. /\ Walking /\ stack # <<>> /\ InOrder /\ Fresh /\ phase' = phase /\ UNCHANGED flow
      /\ \E R \in Trails : \E F : OnTrail(R, F)
    BY WalkStarts
<1>2. stack' \in Seq(Frames)
    BY <1>1, EngineStep, SameFlow DEF EngineOk, StackOk, StackIs
<1>3a. PICK R \in Trails : \E F : OnTrail(R, F)
    BY <1>1
<1>3. PICK F : OnTrail(R, F)
    BY <1>3a
<1>4. /\ stack' = <<>> => PausedIn(journal') = {}
      /\ stack' # <<>> => \E Q \in Trails : \E G : OnTrail(Q, G)'
    BY <1>1, <1>2, <1>3, TurnedOn
<1>5. Trails' = Trails
    BY <1>1, SameFlow DEF Trails
<1>6. Fresh'
    BY NotCalling DEF Fresh
<1>7. verdict'.is = "RUNNING"
    BY DEF Running, Verdict
<1> QED
    BY <1>1, <1>4, <1>5, <1>6, <1>7 DEF WalkOrder, Turned

\* A handler returned: the step waits, or ends the walk.
LEMMA ReturnedOrder ==
    ASSUME RoutersLookBack, TInv, WalkOrder, [Next]_vars, Pause \/ Succeed \/ Fail \/ NoAnswer,
           verdict' # Running
    PROVE  WalkOrder'
<1>1. /\ Walking /\ stack # <<>> /\ InOrder /\ Fresh /\ phase' = phase /\ UNCHANGED flow
      /\ \E R \in Trails : \E F : OnTrail(R, F)
    BY WalkStarts DEF Walk
<1>2. /\ Top \in Frames /\ Top = Last(stack) /\ Behind(flow, Top, journal) /\ Key = KeyOf(Top)
      /\ flow \in Flows /\ Key[1] = Top.path /\ Key[2] = Top.step /\ stack \in Seq(Frames)
      /\ FrameOk(Top, journal)
    BY <1>1, TopOrder DEF KeyOf
<1>3. (Top.at = "calling" /\ At("calling")) \/ (Entered /\ Is("ai") /\ Paused(Key))
    BY DEF Pause, Succeed, Fail, NoAnswer, At
<1>4a. PICK R \in Trails : \E F : OnTrail(R, F)
    BY <1>1
<1>4. PICK F : OnTrail(R, F)
    BY <1>4a
<1>5. BareStack(stack) = F /\ PausedIn(journal) \subseteq {Key}
  <2>1. Paused(Key) => ~Has(journal, Key, "SUCCEEDED")
      BY DEF Paused, Has
  <2> QED
      BY <1>1, <1>3, <1>4, <2>1, AtEnd
<1>6. stack' = <<>> /\ \E s \in {"PAUSED", "SUCCEEDED", "FAILED"} :
          /\ journal' = Set(Key, s, {})
          /\ s = "PAUSED" => Pause /\ verdict'.is = "PAUSED"
          /\ s # "PAUSED" => verdict'.is = s
  <2>1. CASE Pause
      BY <2>1 DEF Pause, Return, Verdict
  <2>2. CASE Succeed
      BY <2>2 DEF Succeed, Return, Verdict
  <2>3. CASE Fail
      BY <2>3 DEF Fail, Return, Failure, Verdict
  <2>4. CASE NoAnswer
      BY <2>4 DEF NoAnswer, Return, Failure, Verdict
  <2> QED
      BY <2>1, <2>2, <2>3, <2>4
<1>7. PICK s \in {"PAUSED", "SUCCEEDED", "FAILED"} :
          /\ journal' = Set(Key, s, {})
          /\ s = "PAUSED" => Pause /\ verdict'.is = "PAUSED"
          /\ s # "PAUSED" => verdict'.is = s
    BY <1>6
<1>8. Top.step \notin flow.skipped
    BY <1>2, <1>3 DEF Behind, Entered
<1>9. Placed(flow, journal')
    BY <1>1, <1>2, <1>7, <1>8, PlacedSet DEF InOrder, Behind
<1>10. PausedIn(journal') = (PausedIn(journal) \ {Key}) \cup (IF s = "PAUSED" THEN {Key} ELSE {})
    BY <1>7, PausedSet
<1>11. StackBehind(flow, stack', journal')
    BY <1>6 DEF StackBehind
<1>12. s = "PAUSED" => Clean(flow, journal') /\ Waiting(journal)' /\ PausedIn(journal') \subseteq armed'
  <2> SUFFICES ASSUME s = "PAUSED"
               PROVE  Clean(flow, journal') /\ Waiting(journal)' /\ PausedIn(journal') \subseteq armed'
      OBVIOUS
  <2>1. Pause /\ Top.at = "calling" /\ Key \in armed /\ armed' = armed
      BY <1>7 DEF Pause, At, Inner
  <2>2. PausedIn(journal') = {Key}
      BY <1>5, <1>10
  <2>3. ~PassedIn(flow, journal, Key)
      BY <1>1, <2>1 DEF Fresh, Pause, PassedIn, Has, Paused
  <2>4. Clean(flow, journal')
      BY <1>1, <1>2, <1>7, <2>1, CleanSet DEF InOrder, FrameOk
  <2>5. StaysPassed(flow, journal, journal')
      BY <1>7, <2>3, StaysSet
  <2>6. Trail(flow, R, F, journal')
    <3>1. Trail(flow, R, F, journal) /\ R \in SUBSET Seq(Frames) /\ Placed(flow, journal)
        BY <1>1, <1>4 DEF OnTrail, Trails, InOrder
    <3> QED
        BY <1>2, <1>9, <2>5, <3>1, TrailStays
  <2>7. F # <<>> /\ Last(F).at = "enter" /\ KeyOf(Last(F)) = Key
    <3>1. F # <<>> /\ Last(F) = Bare(Top)
        BY <1>1, <1>2, <1>5, BareLast
    <3> QED
        BY <1>2, <2>1, <3>1, BareFacts
  <2>8. Trails' = Trails
      BY <1>1, SameFlow DEF Trails
  <2>9. Waiting(journal)'
      BY <1>1, <1>4, <2>2, <2>6, <2>7, <2>8 DEF Waiting
  <2> QED
      BY <2>1, <2>2, <2>4, <2>9
<1>13. s = "FAILED" => PausedIn(journal') = {}
    BY <1>5, <1>10
<1>14. ~Walking'
    BY DEF Walking
<1>15. verdict'.is = s
    BY <1>7
<1> QED
    BY <1>1, <1>9, <1>11, <1>12, <1>13, <1>14, <1>15 DEF WalkOrder

LEMMA WalkStepOrder ==
    ASSUME RoutersLookBack, DistinctRoutes, TInv, WalkOrder, [Next]_vars, Walk
    PROVE  WalkOrder'
<1>1. Walking /\ InOrder /\ Fresh
    BY WalkStarts
<1>2. CASE verdict' = Running
    BY <1>1, <1>2, Turns, TurnedOrder, CallOrder
<1>3. CASE verdict' # Running
  <2>1. verdict = Running
      BY <1>1 DEF Walking
  <2>2. Pause \/ Succeed \/ Fail \/ NoAnswer
      BY <1>3, <2>1 DEF Walk, Skip, Reuse, Call, Arm, AttemptAgain, Handled, EnterLoop, EnterRouter,
         Replay, Answer, NextChild, Leave, Inner, engineVars
  <2> QED
      BY <1>3, <2>2, ReturnedOrder
<1> QED
    BY <1>2, <1>3

(***************************************************************************)
(* The log between the walks, and the job that begins one.                 *)
(***************************************************************************)
LogOrder ==
    /\ Placed(flow, log)
    /\ phase \in {"uploaded", "reported", "idle"} => log = journal
    /\ phase \in {"reported", "idle"} => status.is = verdict.is
    /\ phase = "queued" /\ job.kind = "resume" =>
          IF job.reason = "waitpoint" THEN Clean(flow, log) /\ Waiting(log) ELSE PausedIn(log) = {}

\* A walk begins at the head of the flow, with nothing behind it.
LEMMA FirstFacts ==
    ASSUME flow \in Flows, NEW j
    PROVE  /\ First(flow) \in Seq(Frames) /\ First(flow) # <<>>
           /\ BareStack(First(flow)) = First(flow) /\ Last(First(flow)) = Frame(flow.head, <<>>)
           /\ StackBehind(flow, First(flow), j)
<1> DEFINE st == First(flow)
           fr == Frame(flow.head, <<>>)
<1>1. flow.head \in Steps /\ flow.head # NoStep /\ PathTo(flow, flow.head) = {} /\ Depth(flow, flow.head) = 0
    BY WayFromHead, FlowFacts
<1>2. <<>> \in Paths /\ <<>> \in Seq(Frames) /\ Len(<<>>) = 0 /\ BareStack(<<>>) = <<>>
    BY DEF Paths, BareStack
<1>3. st \in Seq(Frames) /\ Len(st) = 1 /\ st[1] = fr
  <2>1. \A e \in Seq(Frames), h \in Steps, p \in Paths : h # NoStep =>
            /\ Execute(e, h, p) \in Seq(Frames) /\ Len(Execute(e, h, p)) = Len(e) + 1
            /\ Execute(e, h, p)[Len(e) + 1] = Frame(h, p)
      BY ExecuteFacts
  <2>2. Len(<<>>) + 1 = 1
      BY <1>2
  <2> QED
      BY <1>1, <1>2, <2>1, <2>2 DEF First
<1>4. Behind(flow, fr, j)
    BY <1>1 DEF Behind, Frame
<1>5. BareStack(st) = st
  <2>1. \A e \in Seq(Frames), h \in Steps, p \in Paths :
            BareStack(Execute(e, h, p)) = Execute(BareStack(e), h, p)
      BY BareExecute
  <2>2. BareStack(Execute(<<>>, flow.head, <<>>)) = Execute(BareStack(<<>>), flow.head, <<>>)
    <3> HIDE DEF st, fr
    <3> QED
        BY <1>1, <1>2, <2>1
  <2> QED
      BY <1>2, <2>2 DEF First
<1> HIDE DEF st, fr
<1>6. Last(st) = fr /\ st # <<>>
    BY <1>3 DEF Last
<1>7. StackBehind(flow, st, j)
    BY <1>3, <1>4 DEF StackBehind
<1> QED
    BY <1>3, <1>5, <1>6, <1>7 DEF st, fr

\* What the engine starts from.
LEMMA StartJournal ==
    ASSUME RoutersLookBack, TInv, LogOrder, Start
    PROVE  /\ Placed(flow, journal') /\ Clean(flow, journal')
           /\ PausedIn(journal') = {} \/ Waiting(journal)'
<1>0. /\ phase = "queued" /\ UNCHANGED flow /\ Placed(flow, log) /\ JournalOk(log) /\ flow \in Flows
      /\ journal' = IF job.kind = "begin" THEN NoEntries ELSE Restrict(log, RestoredSteps)
    BY DEF Start, LogOrder, TInv, EngineOk, RunOk
<1>1. CASE job.kind = "begin"
    BY <1>0, <1>1 DEF NoEntries, Placed, Clean, PausedIn
<1>2. CASE job.kind # "begin"
  <2>1. job.kind = "resume" /\ job.reason \in {"waitpoint", "retry"}
      BY <1>2 DEF TInv, RunOk, BeginJob, ResumeJob
  <2>2. /\ RestoredSteps \subseteq DOMAIN log /\ DOMAIN journal' = RestoredSteps
        /\ \A k \in RestoredSteps : journal'[k] = log[k] /\ IsStepRestorable(log[k].status)
    <3>1. /\ RestoredSteps \subseteq DOMAIN log
          /\ \A k \in RestoredSteps : IsStepRestorable(log[k].status)
        BY DEF RestoredSteps
    <3> QED
        BY <1>0, <1>2, <3>1, RestrictFacts
  <2>3. Placed(flow, journal')
      BY <1>0, <2>2 DEF Placed
  <2>4. CASE job.reason = "retry"
    <3>1. PausedIn(log) = {}
        BY <1>0, <2>1, <2>4 DEF LogOrder
    <3>2. \A k \in DOMAIN journal' : journal'[k].status = "SUCCEEDED"
        BY <2>2, <2>4, <3>1 DEF PausedIn, IsStepRestorable
    <3> QED
        BY <2>3, <3>2 DEF Clean, PassedIn, Has, PausedIn
  <2>5. CASE job.reason = "waitpoint"
    <3>1. Clean(flow, log) /\ Waiting(log)
        BY <1>0, <2>1, <2>5 DEF LogOrder
    <3>2. \A k \in DOMAIN log : IsStepRestorable(log[k].status)
        BY <2>5, <3>1 DEF Clean, PassedIn, Has, IsStepRestorable
    <3>3. RestoredSteps = DOMAIN log
        BY <1>0, <3>2 DEF RestoredSteps, JournalOk
    <3>4. Clean(flow, journal') /\ PausedIn(journal') = PausedIn(log) /\ StaysPassed(flow, log, journal')
        BY <2>2, <3>1, <3>3 DEF Clean, PassedIn, Has, PausedIn, StaysPassed
    <3>5a. PICK R \in Trails : \E F : /\ Trail(flow, R, F, log) /\ F # <<>> /\ Last(F).at = "enter"
                                      /\ PausedIn(log) = {KeyOf(Last(F))}
        BY <3>1 DEF Waiting
    <3>5. PICK F : /\ Trail(flow, R, F, log) /\ F # <<>> /\ Last(F).at = "enter"
                   /\ PausedIn(log) = {KeyOf(Last(F))}
        BY <3>5a
    <3>6. Trail(flow, R, F, journal')
        BY <1>0, <2>3, <3>4, <3>5, TrailStays DEF Trails
    <3>7. Waiting(journal)'
        BY <1>0, <3>4, <3>5, <3>6, SameFlow DEF Waiting, Trails
    <3> QED
        BY <2>3, <3>4, <3>7
  <2> QED
      BY <2>1, <2>4, <2>5
<1> QED
    BY <1>1, <1>2

LEMMA StartOrder == ASSUME RoutersLookBack, TInv, LogOrder, Start PROVE WalkOrder'
<1>1. /\ Placed(flow, journal') /\ Clean(flow, journal')
      /\ PausedIn(journal') = {} \/ Waiting(journal)'
    BY StartJournal
<1>2. /\ flow \in Flows /\ UNCHANGED flow /\ stack' = First(flow)
      /\ verdict' = Running /\ Running.is = "RUNNING"
    BY DEF Start, TInv, RunOk, First, Running, Verdict
<1>3. /\ First(flow) \in Seq(Frames) /\ stack' # <<>> /\ BareStack(stack') = First(flow)
      /\ Last(stack').at # "calling" /\ StackBehind(flow, stack', journal') /\ KeyOf(Last(stack')) = Key'
    BY <1>2, FirstFacts DEF Frame, KeyOf, Key, Top
<1>4. Trails' = Trails
    BY <1>2, SameFlow DEF Trails
<1>5. \E R \in Trails : \E F : OnTrail(R, F)'
  <2>1. CASE PausedIn(journal') = {}
    <3> PICK F : F = First(flow)
        OBVIOUS
    <3>1. {F} \in Trails
        BY <1>3 DEF Trails
    <3>2. Trail(flow, {F}, F, journal')
        BY DEF Trail
    <3>3. OnTrail({F}, F)'
        BY <1>2, <1>3, <2>1, <3>2 DEF OnTrail
    <3> QED
        BY <3>1, <3>3
  <2>2. CASE Waiting(journal)'
    <3>1a. PICK R \in Trails : \E F : /\ Trail(flow, R, F, journal') /\ F # <<>> /\ Last(F).at = "enter"
                                      /\ PausedIn(journal') = {KeyOf(Last(F))}
        BY <1>2, <1>4, <2>2 DEF Waiting
    <3>1. PICK F : /\ Trail(flow, R, F, journal') /\ F # <<>> /\ Last(F).at = "enter"
                   /\ PausedIn(journal') = {KeyOf(Last(F))}
        BY <3>1a
    <3>2. First(flow) \in R /\ Last(First(flow)) = Last(stack')
        BY <1>2, <3>1 DEF Trail
    <3>3. OnTrail(R, F)'
        BY <1>2, <1>3, <3>1, <3>2 DEF OnTrail
    <3> QED
        BY <3>1, <3>3
  <2> QED
      BY <1>1, <2>1, <2>2
<1>6. Fresh'
    BY <1>3 DEF Fresh, At, Top
<1> QED
    BY <1>1, <1>2, <1>3, <1>4, <1>5, <1>6 DEF WalkOrder

\* The steps of the server leave the walk, and throw nothing away that is not recorded.
LEMMA AroundOrder ==
    ASSUME TInv, WalkOrder, \/ Flush \/ Upload \/ SendReport \/ Complete \/ Signal \/ Retry
                            \/ UNCHANGED vars
    PROVE  WalkOrder'
<1>1. UNCHANGED <<flow, stack, journal>>
    BY DEF Flush, Upload, SendReport, Complete, Signal, Retry, vars, engineVars
<1>2. Trails' = Trails
    BY <1>1, SameFlow DEF Trails
<1>3. Waiting(journal)' <=> Waiting(journal)
    BY <1>1, <1>2 DEF Waiting
<1>4. Walking' => Walking /\ Fresh' /\ (Fresh' <=> Fresh)
  <2>1. Walking' => Flush \/ UNCHANGED vars
      BY DEF Walking, Upload, SendReport, Complete, Signal, Retry, Queue
  <2>2. Flush \/ UNCHANGED vars => UNCHANGED <<phase, verdict>>
      BY DEF Flush, vars, engineVars
  <2> QED
      BY <1>1, <2>1, <2>2 DEF Walking, Fresh, At, Top, Key, Paused, WalkOrder
<1>5. \A R, F : OnTrail(R, F)' <=> OnTrail(R, F)
    BY <1>1 DEF OnTrail, Key, Top
<1>6. verdict'.is = "PAUSED" /\ phase' # "queued" =>
          Clean(flow, journal) /\ Waiting(journal) /\ PausedIn(journal) \subseteq armed'
  <2> SUFFICES ASSUME verdict'.is = "PAUSED", phase' # "queued"
               PROVE  Clean(flow, journal) /\ Waiting(journal) /\ PausedIn(journal) \subseteq armed'
      OBVIOUS
  <2>1. ~Signal /\ ~Retry
      BY DEF Signal, Retry, Queue
  <2>2. verdict.is = "PAUSED" /\ phase # "queued"
      BY <2>1 DEF Flush, Upload, SendReport, Complete, vars, engineVars, Verdict, Running
  <2>3. armed' = armed
      BY <2>1, <2>2 DEF Flush, Upload, SendReport, Complete, vars, engineVars, serverVars,
         KeptWaitpoints, Reported
  <2> QED
      BY <2>2, <2>3 DEF WalkOrder
<1>7. verdict'.is = "FAILED" => verdict.is = "FAILED"
    BY DEF Flush, Upload, SendReport, Complete, Signal, Retry, vars, engineVars, Verdict, Running
<1> QED
    BY <1>1, <1>2, <1>3, <1>4, <1>5, <1>6, <1>7 DEF WalkOrder

LEMMA LogStep ==
    ASSUME TInv, WalkOrder, LogOrder, [Next]_vars, ~Redeliver, ~Kill, ~ResolveFails
    PROVE  LogOrder'
<1>1. UNCHANGED flow /\ Trails' = Trails
    BY FlowStays, SameFlow DEF Trails
<1>2. CASE Start
    BY <1>1, <1>2 DEF Start, serverVars, LogOrder
<1>3. CASE Walk
  <2>1. phase = "executing" /\ phase' = "executing" /\ UNCHANGED log
      BY <1>3, WalkStarts DEF Walking
  <2> QED
      BY <1>1, <2>1 DEF LogOrder
<1>4. CASE Flush
  <2>1. phase' = "executing" /\ log' = Snapshot /\ stack # <<>>
      BY <1>4 DEF Flush
  <2>2. At("calling") => Key[2] \notin flow.skipped /\ Len(Key[1]) = Depth(flow, Key[2])
    <3> SUFFICES ASSUME At("calling")
                 PROVE  Key[2] \notin flow.skipped /\ Len(Key[1]) = Depth(flow, Key[2])
        OBVIOUS
    <3>1. Walking /\ InOrder /\ Top.at = "calling"
        BY AtFacts DEF At, Walking, WalkOrder, InOrder
    <3>2. Behind(flow, Top, journal) /\ Key[1] = Top.path /\ Key[2] = Top.step
        BY <2>1, <3>1, TopOrder DEF KeyOf
    <3> QED
        BY <3>1, <3>2 DEF Behind
  <2>3. Placed(flow, log')
      BY <2>1, <2>2, PlacedSet DEF Snapshot, WalkOrder
  <2> QED
      BY <1>1, <2>1, <2>3 DEF LogOrder
<1>5. CASE Upload
    BY <1>1, <1>5 DEF Upload, LogOrder, WalkOrder
<1>6. CASE SendReport
    BY <1>1, <1>6 DEF SendReport, engineVars, LogOrder, Reported
<1>7. CASE Complete
    BY <1>1, <1>7 DEF Complete, engineVars, serverVars, LogOrder
<1>8. CASE Signal
  <2>1. phase = "idle" /\ status.is = "PAUSED" /\ UNCHANGED <<log, journal, verdict>>
        /\ phase' = "queued" /\ job' = ResumeJob("waitpoint")
      BY <1>8 DEF Signal, Queue, engineVars
  <2>2. log = journal /\ verdict.is = "PAUSED"
      BY <2>1 DEF LogOrder
  <2>3. Clean(flow, log) /\ Waiting(log)
      BY <2>1, <2>2 DEF WalkOrder
  <2>4. Waiting(log)'
      BY <1>1, <2>1, <2>3 DEF Waiting
  <2> QED
      BY <1>1, <2>1, <2>3, <2>4 DEF LogOrder, ResumeJob
<1>9. CASE Retry
  <2>1. phase = "idle" /\ status.is \in {"FAILED", "TIMEOUT"} /\ UNCHANGED log
        /\ phase' = "queued" /\ job' = ResumeJob("retry")
      BY <1>9 DEF Retry, Queue
  <2>2. log = journal /\ verdict.is = "FAILED"
      BY <2>1 DEF LogOrder, TInv, RunOk, Statuses
  <2>3. PausedIn(log) = {}
      BY <2>2 DEF WalkOrder
  <2> QED
      BY <1>1, <2>1, <2>3 DEF LogOrder, ResumeJob
<1>10. CASE UNCHANGED vars
  <2>1. Waiting(log)' <=> Waiting(log)
      BY <1>1, <1>10 DEF vars, Waiting
  <2> QED
      BY <1>1, <1>10, <2>1 DEF vars, LogOrder
<1> QED
    BY <1>2, <1>3, <1>4, <1>5, <1>6, <1>7, <1>8, <1>9, <1>10 DEF Next

(***************************************************************************)
(* The step that was given the payload of the job.                         *)
(***************************************************************************)
ReadOrder ==
    /\ phase = "queued" => readers = {}
    /\ readers = {} \/ \E K : /\ readers = {K}
                              /\ Walking => PausedIn(journal) = {} \/ (At("calling") /\ Key = K)

\* What is given the payload is the step that waits, and no other has been given it.
LEMMA NotRead ==
    ASSUME ReadOrder, Walking, Entered, Paused(Key)
    PROVE  readers = {}
<1>1. Key \in PausedIn(journal) /\ ~At("calling")
    BY DEF Paused, Has, PausedIn, Entered, At
<1> QED
    BY <1>1 DEF ReadOrder

LEMMA WalkReads ==
    ASSUME TInv, WalkOrder, ReadOrder, [Next]_vars, Walk
    PROVE  ReadOrder'
<1>1. /\ Walking /\ stack # <<>> /\ InOrder /\ Fresh /\ phase' = phase /\ UNCHANGED flow
      /\ \E R \in Trails : \E F : OnTrail(R, F)
    BY WalkStarts
<1>2. phase' # "queued" /\ (At("calling") => Top.at = "calling")
    BY <1>1 DEF Walking, At
<1>3a. PICK R \in Trails : \E F : OnTrail(R, F)
    BY <1>1
<1>3. PICK F : OnTrail(R, F)
    BY <1>3a
<1>4. CASE Call
  <2> DEFINE fr == [Top EXCEPT !.at = "calling", !.i = 1]
  <2>1. Top \in Frames /\ Top.at = "enter" /\ Entered /\ UNCHANGED journal /\ stack' = Become(fr)
        /\ readers' = IF Paused(Key) THEN readers \cup {Key} ELSE readers
      BY <1>1, <1>4, TopOrder DEF Call, Entered, At, Inner
  <2>2. CASE Paused(Key)
    <3>1. fr \in Frames /\ fr.at = "calling" /\ Bare(fr) = Bare(Top)
        BY <2>1 DEF Frames, Bare
    <3> HIDE DEF fr
    <3>2. Top' = fr /\ Key' = Key /\ stack' # <<>>
        BY <1>1, <2>1, <3>1, Remains
    <3>3. At("calling")'
        BY <1>1, <3>1, <3>2 DEF At, Walking
    <3>4. readers' = {Key}
        BY <1>1, <2>1, <2>2, NotRead
    <3>5. PICK K : K = Key
        OBVIOUS
    <3> QED
        BY <1>2, <3>2, <3>3, <3>4, <3>5 DEF ReadOrder
  <2>3. CASE ~Paused(Key)
    <3>1. ~At("calling")
        BY <2>1 DEF At
    <3> QED
        BY <1>1, <1>2, <2>1, <2>3, <3>1 DEF ReadOrder
  <2> QED
      BY <2>2, <2>3
<1>5. CASE Arm \/ AttemptAgain
  <2>1. At("calling") /\ UNCHANGED <<journal, readers>>
      BY <1>5 DEF Arm, AttemptAgain, Inner, engineVars, historyVars
  <2>2. At("calling")' /\ Key' = Key
    <3>1. CASE Arm
        BY <2>1, <3>1 DEF Arm, Inner, engineVars, At, Top, Key
    <3>2. CASE AttemptAgain
      <4> DEFINE fr == [Top EXCEPT !.i = @ + 1]
      <4>1. Top \in Frames /\ stack' = Become(fr) /\ Top.at = "calling"
          BY <1>1, <2>1, <3>2, TopOrder DEF AttemptAgain, At
      <4>2. fr \in Frames /\ fr.at = "calling" /\ Bare(fr) = Bare(Top)
          BY <4>1 DEF Frames, Bare
      <4> HIDE DEF fr
      <4>3. Top' = fr /\ Key' = Key /\ stack' # <<>>
          BY <1>1, <4>1, <4>2, Remains
      <4> QED
          BY <1>1, <4>2, <4>3 DEF At, Walking
    <3> QED
        BY <1>5, <3>1, <3>2
  <2> QED
      BY <1>1, <1>2, <2>1, <2>2 DEF ReadOrder
<1>6. CASE Answer \/ NoAnswer
  <2>1. /\ Entered /\ Is("ai") /\ Paused(Key) /\ readers' = readers \cup {Key}
        /\ \E s \in {"SUCCEEDED", "FAILED"} : \E r : journal' = Set(Key, s, r)
      BY <1>6 DEF Answer, NoAnswer
  <2>2. readers' = {Key}
      BY <1>1, <2>1, NotRead
  <2>3. PausedIn(journal) \subseteq {Key}
      BY <1>1, <1>3, <2>1, AtEnd DEF Paused, Has
  <2>4. PausedIn(journal') = {}
      BY <2>1, <2>3, PausedSet
  <2>5. PICK K : K = Key
      OBVIOUS
  <2> QED
      BY <1>2, <2>2, <2>4, <2>5 DEF ReadOrder
<1>7. CASE Pause \/ Succeed \/ Fail
  <2>1. At("calling") /\ Top.at = "calling" /\ UNCHANGED readers
      BY <1>7 DEF Pause, Succeed, Fail, At, Inner, historyVars
  <2>2. PausedIn(journal) \subseteq {Key}
      BY <1>1, <1>3, <2>1, AtEnd
  <2>3. Walking' => PausedIn(journal') = {}
    <3>1. CASE Pause
        BY <3>1 DEF Pause, Return, Walking, Verdict, Running
    <3>2. CASE Succeed \/ Fail
      <4>1. \E s \in {"SUCCEEDED", "FAILED"} : journal' = Set(Key, s, {})
          BY <3>2 DEF Succeed, Fail
      <4> QED
          BY <2>2, <4>1, PausedSet
    <3> QED
        BY <1>7, <3>1, <3>2
  <2> QED
      BY <1>2, <2>1, <2>3 DEF ReadOrder
<1>8. CASE Skip \/ Reuse \/ Handled \/ EnterLoop \/ EnterRouter \/ Replay \/ NextChild \/ Leave
  <2>1. ~At("calling") /\ UNCHANGED readers
      BY <1>8 DEF Skip, Reuse, Handled, EnterLoop, EnterRouter, Replay, NextChild, Leave, Entered, At,
         Inner, historyVars
  <2>2. UNCHANGED journal \/ \E r : journal' = Set(Key, "SUCCEEDED", r)
      BY <1>8 DEF Skip, Reuse, Handled, EnterLoop, EnterRouter, Replay, NextChild, Leave, Inner
  <2>3. PausedIn(journal') \subseteq PausedIn(journal)
      BY <2>2, PausedSet
  <2> QED
      BY <1>1, <1>2, <2>1, <2>3 DEF ReadOrder
<1> QED
    BY <1>4, <1>5, <1>6, <1>7, <1>8 DEF Walk

LEMMA ReadStep ==
    ASSUME TInv, WalkOrder, ReadOrder, [Next]_vars, ~Redeliver, ~Kill, ~ResolveFails
    PROVE  ReadOrder'
<1>1. CASE Walk
    BY <1>1, WalkReads
<1>2. CASE Start
    BY <1>2 DEF Start, historyVars, ReadOrder
<1>3. CASE Flush \/ UNCHANGED vars
    BY <1>3 DEF Flush, vars, engineVars, historyVars, ReadOrder, Walking, At, Top, Key
<1>4. CASE Upload \/ SendReport \/ Complete
  <2>1. UNCHANGED readers /\ phase' \in {"uploaded", "reported", "idle"}
      BY <1>4 DEF Upload, SendReport, Complete, historyVars
  <2> QED
      BY <2>1 DEF ReadOrder, Walking
<1>5. CASE Signal \/ Retry
    BY <1>5 DEF Signal, Retry, Queue, ReadOrder
<1> QED
    BY <1>1, <1>2, <1>3, <1>4, <1>5 DEF Next

(***************************************************************************)
(* What this makes of a run without faults.                                *)
(***************************************************************************)
Ordered == faults = Faults => WalkOrder /\ LogOrder /\ ReadOrder

LEMMA OrderedStart == ASSUME Init PROVE Ordered
<1>1. /\ journal = NoEntries /\ log = NoEntries /\ stack = <<>> /\ phase = "queued"
      /\ verdict = Running /\ Running.is = "RUNNING" /\ job.kind = "begin" /\ readers = {}
    BY DEF Init, BeginJob, Running, Verdict
<1>2. DOMAIN NoEntries = {}
    BY DEF NoEntries
<1>3. Placed(flow, NoEntries)
    BY <1>2 DEF Placed
<1>4. StackBehind(flow, stack, journal)
    BY <1>1 DEF StackBehind
<1>5. ~Walking
    BY <1>1 DEF Walking
<1>6. WalkOrder
    BY <1>1, <1>3, <1>4, <1>5 DEF WalkOrder
<1>7. LogOrder /\ ReadOrder
    BY <1>1, <1>3 DEF LogOrder, ReadOrder
<1> QED
    BY <1>6, <1>7 DEF Ordered

LEMMA OrderedStep ==
    ASSUME RoutersLookBack, DistinctRoutes, TInv, Ordered, [Next]_vars
    PROVE  Ordered'
<1> SUFFICES ASSUME faults' = Faults PROVE (WalkOrder /\ LogOrder /\ ReadOrder)'
    BY DEF Ordered
<1>1. faults = Faults
    BY FaultsShrink DEF TInv, RunOk
<1>2. WalkOrder /\ LogOrder /\ ReadOrder
    BY <1>1 DEF Ordered
<1>3. ~ResolveFails /\ ~Redeliver /\ ~Kill
    BY <1>1 DEF ResolveFails, Redeliver, Kill
<1>4. WalkOrder'
    BY <1>2, <1>3, StartOrder, WalkStepOrder, AroundOrder DEF Next
<1>5. LogOrder' /\ ReadOrder'
    BY <1>2, <1>3, LogStep, ReadStep
<1> QED
    BY <1>4, <1>5

LEMMA OrderKept == RoutersLookBack /\ DistinctRoutes => (Spec => [](TInv /\ Ordered))
<1> SUFFICES ASSUME RoutersLookBack, DistinctRoutes PROVE Spec => [](TInv /\ Ordered)
    OBVIOUS
<1>1. Init => Ordered
    BY OrderedStart
<1>2. TInv /\ Ordered /\ [Next]_vars => Ordered'
    BY OrderedStep
<1> QED
    BY <1>1, <1>2, Types, PTL DEF Spec

\* The calls that begin are of a step whose predecessor was passed, over a journal in which
\* nothing else waits or has failed
BeginsInOrder == \A k \in Begun : /\ \A j \in DOMAIN journal \ {k} : Passed(j)
                                  /\ \A s \in Steps \ flow.skipped :
                                        flow.next[s] = k[2] => Passed(<<k[1], s>>)

LEMMA InOrderBegins ==
    ASSUME TInv, WalkOrder, [Next]_vars
    PROVE  BeginsInOrder
<1> SUFFICES ASSUME NEW k \in Begun
             PROVE  /\ \A j \in DOMAIN journal \ {k} : Passed(j)
                    /\ \A s \in Steps \ flow.skipped : flow.next[s] = k[2] => Passed(<<k[1], s>>)
    BY DEF BeginsInOrder
<1>1. Call /\ k = Key
    BY BegunFacts
<1>2. /\ Walking /\ stack # <<>> /\ InOrder /\ \E R \in Trails : \E F : OnTrail(R, F)
    BY <1>1, WalkStarts DEF Walk
<1>3. \A x : Passed(x) <=> PassedIn(flow, journal, x)
    BY DEF Passed, PassedIn
<1>4. PausedIn(journal) \subseteq {Key}
  <2>1. Asks(Key) => ~Has(journal, Key, "SUCCEEDED")
      BY DEF Asks
  <2>2. \/ Entered /\ Is("action") /\ ~Completed(Key)
        \/ Entered /\ Is("ai") /\ ~Has(journal, Key, "SUCCEEDED")
      BY <1>1, <2>1 DEF Call
  <2> QED
      BY <1>2, <2>2, AtEnd
<1>5. \A j \in DOMAIN journal \ {k} : Passed(j)
    BY <1>1, <1>2, <1>3, <1>4 DEF InOrder, Clean, PausedIn
<1>6. ASSUME NEW s \in Steps \ flow.skipped, flow.next[s] = k[2] PROVE Passed(<<k[1], s>>)
  <2>1. /\ Top.path \in Paths /\ Top.step \in Steps /\ Behind(flow, Top, journal)
        /\ Key[1] = Top.path /\ Key[2] = Top.step /\ flow \in Flows
      BY <1>2, TopOrder DEF KeyOf
  <2>2. Top.step # NoStep
      BY <2>1, FlowFacts
  <2>3. s \in PathTo(flow, Top.step) /\ Depth(flow, s) = Depth(flow, Top.step)
      BY <1>1, <1>6, <2>1, <2>2, WayOn
  <2>4. SubSeq(Top.path, 1, Depth(flow, s)) = Top.path
      BY <2>1, <2>3, PathFacts DEF Behind, Paths
  <2>5. PassedIn(flow, journal, <<SubSeq(Top.path, 1, Depth(flow, s)), s>>)
      BY <1>6, <2>1, <2>3 DEF Behind
  <2> QED
      BY <1>1, <1>3, <2>1, <2>4, <2>5
<1> QED
    BY <1>5, <1>6

\* Until something dies, is killed or fails to resolve, a call begins only when the step
\* before it was passed and nothing else that is recorded waits or has failed: the walk that
\* resumes a run gets to the step that waited before it calls anything.
THEOREM UndisturbedRunsAreInOrder ==
    RoutersLookBack /\ DistinctRoutes => (Spec => [][faults = Faults => BeginsInOrder]_vars)
<1> SUFFICES ASSUME RoutersLookBack, DistinctRoutes
             PROVE  Spec => [][faults = Faults => BeginsInOrder]_vars
    OBVIOUS
<1>1. Spec => [](TInv /\ Ordered)
    BY OrderKept
<1>2. TInv /\ Ordered /\ [Next]_vars => [faults = Faults => BeginsInOrder]_vars
    BY InOrderBegins DEF Ordered
<1> QED
    BY <1>1, <1>2, PTL DEF Spec

\* In particular, a run that meets none of them calls its steps in order.
THEOREM FaultlessRunsAreInOrder ==
    RoutersLookBack /\ DistinctRoutes /\ Faults = {} => (Spec => CalledInOrder)
<1> SUFFICES ASSUME RoutersLookBack, DistinctRoutes, Faults = {} PROVE Spec => CalledInOrder
    OBVIOUS
<1>1. Spec => [][faults = Faults => BeginsInOrder]_vars
    BY UndisturbedRunsAreInOrder
<1>2. TInv => faults = Faults
    BY DEF TInv, RunOk
<1>3. [faults = Faults => BeginsInOrder]_vars /\ faults = Faults =>
        [\A k \in Begun : /\ \A j \in DOMAIN journal \ {k} : Passed(j)
                          /\ \A s \in Steps \ flow.skipped :
                                flow.next[s] = k[2] => Passed(<<k[1], s>>)]_vars
    BY DEF BeginsInOrder
<1> QED
    BY <1>1, <1>2, <1>3, Types, PTL DEF CalledInOrder

\* Until then, and so in a run that meets none of them, a PAUSED run waits for one step,
\* whose waitpoint is pending.
THEOREM FaultlessRunsAwaitOneStep ==
    RoutersLookBack /\ DistinctRoutes =>
        /\ Spec => [](faults = Faults => AwaitsOneStep)
        /\ Faults = {} => (Spec => []AwaitsOneStep)
<1> SUFFICES ASSUME RoutersLookBack, DistinctRoutes
             PROVE  /\ Spec => [](faults = Faults => AwaitsOneStep)
                    /\ Faults = {} => (Spec => []AwaitsOneStep)
    OBVIOUS
<1>1. Spec => [](TInv /\ Ordered)
    BY OrderKept
<1>2. TInv /\ Ordered => (faults = Faults => AwaitsOneStep)
  <2> SUFFICES ASSUME TInv, Ordered, faults = Faults, phase = "idle", status.is = "PAUSED"
               PROVE  \E k \in armed : {j \in DOMAIN log : log[j].status = "PAUSED"} = {k}
      BY DEF AwaitsOneStep
  <2>1. log = journal /\ verdict.is = "PAUSED"
      BY DEF Ordered, LogOrder
  <2>2. Waiting(journal) /\ PausedIn(journal) \subseteq armed
      BY <2>1 DEF Ordered, WalkOrder
  <2>3. PICK k : PausedIn(journal) = {k}
      BY <2>2 DEF Waiting
  <2> QED
      BY <2>1, <2>2, <2>3 DEF PausedIn
<1>3. Spec => [](faults = Faults => AwaitsOneStep)
    BY <1>1, <1>2, PTL
<1>4. ASSUME Faults = {} PROVE Spec => []AwaitsOneStep
  <2>1. TInv => faults = Faults
      BY <1>4 DEF TInv, RunOk
  <2> QED
      BY <1>1, <1>3, <2>1, PTL
<1> QED
    BY <1>3, <1>4

\* And the payload of a signal is given to one step at most.
THEOREM FaultlessRunsReadOnce ==
    RoutersLookBack /\ DistinctRoutes =>
        /\ Spec => [](faults = Faults => PayloadIsReadOnce)
        /\ Faults = {} => (Spec => []PayloadIsReadOnce)
<1> SUFFICES ASSUME RoutersLookBack, DistinctRoutes
             PROVE  /\ Spec => [](faults = Faults => PayloadIsReadOnce)
                    /\ Faults = {} => (Spec => []PayloadIsReadOnce)
    OBVIOUS
<1>1. Spec => [](TInv /\ Ordered)
    BY OrderKept
<1>2. TInv /\ Ordered => (faults = Faults => PayloadIsReadOnce)
  <2> SUFFICES ASSUME Ordered, faults = Faults PROVE Cardinality(readers) <= 1
      BY DEF PayloadIsReadOnce
  <2>1. readers = {} \/ \E K : readers = {K}
      BY DEF Ordered, ReadOrder
  <2>2. readers = {} => Cardinality(readers) = 0
      BY FS_EmptySet
  <2>3. ASSUME NEW K, readers = {K} PROVE Cardinality(readers) = 1
      BY <2>3, FS_Singleton
  <2> QED
      BY <2>1, <2>2, <2>3
<1>3. Spec => [](faults = Faults => PayloadIsReadOnce)
    BY <1>1, <1>2, PTL
<1>4. ASSUME Faults = {} PROVE Spec => []PayloadIsReadOnce
  <2>1. TInv => faults = Faults
      BY <1>4 DEF TInv, RunOk
  <2> QED
      BY <1>1, <1>3, <2>1, PTL
<1> QED
    BY <1>3, <1>4

==============================================================================
