--------------------------- MODULE BarrierPromise ---------------------------
(***************************************************************************)
(* What a barrier promises the step that paused on it: it listens until it *)
(* closes, closes once, says from then on what it had heard, and resumes   *)
(* the run with that at most once.  What a person decided is not changed.  *)
(***************************************************************************)
CONSTANTS Barriers, Signals, Approvals, Heard

VARIABLES
    phase,  \* of each barrier
    says    \* what each barrier would say of each signal

vars == <<phase, says>>

Init ==
    /\ phase = [b \in Barriers |-> "none"]
    /\ says = [b \in Barriers |-> [s \in Signals |-> "none"]]

Open(b) ==
    /\ phase[b] = "none"
    /\ \E asked \in SUBSET Signals :
           says' = [says EXCEPT ![b] = [s \in Signals |-> IF s \in asked THEN "PENDING" ELSE "none"]]
    /\ phase' = [phase EXCEPT ![b] = "open"]

Hear(b, s) ==
    /\ phase[b] = "open"
    /\ says[b][s] = "PENDING" \/ (says[b][s] # "none" /\ s \notin Approvals)
    /\ \E status \in Heard : says' = [says EXCEPT ![b][s] = status]
    /\ UNCHANGED phase

Close(b) ==
    /\ phase[b] = "open"
    /\ phase' = [phase EXCEPT ![b] = "closed"]
    /\ UNCHANGED says

Resume(b) ==
    /\ phase[b] = "closed"
    /\ phase' = [phase EXCEPT ![b] = "resumed"]
    /\ UNCHANGED says

\* With its run everything of a barrier is gone
Discard ==
    /\ phase' = [b \in Barriers |-> "gone"]
    /\ says' = [b \in Barriers |-> [s \in Signals |-> "none"]]

Next ==
    \/ \E b \in Barriers : Open(b) \/ Close(b) \/ Resume(b)
    \/ \E b \in Barriers, s \in Signals : Hear(b, s)
    \/ Discard

Spec == Init /\ [][Next]_vars
=============================================================================
