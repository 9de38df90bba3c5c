--------------------------- MODULE FanOutPromise ---------------------------
(***************************************************************************)
(* What a fan-out promises the batch step that paused on it: each batch is *)
(* started at most once and only while the barrier is open, a started      *)
(* batch is never given up, a given-up batch is never started, and nothing *)
(* of the outcome changes after the barrier closed.  A batch an operator   *)
(* calls off before its start counts as over, although it may still start. *)
(***************************************************************************)
CONSTANT Batches

VARIABLES
    open,       \* the barrier still waits
    outcome,    \* what the barrier would say of each batch now
    started     \* the batches a child run was ever enqueued for

vars == <<open, outcome, started>>

Init ==
    /\ open = TRUE
    /\ outcome = [b \in Batches |-> "waiting"]
    /\ started = {}

Start(b) ==
    /\ open
    /\ outcome[b] = "waiting"
    /\ b \notin started
    /\ outcome' = [outcome EXCEPT ![b] = "running"]
    /\ started' = started \cup {b}
    /\ UNCHANGED open

Report(b) ==
    /\ open
    /\ outcome[b] = "running"
    /\ outcome' = [outcome EXCEPT ![b] = "reported"]
    /\ UNCHANGED <<open, started>>

CallOff(b) ==
    /\ open
    /\ outcome[b] = "waiting"
    /\ outcome' = [outcome EXCEPT ![b] = "called off"]
    /\ UNCHANGED <<open, started>>

StartAnyway(b) ==
    /\ open
    /\ outcome[b] = "called off"
    /\ outcome' = [outcome EXCEPT ![b] = "reported"]
    /\ started' = started \cup {b}
    /\ UNCHANGED open

GiveUp(given) ==
    /\ open
    /\ \A b \in given : outcome[b] = "waiting"
    /\ outcome' = [b \in Batches |-> IF b \in given THEN "skipped" ELSE outcome[b]]
    /\ UNCHANGED <<open, started>>

Close ==
    /\ open
    /\ open' = FALSE
    /\ outcome' = [b \in Batches |-> "over"]
    /\ UNCHANGED started

Next ==
    \/ \E given \in SUBSET Batches : GiveUp(given)
    \/ \E b \in Batches : Start(b) \/ Report(b) \/ CallOff(b) \/ StartAnyway(b)
    \/ Close

Spec == Init /\ [][Next]_vars
=============================================================================
