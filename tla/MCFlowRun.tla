----------------------------- MODULE MCFlowRun -----------------------------
(* Instances of FlowRunResume for TLC. *)
EXTENDS FlowRunResume
=============================================================================
