----------------------------- MODULE MCJobDispatch -----------------------------
(* Instances of JobDispatch for TLC: two flows that share a pool, or two polls of one flow version. *)
EXTENDS JobDispatch

FlowsOrPolls == {FlowJobs, PollJobs}

Symmetry == {f @@ p @@ w : f \in Permutations(FlowJobs), p \in Permutations(PollJobs),
                           w \in Permutations(Workers)}
=============================================================================
