------------------------------ MODULE MCBarrier ------------------------------
(* An instance of BarrierRelease for TLC: all, two of all, or none refused; with and without signals. *)
EXTENDS BarrierRelease

Asked == {Signals, {}}

\* All of them; or the first success, or the first failure
AllOrFirst ==
    {[requiredSuccesses |-> 0, releaseOnFirstFailure |-> FALSE],
     [requiredSuccesses |-> 1, releaseOnFirstFailure |-> TRUE]}
=============================================================================
