------------------------------ MODULE MCFanOut ------------------------------
(* Instances of FanOutDispatch for TLC. *)
EXTENDS FanOutDispatch, TLC

DispatcherSymmetry == Permutations(Dispatchers)
=============================================================================
