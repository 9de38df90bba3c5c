---------------------------- MODULE MCFlowExecutor ----------------------------
(* Flows for TLC: each puts pauses, failures and stops where the executor's recursion has to *)
(* find its way back.                                                                          *)
EXTENDS FlowExecutor, TLC

\* A flow of these steps with nothing set
Blank(head, kind) ==
    LET S == DOMAIN kind IN
    [head |-> head, kind |-> kind, next |-> [s \in S |-> NoStep],
     children |-> [s \in S |-> <<NoStep, NoStep>>], items |-> [s \in S |-> 0],
     choices |-> [s \in S |-> <<>>], skipped |-> {}, continues |-> {}, retries |-> {},
     waits |-> {}, stops |-> {}, takesAll |-> {}]

Actions(S) == [s \in S |-> "action"]

\* a; for two items: charge, then confirm; b
ConfirmationsInALoop ==
    [Blank("a", Actions({"a", "charge", "confirm", "b"}) @@ ("l" :> "loop")) EXCEPT
        !.next = ("a" :> "l") @@ ("l" :> "b") @@ ("charge" :> "confirm") @@ @,
        !.children["l"] = <<"charge">>, !.items["l"] = 2,
        !.waits = {"confirm"}, !.retries = {"charge"}]

\* approve may fail, with a branch for either case; a router tests it; then one more wait
FailuresAllowed ==
    [Blank("approve", Actions({"approve", "good", "bad", "off", "ok", "ko", "b"})
                      @@ ("r" :> "router")) EXCEPT
        !.next = ("approve" :> "off") @@ ("off" :> "r") @@ ("r" :> "b") @@ @,
        !.children["approve"] = <<"good", "bad">>,
        !.children["r"] = <<"ko", "ok">>,
        !.choices["r"] = <<[on |-> "FAILED", of |-> "approve"], [on |-> "fallback", of |-> NoStep]>>,
        !.skipped = {"off"}, !.waits = {"approve", "ok", "b"}, !.continues = {"approve"}]

\* The best of two routes and a fallback; one of them waits
BestRoute ==
    [Blank("q", Actions({"x", "y", "b"}) @@ ("q" :> "ai")) EXCEPT
        !.next = ("q" :> "b") @@ @,
        !.children["q"] = <<"x", "y", NoStep>>, !.choices["q"] = <<"X", "Y", "fallback">>,
        !.waits = {"x"}]

\* No fallback: an answer may leave every route out
BestRouteOrNone ==
    [BestRoute EXCEPT !.children["q"] = <<"x", "y">>, !.choices["q"] = <<"X", "Y">>]

\* Two items: all routes that apply, then a step
AllRoutesInALoop ==
    [Blank("l", Actions({"x", "y", "s"}) @@ ("l" :> "loop") @@ ("q" :> "ai")) EXCEPT
        !.next = ("q" :> "s") @@ @,
        !.children["l"] = <<"q">>, !.items["l"] = 2, !.children["q"] = <<"x", "y">>,
        !.choices["q"] = <<"X", "fallback">>, !.takesAll = {"q"}, !.waits = {"x"}]

\* A loop in a loop, around one wait; a step that stops
NestedLoops ==
    [Blank("l", Actions({"w", "s", "b"}) @@ ("l" :> "loop") @@ ("m" :> "loop")) EXCEPT
        !.next = ("m" :> "b") @@ ("l" :> "s") @@ @,
        !.children["l"] = <<"m">>, !.children["m"] = <<"w">>, !.items["l"] = 2, !.items["m"] = 2,
        !.waits = {"w"}, !.continues = {"b"}, !.stops = {"s"}]

\* Two waits, and a step between them
TwoWaits ==
    [Blank("v", Actions({"v", "a", "w"})) EXCEPT
        !.next = ("v" :> "a") @@ ("a" :> "w") @@ @, !.waits = {"v", "w"}]

AllFlows     == {ConfirmationsInALoop, FailuresAllowed, BestRoute, BestRouteOrNone,
                 AllRoutesInALoop, NestedLoops, TwoWaits}
ShorterFlows == {ConfirmationsInALoop, FailuresAllowed, BestRoute}
LoopOnly     == {ConfirmationsInALoop}

\* What the proofs ask of a flow beyond FlowExecutorAssumption holds of these
ASSUME ProofHypotheses == RoutersLookBack /\ DistinctRoutes
=============================================================================
