---------------------------- MODULE MCHttpBackend ----------------------------
(* One worker and one place per queue.                                        *)
EXTENDS HttpBackend, TLC

CONSTANTS w1, w2

MCPoolOf == (w1 :> "normal") @@ (w2 :> "stream")
MCCapacity == [p \in Pool |-> 1]
=============================================================================
