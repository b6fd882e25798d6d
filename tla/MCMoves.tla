------------------------------- MODULE MCMoves -------------------------------
(* Small instances of SubscriberStore: which operations run is set by the cfg. *)
EXTENDS SubscriberStore, TLC

CONSTANTS i1, i2, r1, r2, r3, plan1, plan2, ip1

Requests == Permutations(Request)
==============================================================================
