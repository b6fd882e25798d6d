------------------------------- MODULE MCDetach -------------------------------
(* A small instance of LiveDetach: one subscriber and his UE. *)
EXTENDS LiveDetach, TLC

CONSTANTS i1, r1, r2, plan1, plan2

\* The subscriber is live and attached to begin with.
AttachedInit == DetachInit /\ suspended = {} /\ ue = [i \in IMSI |-> "attached"]

AttachedSpec == AttachedInit /\ [][DetachNext]_detachVars
==============================================================================
