--------------------------------- MODULE MCUe ---------------------------------
(* A small instance of UeContainer: one subscriber and the container of his UE. *)
EXTENDS UeContainer

CONSTANTS i1, r1, r2, plan1
==============================================================================
