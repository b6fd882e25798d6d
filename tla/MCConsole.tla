------------------------------- MODULE MCConsole -------------------------------
(* A small instance of Console: binary MSINs of two digits, words of three bits, *)
(* and imports that are too short, too long, too large or no numbers.            *)
EXTENDS Console

CONSTANTS r1, r2

MC_MsinOf ==
  [h00 |-> <<0, 0>>, h01 |-> <<0, 1>>, h10 |-> <<1, 0>>, h11 |-> <<1, 1>>,
   h100 |-> <<1, 0, 0>>, h111 |-> <<1, 1, 1>>, h1010 |-> <<1, 0, 1, 0>>,
   h1x |-> <<1, 2>>]

MC_IMSI == DOMAIN MC_MsinOf \cup {"foreign"}

Slow == [dl |-> "5M", ul |-> "1M"]
Fast == [dl |-> "9M", ul |-> "1M"]

Plans == {Slow, Fast}

MC_Ip == MC_IMSI \cup {"10.45.0.9"}

\* No step reads the line that was typed last, and only properties of steps do.
Untyped == <<vars, recs, log, said>>

Requests == Permutations(Request)
==============================================================================
