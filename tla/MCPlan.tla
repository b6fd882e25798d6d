-------------------------------- MODULE MCPlan --------------------------------
(* A small instance of PlanView: one subscriber, his UE, and plans in text. *)
EXTENDS PlanView, TLC

CONSTANTS i1, r1, r2, r3

Requests == Permutations(Request)

Plan(dl, ul) == [dl |-> dl, ul |-> ul]

\* With a Kilo of 10 the rates of `Even` and `Padded` are equal, and the downlink of
\* `Odd` is one and a half of theirs.
Even == Plan(ParseAMBR(1, "M"), ParseAMBR(1, "M"))
Odd == Plan(ParseAMBR(15, "K"), ParseAMBR(1, "M"))
Padded == Plan(ParseAMBR(10, "K"), ParseAMBR(1, "M"))

Plans == {Even, Odd}
PaddedPlans == {Odd, Padded}

\* The subscriber is live and attached to begin with.
AttachedInit == PlanInit /\ suspended = {} /\ ue = [i \in IMSI |-> "attached"]

AttachedSpec == AttachedInit /\ [][PlanNext]_planVars

\* No step and none of the properties reads the audit collection or its mirror on the
\* documents: states that differ in nothing else behave alike.  Nor does it matter
\* how far the audit of a request has got, as AuditFails can end it at once.
Unread(d) == [d EXCEPT !.last = "none"]

Auditing == {"audit", "mirrorSubs", "mirrorSuspended"}

Signalling ==
  <<{Unread(d) : d \in subs}, {Unread(d) : d \in suspended},
    [r \in Request |-> {Unread(d) : d \in got[r]}],
    [r \in Request |-> IF pc[r] \in Auditing THEN "audit" ELSE pc[r]],
    body, aborted, before, network, asked, live>>
==============================================================================
