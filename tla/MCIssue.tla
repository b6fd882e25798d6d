------------------------------- MODULE MCIssue -------------------------------
(* Small instances of IssueSim: a batch of two SIMs beside one other request,  *)
(* which may be an issue as well, or a single SIM.                             *)
EXTENDS IssueSim

CONSTANTS r1, s1, s2, plan1

Batches == {<<s1, s2>>, <<r1>>}
OneSim == {<<s1>>}

\* The batch of two is sent.
BatchInit == IssueInit /\ s1 \in Sim

BatchSpec == BatchInit /\ [][IssueNext]_issueVars
==============================================================================
