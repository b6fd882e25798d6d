------------------------------ MODULE UeContainer ------------------------------
(***************************************************************************)
(* The container of a UE: a subscriber is back online when his UE is        *)
(* attached and the default route leads into the tunnel it has now.         *)
(*                                                                          *)
(* srsUE gives its tunnel a new address at each attach and installs no      *)
(* default route.  ue-entrypoint.sh does, in a loop that once a second asks *)
(* whether the tunnel has an address, and then sets or deletes the route: a *)
(* second command, which may find the tunnel otherwise than the first did.  *)
(* The script runs under `set -eu` and nothing guards the setting, so if it *)
(* fails the script ends, and with it the container and srsUE.              *)
(***************************************************************************)
EXTENDS LiveDetach

VARIABLES
  addr,  \* whether the tunnel of each UE has an address
  route, \* its default route: none, good, or set for an address it has no more
  script \* the next command of its script, or that the script has ended

container == <<addr, route, script>>
containerVars == <<detachVars, container>>

Route == {"none", "good", "stale"}

ContainerInit ==
  /\ DetachInit
  /\ addr = [i \in IMSI |-> ue[i] = "attached"]
  /\ route = [i \in IMSI |-> "none"]
  /\ script = [i \in IMSI |-> "check"]

Runs(i) == script[i] # "ended"

-----------------------------------------------------------------------------
(* The tunnel, while srsUE runs. *)

\* The tunnel gets a new address: a route that is still there is for the old one.
NewAddress(i) ==
  /\ addr'[i]
  /\ route'[i] \in IF route[i] = "none" THEN {"none"} ELSE {"none", "stale"}

\* The UE is detached: the tunnel keeps its address, or loses it and perhaps its route.
LeftTunnel(i) ==
  \/ addr'[i] = addr[i] /\ route'[i] = route[i]
  \/ ~addr'[i] /\ route'[i] \in {"none", route[i]}

\* What a step of the network does to the tunnel.
Tunnel(i) ==
  IF (ue[i] = "attached") = (ue'[i] = "attached")
    THEN addr'[i] = addr[i] /\ route'[i] = route[i]
  ELSE IF ue'[i] = "attached" THEN NewAddress(i)
  ELSE LeftTunnel(i)

\* A UE attaches for as long as its container runs.
RunningAttach(i) == Runs(i) /\ Attach(i)

NetworkStep ==
  /\ \/ \E r \in Request : StoreStep(r)
     \/ Poll \/ CancelLocation \/ InsertSubscriberData
     \/ \E i \in IMSI : RunningAttach(i)
  /\ addr' \in [IMSI -> BOOLEAN] /\ route' \in [IMSI -> Route]
  /\ \A i \in IMSI : Tunnel(i)
  /\ UNCHANGED script

-----------------------------------------------------------------------------
(* The script.  Each turn of its loop is one of the two pairs of commands. *)

Command(i, at, next) ==
  /\ script[i] = at
  /\ script' = [script EXCEPT ![i] = next]
  /\ UNCHANGED detachVars

\* Wrong: a loop that goes on to the route only when it finds none, as one that reacts
\* to an address that has appeared does.
CheckEdge(i) ==
  /\ Command(i, "check",
       IF ~addr[i] THEN "delete" ELSE IF route[i] = "none" THEN "replace" ELSE "check")
  /\ UNCHANGED <<addr, route>>

\* Does the tunnel have an address?
Check(i) ==
  /\ Command(i, "check", IF addr[i] THEN "replace" ELSE "delete")
  /\ UNCHANGED <<addr, route>>

\* Set the route anew, for the address that the tunnel has now.  If it has lost the one
\* that was found, the route is for none, or it cannot be set (ReplaceFails).
Replace(i) ==
  /\ Command(i, "replace", "check")
  /\ route' = [route EXCEPT ![i] = IF addr[i] THEN "good" ELSE "stale"]
  /\ UNCHANGED addr


\* The address has gone since it was found and the route cannot be set: `set -e` ends the
\* script, and the container takes srsUE and its tunnel with it.
ReplaceFails(i) ==
  /\ ~addr[i]
  /\ Command(i, "replace", "ended")
  /\ route' = [route EXCEPT ![i] = "none"]
  /\ UNCHANGED addr

\* Delete the route, which cannot fail (`|| true`), though an address may have come.
Delete(i) ==
  /\ Command(i, "delete", "check")
  /\ route' = [route EXCEPT ![i] = "none"]
  /\ UNCHANGED addr

Turn(i) == Check(i) \/ Replace(i) \/ ReplaceFails(i) \/ Delete(i)

ContainerNext == NetworkStep \/ \E i \in IMSI : Turn(i)

\* The HSS keeps polling, the S6a association stands, a UE never gives up for as long as
\* its container runs, and the loop turns until the script ends.  Nothing is asked of the
\* clients or of the provisioner, and nothing says whether a replace that can fail does.
ContainerSpec ==
  /\ ContainerInit /\ [][ContainerNext]_containerVars
  /\ WF_detachVars(Poll)
  /\ WF_detachVars(CancelLocation \/ InsertSubscriberData)
  /\ \A i \in IMSI : WF_detachVars(RunningAttach(i)) /\ WF_containerVars(Turn(i))

-----------------------------------------------------------------------------
(* Properties. *)

\* "A suspended UE recovers on its own once resumed" (docs/4G.md:117): the UE of a
\* subscriber who stays live is attached again and again, unless its container has ended.
LiveIsServed ==
  \A i \in IMSI : <>[]Holds(subs, i) => []<>(ue[i] = "attached") \/ <>~Runs(i)

\* "... no container recreate involved" (docs/4G.md:117), all the way to the Internet: the
\* UE of a subscriber who stays live is attached with a route into its present tunnel again
\* and again, however often it was detached and attached between two turns of the loop or
\* between the two commands of one, unless such a detach has ended its script.
LiveIsOnline ==
  \A i \in IMSI :
    <>[]Holds(subs, i) =>
      []<>(ue[i] = "attached" /\ addr[i] /\ route[i] = "good") \/ <>~Runs(i)

==============================================================================
