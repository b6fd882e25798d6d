------------------------------- MODULE PlanView -------------------------------
(***************************************************************************)
(* What `telcoctl get` and `list` say of a plan.                            *)
(*                                                                          *)
(* Both handlers read the store first and then ask the MME for its live     *)
(* rates (internal/network/mme.go), which may fail and then counts for an   *)
(* empty answer.  telcoctl compares the TEXT of the two rates and notes     *)
(* "plan not yet applied, reattach pending" when they differ.               *)
(***************************************************************************)
EXTENDS LiveDetach, FiniteSetsExt

CONSTANT Kilo \* the step from one unit of a rate to the next: 1000 in the code

Unit == 0..4

\* An AMBR: a number and a unit.
Rate == [value: Nat, unit: Unit]

ASSUME PlanAssumption ==
  /\ Kilo \in Nat /\ Kilo > 1
  /\ Ambr \subseteq [dl: Rate, ul: Rate]

VARIABLES
  asked, \* the requests whose handler has asked the MME
  live   \* what the MME told each of them: rates of the UEs it knows, in bps

planVars == <<detachVars, asked, live>>

-----------------------------------------------------------------------------
(* Rates and their text: a number and a suffix. *)

ambrUnits == [K |-> 1, M |-> 2, G |-> 3, T |-> 4]

\* What the operator types: a number, and a letter or none.
ParseAMBR(number, letter) ==
  [value |-> number,
   unit |-> IF letter \in DOMAIN ambrUnits THEN ambrUnits[letter] ELSE 0]

\* How many bps each unit is, from unit 0 on.
Div == <<1, Kilo, Kilo * Kilo, Kilo * Kilo * Kilo, Kilo * Kilo * Kilo * Kilo>>

\* The rate that the HSS sends and the MME reports.
Bps(a) == a.value * Div[a.unit + 1]

BpsOf(plan) == [dl |-> Bps(plan.dl), ul |-> Bps(plan.ul)]

Suffix == <<"bps", "K", "M", "G", "T">>

ambrStr(a) == <<a.value, Suffix[a.unit + 1]>>

InUnit(n, u) == <<n \div Div[u + 1], Suffix[u + 1]>>

\* Wrong: the largest unit that the rate reaches, whatever is cut off.
bpsStrCut(n) == InUnit(n, Max({0} \cup {u \in Unit : n >= Div[u + 1]}))

\* Wrong: the units tried in ascending order.
bpsStrSmallest(n) ==
  InUnit(n, IF n # 0 /\ n % Kilo = 0 THEN 1 ELSE 0)

\* The largest unit that divides the rate; a rate of zero has none.
bpsStr(n) == InUnit(n, Max({0} \cup {u \in Unit : n # 0 /\ n % Div[u + 1] = 0}))

\* The part of a SubscriberView that is about the plan: its network is absent if
\* the MME does not know the UE, or was not reached.
view(d, m) ==
  [plan |-> <<ambrStr(d.ambr.dl), ambrStr(d.ambr.ul)>>,
   network |-> IF d.imsi \in DOMAIN m
                 THEN {<<bpsStr(m[d.imsi].dl), bpsStr(m[d.imsi].ul)>>} ELSE {}]

\* The note of telcoctl.
planPending(v) == \E n \in v.network : n # v.plan

-----------------------------------------------------------------------------
PlanInit ==
  /\ DetachInit
  /\ asked = {}
  /\ live = [r \in Request |-> [i \in {} |-> 0]]

\* The UEs the MME has a session of.
UeInfo == [i \in {j \in IMSI : ue[j] = "attached"} |-> BpsOf(sess[i].ambr)]

\* Wrong: the MME asked before the store.
FetchAllFirst(r) ==
  /\ pc[r] = "readSubs" /\ r \notin asked
  /\ asked' = asked \cup {r}
  /\ live' = [live EXCEPT ![r] = UeInfo]
  /\ UNCHANGED detachVars

\* The handler of get or list has its rows and asks the MME: an error, a late
\* answer or no MME at all make an empty map.
FetchAll(r) ==
  /\ pc[r] = "ok" /\ body[r].op \in Reads /\ r \notin asked
  /\ asked' = asked \cup {r}
  /\ \E info \in {UeInfo, [i \in {} |-> 0]} : live' = [live EXCEPT ![r] = info]
  /\ UNCHANGED detachVars

PlanNext ==
  \/ DetachNext /\ UNCHANGED <<asked, live>>
  \/ \E r \in Request : FetchAll(r)

PlanSpec == PlanInit /\ [][PlanNext]_planVars

-----------------------------------------------------------------------------
(* Properties. *)

PlanTypeOK ==
  /\ asked \subseteq {r \in Request : pc[r] = "ok" /\ body[r].op \in Reads}
  /\ \A r \in Request : /\ DOMAIN live[r] \subseteq IMSI
                        /\ \A i \in DOMAIN live[r] : live[r][i] \in [dl: Nat, ul: Nat]
                        /\ r \notin asked => DOMAIN live[r] = {}

\* No note, no difference: what is printed without the note is a plan that the MME
\* had taken over when it was asked, although only texts are compared and either
\* read may be out of date.
NoNoteNoGap ==
  \A r \in asked : \A d \in got[r] :
    d.imsi \in DOMAIN live[r] /\ ~planPending(view(d, live[r]))
      => live[r][d.imsi] = BpsOf(d.ambr)

\* The text that no larger unit would shorten.
Shortest(a) == IF a.value = 0 THEN a.unit = 0
               ELSE a.unit = 4 \/ a.value % Kilo # 0

\* A get whose handler asks the MME once the signalling has settled shows no note of a
\* plan typed in its shortest form, if no plan change ran beside it.
SettledGetHasNoNote ==
  \A r \in asked' \ asked :
    LET i == Imsi(r) IN
    /\ body[r].op = "get" /\ ue[i] = "attached" /\ ~sess[i].flagged
    /\ Settled(i) /\ Undisturbed(i)
    /\ \A q \in Request :
         Same(q, r) /\ body[q].op = "plan" => EndedBefore(q, r) \/ pc[q] = "idle"
    => \A d \in got[r] :
         Shortest(d.ambr.dl) /\ Shortest(d.ambr.ul) => ~planPending(view(d, live'[r]))

\* "the note is gone and the MME has it now too" (docs/scenarios/2-change-subscriber-plan.md):
\* it goes for an attached subscriber, if no move of him died or overlapped a request
\* and the session was not granted between the legs of a suspend.
NoteClears == [][SettledGetHasNoNote]_planVars

-----------------------------------------------------------------------------
(* What the repository says and the code does not keep: TLC refutes it. *)

\* "bpsStr formats a raw bps figure the same way ambrStr formats the provisioned
\* value, so the two are visually comparable" (server.go:178-180).
EqualRatesLookEqual ==
  \A r \in asked : \A d \in got[r] :
    d.imsi \in DOMAIN live[r] /\ live[r][d.imsi] = BpsOf(d.ambr)
      => ~planPending(view(d, live[r]))
==============================================================================
