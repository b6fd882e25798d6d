------------------------------ MODULE FakeStore ------------------------------
(***************************************************************************)
(* What SetStatus promises: the in-memory Store of the unit tests           *)
(* (internal/store/fake.go) under concurrent suspend and resume requests.   *)
(* A mutex makes each operation one step: it takes effect at one moment     *)
(* between the request and its answer, or never.                            *)
(***************************************************************************)
CONSTANTS IMSI, Request

VARIABLES
  recs,   \* the status of each subscriber: "active", "suspended" or "absent"
  stage,  \* of each request: "idle", "pending", "done" or "refused"
  imsi,   \* the subscriber a request names
  barred  \* the Barred argument of a request

vars == <<recs, stage, imsi, barred>>

Status == {"active", "suspended", "absent"}

Init ==
  /\ recs \in [IMSI -> Status]
  /\ stage = [r \in Request |-> "idle"]
  /\ imsi \in [Request -> IMSI]
  /\ barred \in [Request -> BOOLEAN]

Begin(r) ==
  /\ stage[r] = "idle"
  /\ stage' = [stage EXCEPT ![r] = "pending"]
  /\ UNCHANGED <<recs, imsi, barred>>

\* mutate under the lock: r.Barred = barred.
SetStatus(r) ==
  /\ stage[r] = "pending" /\ recs[imsi[r]] # "absent"
  /\ recs' = [recs EXCEPT ![imsi[r]] = IF barred[r] THEN "suspended" ELSE "active"]
  /\ stage' = [stage EXCEPT ![r] = "done"]
  /\ UNCHANGED <<imsi, barred>>

\* ErrNotFound.  A store behind a network may also refuse for reasons of its own,
\* at any time before its answer; what it did by then stays done.
Refuse(r) ==
  /\ stage[r] \in {"pending", "done"}
  /\ stage' = [stage EXCEPT ![r] = "refused"]
  /\ UNCHANGED <<recs, imsi, barred>>

Next == \E r \in Request : Begin(r) \/ SetStatus(r) \/ Refuse(r)

Spec == Init /\ [][Next]_vars
==============================================================================
