--------------------------- MODULE SubscriberStore ---------------------------
(***************************************************************************)
(* The provisioner's Mongo store (internal/store/mongo.go) under the REST   *)
(* handlers that call it (internal/api/server.go).                          *)
(*                                                                          *)
(* A subscriber is one document, held in `subscribers` (live: the HSS       *)
(* answers from it) or in `suspended_subscribers`.  Every HTTP request runs *)
(* in a goroutine of its own and no lock is taken anywhere, so a step of    *)
(* this module is ONE call to Mongo: between two calls of a request the     *)
(* calls of all the others may run, and the request may die (its client     *)
(* hangs up and cancels r.Context(), Mongo answers with an error, or the    *)
(* server crashes).  Nothing undoes the calls already made.                 *)
(*                                                                          *)
(* Requests that fail authentication or validation never reach the store    *)
(* and are left out, as is the key material: the `_id` of a document stands *)
(* for the record with its keys.                                            *)
(***************************************************************************)
EXTENDS Naturals, Sequences

CONSTANTS
  IMSI,        \* the subscribers' identities
  Seeded,      \* those provisioned when the behaviour starts
  Request,     \* the HTTP requests; each is served once
  Op,          \* the operations the clients of this instance use
  Ambr,        \* the plans: one value for the DL/UL pair
  DefaultAmbr, \* the plan of a new subscriber
  Ip,          \* static addresses
  NoIp         \* no static address

Reads == {"get", "list"}
Changes == {"suspend", "resume", "plan", "ip", "add", "remove"}

ASSUME StoreAssumption ==
  /\ Seeded \subseteq IMSI
  /\ Op \subseteq Reads \cup Changes
  /\ IMSI \cap Request = {}
  /\ DefaultAmbr \in Ambr
  /\ NoIp \notin Ip

-----------------------------------------------------------------------------
(* Documents and the calls on one collection. *)

\* The driver gives every inserted document a new `_id`: it is named after the
\* request that inserted it, or after the IMSI if it was there from the start.
DocId == IMSI \cup Request

Doc == [id: DocId, imsi: IMSI, status: {0, 1}, odb: {0, 1}, rcl: BOOLEAN,
        ambr: Ambr, ip: Ip \cup {NoIp}, last: Changes \cup {"none"}]

NewDoc(id, i) ==
  [id |-> id, imsi |-> i, status |-> 0, odb |-> 0, rcl |-> FALSE,
   ambr |-> DefaultAmbr, ip |-> NoIp, last |-> "none"]

Matching(coll, i) == {d \in coll : d.imsi = i}

Holds(coll, i) == Matching(coll, i) # {}

HasId(coll, id) == \E d \in coll : d.id = id

\* What a collection can be after DeleteOne({imsi: i}) and after
\* UpdateOne({imsi: i}, Set): there is no unique index on imsi, so with several
\* matching documents any one of them may be taken.
DeleteOne(coll, i) ==
  IF Holds(coll, i) THEN {coll \ {d} : d \in Matching(coll, i)} ELSE {coll}

UpdateOne(coll, i, Set(_)) ==
  IF Holds(coll, i) THEN {(coll \ {d}) \cup {Set(d)} : d \in Matching(coll, i)}
                    ELSE {coll}

-----------------------------------------------------------------------------
VARIABLES
  subs,      \* the collection `subscribers`
  suspended, \* the collection `suspended_subscribers`
  audit,     \* the collection `provisioning_audit`, in the order of `at`
  body,      \* what the client of each request asks for
  pc,        \* the next Mongo call of each request, or its answer
  got,       \* the documents a request has read and holds in memory
  aborted,   \* the requests that died; pc tells where
  before     \* ghost: the requests that had ended when a request was accepted

collections == <<subs, suspended>>
vars == <<subs, suspended, audit, body, pc, got, aborted, before>>

Body == {b \in [op: Op, imsi: IMSI, ambr: Ambr, ip: Ip \cup {NoIp}] :
           /\ b.op # "plan" => b.ambr = DefaultAmbr
           /\ b.op # "ip" => b.ip = NoIp}

Answer == {"ok", "notFound", "failed"}

Call == {"flag", "find", "count", "insert", "delete", "clear",
         "setSubs", "setSuspended", "unsetSubs", "unsetSuspended",
         "purgeSubs", "purgeSuspended", "insertNew",
         "readSubs", "readSuspended", "audit", "mirrorSubs", "mirrorSuspended",
         "maxSuspended"} \* the last one is made by issue-sim only (IssueSim)

\* Wrong: an add that trusts the subscriber not to exist.
FirstCallNoPurge(b) ==
  CASE b.op = "suspend" -> "flag"
    [] b.op = "resume" -> "find"
    [] b.op = "add" -> "insertNew"
    [] b.op = "remove" -> "purgeSubs"

\* The first Mongo call of each handler.
FirstCall(b) ==
  CASE b.op = "suspend" -> "flag"
    [] b.op = "resume" -> "find"
    [] b.op = "plan" -> "setSubs"
    [] b.op = "ip" -> IF b.ip = NoIp THEN "unsetSubs" ELSE "setSubs"
    [] b.op \in {"add", "remove"} -> "purgeSubs"
    [] b.op \in Reads -> "readSubs"

Imsi(r) == body[r].imsi

\* The next call of request r is c, and nothing has killed r.
At(r, c) == pc[r] = c /\ r \notin aborted

Goto(r, c) == /\ pc' = [pc EXCEPT ![r] = c]
              /\ UNCHANGED <<body, aborted, before>>

Ended(r) == pc[r] \in Answer \/ r \in aborted

\* Wrong: a suspend that bars and forgets to withdraw.
BarredOnly(d) == [d EXCEPT !.status = 1, !.odb = 1]

Barred(d) == [d EXCEPT !.status = 1, !.odb = 1, !.rcl = TRUE]

\* Some of the subscribers have been suspended before.
Init ==
  /\ \E stashed \in SUBSET Seeded :
       /\ subs = {NewDoc(i, i) : i \in Seeded \ stashed}
       /\ suspended = {Barred(NewDoc(i, i)) : i \in stashed}
  /\ audit = <<>>
  /\ body \in [Request -> Body]
  /\ pc = [r \in Request |-> "idle"]
  /\ got = [r \in Request |-> {}]
  /\ aborted = {}
  /\ before = [r \in Request |-> {}]

\* The mux hands the request to its handler.
Accept(r) ==
  /\ pc[r] = "idle"
  /\ pc' = [pc EXCEPT ![r] = FirstCall(body[r])]
  /\ before' = [before EXCEPT ![r] = {q \in Request : Ended(q)}]
  /\ UNCHANGED <<collections, audit, body, got, aborted>>

\* The request dies before its next call: client gone, Mongo error, or crash.
\* A call that took effect although the driver reported an error is the same
\* death one step later.
Abort(r) ==
  /\ pc[r] \in Call /\ r \notin aborted
  /\ aborted' = aborted \cup {r}
  /\ UNCHANGED <<collections, audit, body, pc, got, before>>

-----------------------------------------------------------------------------
(* SetStatus and move: suspend and resume. *)

\* Wrong: all three flags lowered, as a suspend raises all three.
ClearedAll(d) == [d EXCEPT !.status = 0, !.odb = 0, !.rcl = FALSE]

\* Wrong: only the barring lowered.
ClearedBarring(d) == [d EXCEPT !.odb = 0]

Cleared(d) == [d EXCEPT !.odb = 0, !.rcl = FALSE]

From(r) == IF body[r].op = "suspend" THEN subs ELSE suspended

Target(r) == IF body[r].op = "suspend" THEN suspended ELSE subs

\* Wrong: the barring stamped as a bit mask the HSS does not know.
StampMask(r) == IF body[r].op = "suspend" THEN 2 ELSE 0

Stamp(r) == IF body[r].op = "suspend" THEN 1 ELSE 0

\* What a handler does once move() has returned nil.
AfterMove(r) == IF body[r].op = "suspend" THEN "audit" ELSE "clear"

\* Suspend, leg 1: raise the withdrawal flags on the live document, if any.
Flag(r) ==
  /\ At(r, "flag")
  /\ subs' \in UpdateOne(subs, Imsi(r), Barred)
  /\ Goto(r, "find")
  /\ UNCHANGED <<suspended, audit, got>>

\* Wrong: FindOneAndDelete instead of FindOne.
FindRawTaking(r) ==
  /\ At(r, "find")
  /\ IF Holds(From(r), Imsi(r))
       THEN \E d \in Matching(From(r), Imsi(r)) :
              /\ got' = [got EXCEPT ![r] = {[d EXCEPT !.status = Stamp(r)]}]
              /\ subs' = subs \ {d} /\ suspended' = suspended \ {d}
              /\ Goto(r, "insert")
       ELSE Goto(r, "count") /\ UNCHANGED <<got, collections>>
  /\ UNCHANGED audit

\* Wrong: the target document rebuilt from the keys instead of copied raw.
FindRawRebuilt(r) ==
  /\ At(r, "find")
  /\ IF Holds(From(r), Imsi(r))
       THEN /\ \E d \in Matching(From(r), Imsi(r)) :
                 got' = [got EXCEPT ![r] =
                           {[NewDoc(d.id, d.imsi) EXCEPT !.status = Stamp(r)]}]
            /\ Goto(r, "insert")
       ELSE Goto(r, "count") /\ UNCHANGED got
  /\ UNCHANGED <<collections, audit>>

\* move: read the document to relocate and stamp its status in memory.
FindRaw(r) ==
  /\ At(r, "find")
  /\ IF Holds(From(r), Imsi(r))
       THEN /\ \E d \in Matching(From(r), Imsi(r)) :
                 got' = [got EXCEPT ![r] = {[d EXCEPT !.status = Stamp(r)]}]
            /\ Goto(r, "insert")
       ELSE Goto(r, "count") /\ UNCHANGED got
  /\ UNCHANGED <<collections, audit>>

\* Wrong: a resume that finds the subscriber live believes its flags are down.
CountTargetOnly(r) ==
  /\ At(r, "count")
  /\ Goto(r, IF Holds(Target(r), Imsi(r)) THEN "audit" ELSE "notFound")
  /\ UNCHANGED <<collections, audit, got>>

\* move found nothing: a document in the target collection counts as done.
CountTarget(r) ==
  /\ At(r, "count")
  /\ Goto(r, IF Holds(Target(r), Imsi(r)) THEN AfterMove(r) ELSE "notFound")
  /\ UNCHANGED <<collections, audit, got>>

\* Wrong: a duplicate key taken for success.
InsertIntoOrThere(r, coll) ==
  /\ Goto(r, "delete")
  /\ coll' = IF \E d \in got[r] : HasId(coll, d.id) THEN coll ELSE coll \cup got[r]

\* InsertOne of the document held in memory keeps its `_id`; a document with the
\* same `_id` in the collection makes it fail with a duplicate key, a 500.
InsertInto(r, coll) ==
  IF \E d \in got[r] : HasId(coll, d.id)
    THEN Goto(r, "failed") /\ coll' = coll
    ELSE Goto(r, "delete") /\ coll' = coll \cup got[r]

InsertRaw(r) ==
  /\ At(r, "insert")
  /\ \/ body[r].op = "suspend" /\ InsertInto(r, suspended) /\ UNCHANGED subs
     \/ body[r].op = "resume" /\ InsertInto(r, subs) /\ UNCHANGED suspended
  /\ got' = [got EXCEPT ![r] = {}]
  /\ UNCHANGED audit

\* Wrong: the arguments of move's delete swapped.
DeleteRawTarget(r) ==
  /\ At(r, "delete")
  /\ \/ /\ body[r].op = "suspend"
        /\ suspended' \in DeleteOne(suspended, Imsi(r)) /\ UNCHANGED subs
     \/ /\ body[r].op = "resume"
        /\ subs' \in DeleteOne(subs, Imsi(r)) /\ UNCHANGED suspended
  /\ Goto(r, AfterMove(r))
  /\ UNCHANGED <<audit, got>>

DeleteRaw(r) ==
  /\ At(r, "delete")
  /\ \/ /\ body[r].op = "suspend"
        /\ subs' \in DeleteOne(subs, Imsi(r)) /\ UNCHANGED suspended
     \/ /\ body[r].op = "resume"
        /\ suspended' \in DeleteOne(suspended, Imsi(r)) /\ UNCHANGED subs
  /\ Goto(r, AfterMove(r))
  /\ UNCHANGED <<audit, got>>

\* Resume: lower two of the three flags on the live document.
ClearFlags(r) ==
  /\ At(r, "clear")
  /\ subs' \in UpdateOne(subs, Imsi(r), Cleared)
  /\ Goto(r, "audit")
  /\ UNCHANGED <<suspended, audit, got>>

-----------------------------------------------------------------------------
(* setEither and SetStaticIP: plan and ip. *)

Fields(r, d) == IF body[r].op = "plan" THEN [d EXCEPT !.ambr = body[r].ambr]
                                      ELSE [d EXCEPT !.ip = body[r].ip]

\* Wrong: whether a live document matched is not looked at.
SetSubsBlind(r) ==
  /\ At(r, "setSubs")
  /\ subs' \in UpdateOne(subs, Imsi(r), LAMBDA d : Fields(r, d))
  /\ Goto(r, "audit")
  /\ UNCHANGED <<suspended, audit, got>>

\* Update the live document; with none, go on to the suspended one.
SetSubs(r) ==
  /\ At(r, "setSubs")
  /\ subs' \in UpdateOne(subs, Imsi(r), LAMBDA d : Fields(r, d))
  /\ Goto(r, IF Holds(subs, Imsi(r)) THEN "audit" ELSE "setSuspended")
  /\ UNCHANGED <<suspended, audit, got>>

SetSuspended(r) ==
  /\ At(r, "setSuspended")
  /\ suspended' \in UpdateOne(suspended, Imsi(r), LAMBDA d : Fields(r, d))
  /\ Goto(r, IF Holds(suspended, Imsi(r)) THEN "audit" ELSE "notFound")
  /\ UNCHANGED <<subs, audit, got>>

\* Removing the address goes through both collections and never answers 404.
WithoutIp(d) == [d EXCEPT !.ip = NoIp]

UnsetSubs(r) ==
  /\ At(r, "unsetSubs")
  /\ subs' \in UpdateOne(subs, Imsi(r), WithoutIp)
  /\ Goto(r, "unsetSuspended")
  /\ UNCHANGED <<suspended, audit, got>>

UnsetSuspended(r) ==
  /\ At(r, "unsetSuspended")
  /\ suspended' \in UpdateOne(suspended, Imsi(r), WithoutIp)
  /\ Goto(r, "audit")
  /\ UNCHANGED <<subs, audit, got>>

-----------------------------------------------------------------------------
(* Insert and Delete: add and remove. *)

\* Wrong: Delete stops once it has deleted something.
PurgeSubsOnly(r) ==
  /\ At(r, "purgeSubs")
  /\ subs' \in DeleteOne(subs, Imsi(r))
  /\ Goto(r, IF ~Holds(subs, Imsi(r)) THEN "purgeSuspended"
             ELSE IF body[r].op = "add" THEN "insertNew" ELSE "audit")
  /\ UNCHANGED <<suspended, audit, got>>

\* Wrong: it is looked for in the live collection only.
PurgeSubsLive(r) ==
  /\ At(r, "purgeSubs")
  /\ subs' \in DeleteOne(subs, Imsi(r))
  /\ Goto(r, IF body[r].op = "add" THEN "insertNew" ELSE "audit")
  /\ UNCHANGED <<suspended, audit, got>>

PurgeSubs(r) ==
  /\ At(r, "purgeSubs")
  /\ subs' \in DeleteOne(subs, Imsi(r))
  /\ Goto(r, "purgeSuspended")
  /\ UNCHANGED <<suspended, audit, got>>

PurgeSuspended(r) ==
  /\ At(r, "purgeSuspended")
  /\ suspended' \in DeleteOne(suspended, Imsi(r))
  /\ Goto(r, IF body[r].op = "add" THEN "insertNew" ELSE "audit")
  /\ UNCHANGED <<subs, audit, got>>

InsertNew(r) ==
  /\ At(r, "insertNew")
  /\ subs' = subs \cup {NewDoc(r, Imsi(r))}
  /\ Goto(r, "audit")
  /\ UNCHANGED <<suspended, audit, got>>

-----------------------------------------------------------------------------
(* Get and List. *)

\* What one read returns: a cursor over the collection, or one document.
Found(r, coll) ==
  IF body[r].op = "list" THEN {coll}
  ELSE IF Holds(coll, Imsi(r)) THEN {{d} : d \in Matching(coll, Imsi(r))} ELSE {{}}

\* Get stops at the first document it finds; List always reads both.
ReadSubs(r) ==
  /\ At(r, "readSubs")
  /\ \E docs \in Found(r, subs) : got' = [got EXCEPT ![r] = docs]
  /\ Goto(r, IF body[r].op = "get" /\ Holds(subs, Imsi(r))
               THEN "ok" ELSE "readSuspended")
  /\ UNCHANGED <<collections, audit>>

ReadSuspended(r) ==
  /\ At(r, "readSuspended")
  /\ \E docs \in Found(r, suspended) : got' = [got EXCEPT ![r] = @ \cup docs]
  /\ Goto(r, IF body[r].op = "get" /\ ~Holds(suspended, Imsi(r))
               THEN "notFound" ELSE "ok")
  /\ UNCHANGED <<collections, audit>>

-----------------------------------------------------------------------------
(* The audit entry and its mirror on the document, once the change is made. *)

Mirrored(r, d) == [d EXCEPT !.last = body[r].op]

AppendAudit(r) ==
  /\ At(r, "audit")
  /\ audit' = Append(audit, [imsi |-> Imsi(r), op |-> body[r].op])
  /\ Goto(r, "mirrorSubs")
  /\ UNCHANGED <<collections, got>>

\* Wrong: the mirror written whether or not the entry was.
AuditFailsMirrored(r) ==
  /\ At(r, "audit")
  /\ Goto(r, "mirrorSubs")
  /\ UNCHANGED <<collections, audit, got>>

\* The handler drops the error of AppendAudit and answers as if all were well.
AuditFails(r) ==
  /\ At(r, "audit")
  /\ Goto(r, "ok")
  /\ UNCHANGED <<collections, audit, got>>

\* Both updates of the mirror are best effort: their errors are dropped too.
MirrorSubs(r) ==
  /\ At(r, "mirrorSubs")
  /\ subs' \in {subs} \cup UpdateOne(subs, Imsi(r), LAMBDA d : Mirrored(r, d))
  /\ Goto(r, "mirrorSuspended")
  /\ UNCHANGED <<suspended, audit, got>>

MirrorSuspended(r) ==
  /\ At(r, "mirrorSuspended")
  /\ suspended' \in {suspended} \cup
                    UpdateOne(suspended, Imsi(r), LAMBDA d : Mirrored(r, d))
  /\ Goto(r, "ok")
  /\ UNCHANGED <<subs, audit, got>>

-----------------------------------------------------------------------------
MoveStep(r) == Flag(r) \/ FindRaw(r) \/ CountTarget(r) \/ InsertRaw(r)
               \/ DeleteRaw(r) \/ ClearFlags(r)
FieldStep(r) == SetSubs(r) \/ SetSuspended(r) \/ UnsetSubs(r) \/ UnsetSuspended(r)
ReplaceStep(r) == PurgeSubs(r) \/ PurgeSuspended(r) \/ InsertNew(r)
ReadStep(r) == ReadSubs(r) \/ ReadSuspended(r)
AuditStep(r) == AppendAudit(r) \/ AuditFails(r) \/ MirrorSubs(r) \/ MirrorSuspended(r)

Step(r) == MoveStep(r) \/ FieldStep(r) \/ ReplaceStep(r) \/ ReadStep(r) \/ AuditStep(r)

Next == \E r \in Request : Accept(r) \/ Abort(r) \/ Step(r)

Spec == Init /\ [][Next]_vars

-----------------------------------------------------------------------------
(* Properties. *)

\* Type correctness.
TypeOK ==
  /\ subs \in SUBSET Doc
  /\ suspended \in SUBSET Doc
  /\ audit \in Seq([imsi: IMSI, op: Changes])
  /\ body \in [Request -> Body]
  /\ pc \in [Request -> Call \cup Answer \cup {"idle"}]
  /\ got \in [Request -> SUBSET Doc]
  /\ aborted \in SUBSET Request
  /\ before \in [Request -> SUBSET Request]

Same(q, r) == q # r /\ Imsi(q) = Imsi(r)

\* q ended before r was accepted; r was not accepted before q ended.
EndedBefore(q, r) == q \in before[r]
NotYet(r, q) == pc[r] = "idle" \/ EndedBefore(q, r)

Overlap(q, r) == Same(q, r) /\ ~NotYet(q, r) /\ ~NotYet(r, q)

\* Every add of subscriber i ran beside no other add of him and beside no move.
AddsAlone(i) ==
  \A a, q \in Request :
    /\ Imsi(a) = i /\ body[a].op = "add"
    /\ body[q].op \in {"add", "suspend", "resume"}
    => ~Overlap(q, a)

\* The document a Get would show: the live one first.
Shown(i) == IF Holds(subs, i) THEN Matching(subs, i) ELSE Matching(suspended, i)

\* A subscriber is never lost: as long as clients only suspend, resume and edit,
\* every subscriber keeps a document in one of the two collections, whatever
\* moves race and wherever requests die ("nothing is deleted", mongo.go:18).
NothingLost ==
  \A i \in Seeded : Holds(subs, i) \/ Holds(suspended, i)

\* A subscriber has a document in both collections only while one request, and
\* no second one, stands between the insert and the delete of move (or died there).
BothOnlyMidMove ==
  \A i \in IMSI :
    Holds(subs, i) /\ Holds(suspended, i) =>
      \E r \in Request :
        /\ pc[r] = "delete" /\ Imsi(r) = i
        /\ \A q \in Request : Same(q, r) => pc[q] # "delete"

\* An acknowledged suspend holds: until a later request puts the subscriber back,
\* the HSS has no document to answer from, unless such a request overlapped.
SuspendIsEnforced ==
  \A r \in Request :
    /\ pc[r] = "ok" /\ body[r].op = "suspend"
    /\ \A q \in Request :
         Same(q, r) /\ body[q].op \in {"resume", "add"} =>
           EndedBefore(q, r) \/ pc[q] = "idle"
    => ~Holds(subs, Imsi(r))

\* An acknowledged resume with no suspend beside or after it leaves the
\* subscriber live, with neither flag that would bar or withdraw it left up,
\* even when the suspend it undoes died half way (mongo.go:157).
ResumeIsEnforced ==
  \A r \in Request :
    /\ pc[r] = "ok" /\ body[r].op = "resume"
    /\ \A q \in Request :
         Same(q, r) /\ body[q].op = "suspend" => EndedBefore(q, r) \/ pc[q] = "idle"
    => /\ Holds(subs, Imsi(r))
       /\ \A d \in Matching(subs, Imsi(r)) : d.odb = 0 /\ ~d.rcl

\* An acknowledged plan or address is what a Get shows from then on: no later
\* move, nor one that died half way, brings the old value back.  Moves that
\* overlap the change can (see AcknowledgedPlanKept).
EditSurvivesMoves ==
  \A r \in Request :
    /\ pc[r] = "ok" /\ body[r].op \in {"plan", "ip"}
    /\ \A q \in Request :
         /\ Same(q, r) /\ body[q].op = body[r].op => EndedBefore(q, r) \/ pc[q] = "idle"
         /\ body[q].op \in {"suspend", "resume"} => ~Overlap(q, r)
    => \A d \in Shown(Imsi(r)) : Fields(r, d) = d

\* A subscriber that exists is answered 404 only beside a move against the order
\* in which the request looks: a resume looks in the suspended collection first,
\* every other request in the live one, and a move inserts before it deletes, so
\* only a document that moves the other way can slip past both looks.
Against(r) == IF body[r].op = "resume" THEN "suspend" ELSE "resume"

NotFoundOnlyBesideMove ==
  \A r \in Request :
    pc[r] = "notFound" /\ Imsi(r) \in Seeded =>
      \E q \in Request :
        body[q].op = Against(r) /\ Same(q, r) /\ ~EndedBefore(q, r) /\ pc[q] # "idle"

\* For the same reason a list misses nobody who existed when it began, unless a
\* resume ran beside it.
ListMissesNobody ==
  \A r \in Request :
    pc[r] = "ok" /\ body[r].op = "list" =>
      \A i \in Seeded :
        \/ Holds(got[r], i)
        \/ \E q \in Request : /\ body[q].op = "resume" /\ Imsi(q) = i
                              /\ ~EndedBefore(q, r) /\ pc[q] # "idle"

\* An IMSI has two documents in one collection only if an add of it overlapped
\* another add or a move: Insert deletes before it inserts, but holds no lock.
TwinsOnlyBesideAdd ==
  \A coll \in {subs, suspended} : \A d, e \in coll :
    d.imsi = e.imsi /\ d # e => ~AddsAlone(d.imsi)

\* The keys an acknowledged add gave out are the keys the store holds, live or
\* suspended, until a later add or remove, if no add of the subscriber overlapped
\* another one or a move: of the twins an earlier add can have left, a later suspend
\* may read the old one and delete the new one.
AddedKeysKept ==
  \A r \in Request :
    /\ pc[r] = "ok" /\ body[r].op = "add"
    /\ \A q \in Request :
         Same(q, r) /\ body[q].op \in {"add", "remove"} =>
           EndedBefore(q, r) \/ pc[q] = "idle"
    /\ AddsAlone(Imsi(r))
    => \E d \in Shown(Imsi(r)) : d.id = r

\* An acknowledged removal holds until the subscriber is added again, if no add
\* or move overlapped it and it found no twins (one of which would survive).
RemovedStaysGone ==
  \A r \in Request :
    /\ pc[r] = "ok" /\ body[r].op = "remove"
    /\ \A q \in Request :
         /\ Same(q, r) /\ body[q].op = "add" => EndedBefore(q, r) \/ pc[q] = "idle"
         /\ body[q].op \in {"suspend", "resume"} => ~Overlap(q, r)
    /\ AddsAlone(Imsi(r))
    => ~Holds(subs, Imsi(r)) /\ ~Holds(suspended, Imsi(r))

\* A suspend or resume of an existing subscriber beside which no other move runs
\* fails exactly if a move of him has died between its insert and its delete: a
\* death anywhere else is repaired by repeating the request, this one is repaired by
\* neither direction.
HalfMoveBlocks ==
  \A r \in Request :
    /\ body[r].op \in {"suspend", "resume"} /\ pc[r] \in Answer /\ Imsi(r) \in Seeded
    /\ \A q \in Request : body[q].op \in {"suspend", "resume"} => ~Overlap(q, r)
    => (pc[r] = "failed" <=>
          \E q \in aborted : Same(q, r) /\ EndedBefore(q, r) /\ pc[q] = "delete")

\* An add does repair it: one that nothing overlaps leaves the subscriber one live
\* document with the new keys, whatever died before, unless an earlier add that
\* overlapped another one or a move has left him twins.
AddRepairs ==
  \A r \in Request :
    /\ pc[r] = "ok" /\ body[r].op = "add"
    /\ \A q \in Request :
         Same(q, r) => EndedBefore(q, r) \/ pc[q] = "idle"
    /\ AddsAlone(Imsi(r))
    => /\ \E d \in subs : Matching(subs, Imsi(r)) = {d} /\ d.id = r
       /\ ~Holds(suspended, Imsi(r))

\* The action shown on a document is one the audit collection has: the entry is
\* written before its mirror, and without the entry there is no mirror.
MirrorIsAudited ==
  \A d \in subs \cup suspended :
    d.last # "none" =>
      \E n \in DOMAIN audit : audit[n] = [imsi |-> d.imsi, op |-> d.last]

-----------------------------------------------------------------------------
(* Suspend and resume implement the atomic SetStatus of the in-memory store.  A *)
(* suspend takes effect when the live document goes, a resume when it comes     *)
(* back; a move that finds nothing to do has its moment when it looks.          *)

StatusOf(i) == IF Holds(subs, i) THEN "active"
               ELSE IF Holds(suspended, i) THEN "suspended" ELSE "absent"

MovePending(r) ==
  \/ pc[r] \in {"flag", "find", "insert"}
  \/ pc[r] = "delete" /\ body[r].op = "suspend"
  \/ pc[r] = "count" /\ Imsi(r) \notin Seeded

StageOf(r) ==
  IF body[r].op \notin {"suspend", "resume"} \/ pc[r] = "idle" THEN "idle"
  ELSE IF MovePending(r) THEN "pending"
  ELSE IF pc[r] \in {"notFound", "failed"} THEN "refused"
  ELSE "done"

Fake == INSTANCE FakeStore
          WITH recs <- [i \in IMSI |-> StatusOf(i)],
               stage <- [r \in Request |-> StageOf(r)],
               imsi <- [r \in Request |-> Imsi(r)],
               barred <- [r \in Request |-> body[r].op = "suspend"]

\* Whatever suspends and resumes race or die half way, the HSS sees each take
\* effect at one moment, as if the store were the mutex-guarded map of the tests.
ImplementsFakeStore == Fake!Spec

-----------------------------------------------------------------------------
(* What the repository says and the code does not keep: TLC refutes each. *)

\* "Idempotent both ways" (mongo.go:158): a suspend or resume of an existing
\* subscriber that runs alone can be repeated until it succeeds.
MoveIsIdempotent ==
  \A r \in Request :
    /\ pc[r] = "failed" /\ Imsi(r) \in Seeded
    => \E q \in Request : Overlap(q, r)

\* "The record + keys are fully preserved and restored on resume" (mongo.go:18):
\* an acknowledged plan stays until another plan is asked for.
AcknowledgedPlanKept ==
  \A r \in Request :
    /\ pc[r] = "ok" /\ body[r].op = "plan"
    /\ \A q \in Request :
         Same(q, r) /\ body[q].op = "plan" => EndedBefore(q, r) \/ pc[q] = "idle"
    => \A d \in Shown(Imsi(r)) : d.ambr = body[r].ambr
==============================================================================
