--------------------------- MODULE FakeStoreProofs ---------------------------
(***************************************************************************)
(* SubscriberStore implements FakeStore: as long as subscribers are neither *)
(* added nor removed, every suspend and resume takes effect at one moment.  *)
(***************************************************************************)
EXTENDS SubscriberStoreProofs

\* The state of the in-memory store, seen through the refinement mapping.
Recs == [i \in IMSI |-> StatusOf(i)]
Stage == [r \in Request |-> StageOf(r)]
Named == [r \in Request |-> Imsi(r)]
Barring == [r \in Request |-> body[r].op = "suspend"]

IsMove(r) == body[r].op \in {"suspend", "resume"}

LEMMA FakeInit == Init => Fake!Init
<1> SUFFICES ASSUME Init PROVE Fake!Init
  OBVIOUS
<1>1. Recs \in [IMSI -> Fake!Status]
  BY DEF Fake!Status, Recs, StatusOf
<1>2. Stage = [r \in Request |-> "idle"]
  BY DEF Init, Stage, StageOf, MovePending
<1>3. Named \in [Request -> IMSI] /\ Barring \in [Request -> BOOLEAN]
  BY DEF Init, Named, Barring, Imsi, Body
<1> QED  BY <1>1, <1>2, <1>3 DEF Fake!Init, Recs, Stage, Named, Barring

\* A step of request r changes the stage of no other request, and no request's
\* subscriber or operation.
LEMMA OnlyStageOf ==
  ASSUME TypeInv, NEW r \in Request, NEW c, pc' = [pc EXCEPT ![r] = c], body' = body
  PROVE  /\ Stage' = [Stage EXCEPT ![r] = StageOf(r)']
         /\ Named' = Named /\ Barring' = Barring
<1> USE DEF TypeInv, TypeOK
<1>1. ASSUME NEW q \in Request, q # r PROVE StageOf(q)' = StageOf(q)
  <2>1. pc'[q] = pc[q] /\ Imsi(q)' = Imsi(q)
    BY <1>1 DEF Imsi
  <2> QED  BY <2>1 DEF StageOf, MovePending
<1>2. Stage' = [Stage EXCEPT ![r] = StageOf(r)']
  BY <1>1 DEF Stage
<1>3. Named' = Named /\ Barring' = Barring
  BY DEF Named, Barring, Imsi
<1> QED  BY <1>2, <1>3

\* A step that changes neither the status of a subscriber nor a stage is a stutter.
LEMMA Stutters ==
  ASSUME TypeInv, NEW r \in Request, NEW c, pc' = [pc EXCEPT ![r] = c], body' = body,
         Recs' = Recs, StageOf(r)' = StageOf(r)
  PROVE  UNCHANGED <<Recs, Stage, Named, Barring>>
BY OnlyStageOf DEF Stage

\* One that takes a request from "pending" or "done" to "refused" is a refusal.
LEMMA Refuses ==
  ASSUME TypeInv, NEW r \in Request, NEW c, pc' = [pc EXCEPT ![r] = c], body' = body,
         Recs' = Recs, StageOf(r) \in {"pending", "done"}, StageOf(r)' = "refused"
  PROVE  Fake!Refuse(r)
BY OnlyStageOf DEF Fake!Refuse, Recs, Stage, Named, Barring

\* One that gives the subscriber the status a pending request asks for is its effect.
LEMMA TakesEffect ==
  ASSUME TypeInv, NEW r \in Request, NEW c, pc' = [pc EXCEPT ![r] = c], body' = body,
         StageOf(r) = "pending", StageOf(r)' = "done", StatusOf(Imsi(r)) # "absent",
         StatusOf(Imsi(r))' = IF body[r].op = "suspend" THEN "suspended" ELSE "active",
         \A i \in IMSI : i # Imsi(r) => StatusOf(i)' = StatusOf(i)
  PROVE  Fake!SetStatus(r)
<1> USE DEF TypeInv, TypeOK
<1>1. Imsi(r) \in IMSI /\ Imsi(r)' = Imsi(r)
  BY DEF Imsi, Body
<1>2. Recs' = [Recs EXCEPT ![Imsi(r)] =
                 IF body[r].op = "suspend" THEN "suspended" ELSE "active"]
  BY <1>1 DEF Recs
<1>3. /\ Stage' = [Stage EXCEPT ![r] = "done"]
      /\ Named' = Named /\ Barring' = Barring
  BY OnlyStageOf
<1> QED  BY <1>1, <1>2, <1>3 DEF Fake!SetStatus, Recs, Stage, Named, Barring

FakeStep(r) == \/ Fake!Begin(r) \/ Fake!SetStatus(r) \/ Fake!Refuse(r)
               \/ UNCHANGED <<Recs, Stage, Named, Barring>>

LEMMA EditStatus ==
  ASSUME TypeInv, Edited(subs, subs'), Edited(suspended, suspended')
  PROVE  \A i : StatusOf(i)' = StatusOf(i)
<1>1. \A i : /\ Holds(subs', i) <=> Holds(subs, i)
             /\ Holds(suspended', i) <=> Holds(suspended, i)
  BY EditedKeeps DEF TypeInv, TypeOK
<1>2. \A i : StatusOf(i)' = IF Holds(subs', i) THEN "active"
                            ELSE IF Holds(suspended', i) THEN "suspended" ELSE "absent"
  BY DEF StatusOf, Holds, Matching
<1> QED  BY <1>1, <1>2 DEF StatusOf

\* The calls that leave the collections to the mapping as they were, by what they
\* do to the stage.
LEMMA EditFakeStep ==
  ASSUME TypeInv, NEW r \in Request, NEW c, pc' = [pc EXCEPT ![r] = c], body' = body,
         Edited(subs, subs'), Edited(suspended, suspended'),
         \/ StageOf(r)' = StageOf(r)
         \/ StageOf(r) \in {"pending", "done"} /\ StageOf(r)' = "refused"
  PROVE  FakeStep(r)
<1>1. Recs' = Recs
  BY EditStatus DEF Recs
<1> QED  BY <1>1, Stutters, Refuses DEF FakeStep

\* The stage of a suspend or resume whose next call, or answer, is c; the other
\* requests have none.
StageFor(r, c) ==
  IF ~IsMove(r) \/ c = "idle" THEN "idle"
  ELSE IF \/ c \in {"flag", "find", "insert"}
          \/ c = "delete" /\ body[r].op = "suspend"
          \/ c = "count" /\ Imsi(r) \notin Seeded THEN "pending"
  ELSE IF c \in {"notFound", "failed"} THEN "refused"
  ELSE "done"

LEMMA StageAt ==
  ASSUME NEW r \in Request
  PROVE  StageOf(r) = StageFor(r, pc[r])
BY DEF StageOf, StageFor, MovePending, IsMove

LEMMA StageAfter ==
  ASSUME TypeInv, NEW r \in Request, NEW c, pc' = [pc EXCEPT ![r] = c], body' = body
  PROVE  StageOf(r)' = StageFor(r, c)
<1>1. pc'[r] = c /\ Imsi(r)' = Imsi(r)
  BY DEF TypeInv, TypeOK, Imsi
<1> QED  BY <1>1 DEF StageOf, StageFor, MovePending, IsMove

LEMMA StageValues ==
  ASSUME NEW r \in Request
  PROVE  /\ ~IsMove(r) => \A c : StageFor(r, c) = "idle"
         /\ IsMove(r) =>
              /\ StageFor(r, "idle") = "idle"
              /\ \A c \in {"flag", "find", "insert"} : StageFor(r, c) = "pending"
              /\ StageFor(r, "delete") =
                   IF body[r].op = "suspend" THEN "pending" ELSE "done"
              /\ StageFor(r, "count") = IF Imsi(r) \in Seeded THEN "done" ELSE "pending"
              /\ \A c \in {"notFound", "failed"} : StageFor(r, c) = "refused"
              /\ \A c \in {"clear", "audit", "mirrorSubs", "mirrorSuspended", "ok"} :
                   StageFor(r, c) = "done"
<1>1. CASE ~IsMove(r)
  BY <1>1 DEF StageFor
<1>2. CASE IsMove(r)
  <2>1. /\ StageFor(r, "idle") = "idle"
        /\ \A c \in {"flag", "find", "insert"} : StageFor(r, c) = "pending"
    BY <1>2 DEF StageFor
  <2>2. /\ StageFor(r, "delete") = IF body[r].op = "suspend" THEN "pending" ELSE "done"
        /\ StageFor(r, "count") = IF Imsi(r) \in Seeded THEN "done" ELSE "pending"
    BY <1>2 DEF StageFor
  <2>3. \A c \in {"notFound", "failed"} : StageFor(r, c) = "refused"
    BY <1>2 DEF StageFor
  <2>4. \A c \in {"clear", "audit", "mirrorSubs", "mirrorSuspended", "ok"} :
          StageFor(r, c) = "done"
    BY <1>2 DEF StageFor
  <2> QED  BY <1>2, <2>1, <2>2, <2>3, <2>4
<1> QED  BY <1>1, <1>2

LEMMA AcceptFakeStep ==
  ASSUME TypeInv, NEW r \in Request, Accept(r)
  PROVE  FakeStep(r)
<1> DEFINE c == FirstCall(body[r])
<1>1. /\ pc[r] = "idle" /\ pc' = [pc EXCEPT ![r] = c] /\ body' = body
      /\ Recs' = Recs
  BY DEF Accept, collections, Recs, StatusOf, Holds, Matching
<1>2. CASE IsMove(r)
  <2>1. c \in {"flag", "find"}
    BY <1>2 DEF IsMove, FirstCall, Reads
  <2>2. StageOf(r) = "idle" /\ StageOf(r)' = "pending"
    BY <1>1, <1>2, <2>1, StageAt, StageAfter, StageValues
  <2>3. Fake!Begin(r)
    BY <1>1, <2>2, OnlyStageOf DEF Fake!Begin, Recs, Stage, Named, Barring
  <2> QED  BY <2>3 DEF FakeStep
<1>3. CASE ~IsMove(r)
  <2> HIDE DEF c
  <2>1. StageOf(r) = "idle" /\ StageOf(r)' = "idle"
    BY <1>1, <1>3, StageAt, StageAfter, StageValues
  <2>2. StageOf(r)' = StageOf(r)
    BY <2>1
  <2> QED  BY <1>1, <2>2, Stutters DEF FakeStep
<1> QED  BY <1>2, <1>3

\* A move that finds nothing to relocate: the subscriber already is where the
\* request wants it, and this is the moment the request takes effect.
LEMMA FindRawFakeStep ==
  ASSUME TypeInv, MoveInv, NEW r \in Request, FindRaw(r)
  PROVE  FakeStep(r)
<1>1. /\ pc[r] = "find" /\ IsMove(r) /\ body' = body
      /\ Edited(subs, subs') /\ Edited(suspended, suspended')
  BY DEF FindRaw, At, Goto, collections, Edited, TypeInv, Routed, IsMove
<1>2. CASE Holds(From(r), Imsi(r))
  <2>1. pc' = [pc EXCEPT ![r] = "insert"]
    BY <1>2 DEF FindRaw, Goto
  <2>2. StageOf(r) = "pending" /\ StageOf(r)' = "pending"
    BY <1>1, <2>1, StageAt, StageAfter, StageValues
  <2> QED  BY <1>1, <2>1, <2>2, EditFakeStep
<1>3. CASE ~Holds(From(r), Imsi(r))
  <2>1. pc' = [pc EXCEPT ![r] = "count"]
    BY <1>3 DEF FindRaw, Goto
  <2>2. CASE Imsi(r) \notin Seeded
    <3>1. StageOf(r) = "pending" /\ StageOf(r)' = "pending"
      BY <1>1, <2>1, <2>2, StageAt, StageAfter, StageValues
    <3> QED  BY <1>1, <2>1, <3>1, EditFakeStep
  <2>3. CASE Imsi(r) \in Seeded
    <3>1. StageOf(r) = "pending" /\ StageOf(r)' = "done"
      BY <1>1, <2>1, <2>3, StageAt, StageAfter, StageValues
    <3>2. StatusOf(Imsi(r)) = IF body[r].op = "suspend" THEN "suspended" ELSE "active"
      BY <1>1, <1>3, <2>3 DEF StatusOf, From, IsMove, MoveInv, NothingLost
    <3>3. /\ \A i : StatusOf(i)' = StatusOf(i)
          /\ StatusOf(Imsi(r))' = StatusOf(Imsi(r))
      BY <1>1 DEF FindRaw, collections, StatusOf, Holds, Matching, Imsi
    <3> QED  BY <1>1, <2>1, <3>1, <3>2, <3>3, TakesEffect DEF FakeStep
  <2> QED  BY <2>2, <2>3
<1> QED  BY <1>2, <1>3

LEMMA CountTargetFakeStep ==
  ASSUME TypeInv, MoveInv, NEW r \in Request, CountTarget(r)
  PROVE  FakeStep(r)
<1> DEFINE c == IF Holds(Target(r), Imsi(r)) THEN AfterMove(r) ELSE "notFound"
<1>1. /\ pc[r] = "count" /\ IsMove(r) /\ body' = body
      /\ pc' = [pc EXCEPT ![r] = c]
      /\ Edited(subs, subs') /\ Edited(suspended, suspended')
  BY DEF CountTarget, At, Goto, collections, Edited, TypeInv, Routed, IsMove
<1>2. CASE Holds(Target(r), Imsi(r))
  <2>1. c \in {"audit", "clear"} /\ Imsi(r) \in Seeded
    BY <1>2 DEF AfterMove, Target, MoveInv, Own, Holds, Matching
  <2> HIDE DEF c
  <2>2. StageOf(r) = "done" /\ StageOf(r)' = "done"
    BY <1>1, <2>1, StageAt, StageAfter, StageValues
  <2> QED  BY <1>1, <2>2, EditFakeStep
<1>3. CASE ~Holds(Target(r), Imsi(r))
  <2>1. c = "notFound"
    BY <1>3
  <2> HIDE DEF c
  <2>2. StageOf(r) \in {"pending", "done"} /\ StageOf(r)' = "refused"
    BY <1>1, <2>1, StageAt, StageAfter, StageValues
  <2> QED  BY <1>1, <2>2, EditFakeStep
<1> QED  BY <1>2, <1>3

\* What the state function StatusOf is after a step, in terms of the collections.
LEMMA StatusAfter ==
  ASSUME NEW i
  PROVE  StatusOf(i)' = IF Holds(subs', i) THEN "active"
                        ELSE IF Holds(suspended', i) THEN "suspended" ELSE "absent"
BY DEF StatusOf, Holds, Matching

\* The insert of a resume is the moment it takes effect; that of a suspend shows
\* nothing to the HSS; a duplicate key is a refusal.
LEMMA InsertRawFakeStep ==
  ASSUME TypeInv, MoveInv, NEW r \in Request, InsertRaw(r)
  PROVE  FakeStep(r)
<1>1. pc[r] = "insert" /\ IsMove(r) /\ body' = body
  BY DEF InsertRaw, InsertInto, Goto, At, TypeInv, Routed, IsMove
<1>2. StageOf(r) = "pending"
  BY <1>1, StageAt, StageValues
<1>3. PICK d \in Doc : /\ got[r] = {d} /\ d.imsi = Imsi(r) /\ d.id = Imsi(r)
                       /\ Imsi(r) \in Seeded
  BY <1>1 DEF MoveInv, RawIsOwn
<1>4. CASE HasId(Target(r), d.id)
  <2>1. /\ Edited(subs, subs') /\ Edited(suspended, suspended')
        /\ pc' = [pc EXCEPT ![r] = "failed"]
    BY <1>3, <1>4 DEF InsertRaw, InsertInto, Goto, Target, HasId, Edited
  <2>2. StageOf(r)' = "refused"
    BY <1>1, <2>1, StageAfter, StageValues
  <2> QED  BY <1>1, <1>2, <2>1, <2>2, EditFakeStep
<1>5. CASE ~HasId(Target(r), d.id)
  <2>0. /\ d.id = d.imsi /\ subs \in SUBSET Doc /\ suspended \in SUBSET Doc
        /\ Own(subs) /\ Own(suspended) /\ OneEach(subs) /\ OneEach(suspended)
        /\ Holds(subs, Imsi(r)) \/ Holds(suspended, Imsi(r))
    BY <1>3 DEF MoveInv, NothingLost, TypeInv, TypeOK
  <2>1. pc' = [pc EXCEPT ![r] = "delete"]
    BY <1>3, <1>5 DEF InsertRaw, InsertInto, Goto, Target, HasId
  <2>2. StageOf(r)' = IF body[r].op = "suspend" THEN "pending" ELSE "done"
    BY <1>1, <2>1, StageAfter, StageValues
  <2>3. CASE body[r].op = "suspend"
    <3>1. /\ subs' = subs /\ suspended' = suspended \cup {d}
          /\ ~HasId(suspended, d.id)
      BY <1>3, <1>5, <2>3 DEF InsertRaw, InsertInto, Goto, Target, HasId
    <3>2. /\ ~Holds(suspended, d.imsi)
          /\ \A i : Holds(suspended', i) <=> Holds(suspended, i) \/ i = d.imsi
      BY <1>3, <2>0, <3>1, InsertKeeps
    <3>3. \A i : StatusOf(i)' = StatusOf(i)
      BY <1>3, <2>0, <3>1, <3>2, StatusAfter DEF StatusOf
    <3>4. Recs' = Recs /\ StageOf(r)' = StageOf(r)
      BY <1>2, <2>2, <2>3, <3>3 DEF Recs
    <3> QED  BY <1>1, <2>1, <3>4, Stutters DEF FakeStep
  <2>4. CASE body[r].op # "suspend"
    <3>1. /\ suspended' = suspended /\ subs' = subs \cup {d} /\ ~HasId(subs, d.id)
      BY <1>3, <1>5, <2>4 DEF InsertRaw, InsertInto, Goto, Target, HasId
    <3>2. /\ ~Holds(subs, d.imsi)
          /\ \A i : Holds(subs', i) <=> Holds(subs, i) \/ i = d.imsi
      BY <1>3, <2>0, <3>1, InsertKeeps
    <3>3. /\ \A i \in IMSI : i # Imsi(r) => StatusOf(i)' = StatusOf(i)
          /\ StatusOf(Imsi(r)) # "absent"
      BY <1>3, <2>0, <3>1, <3>2, StatusAfter DEF StatusOf
    <3>4. StatusOf(Imsi(r))' = "active"
      <4>1. Imsi(r)' = Imsi(r)
        BY <1>1 DEF Imsi
      <4> QED  BY <1>3, <3>2, <4>1 DEF StatusOf, Holds, Matching
    <3> QED  BY <1>1, <1>2, <2>1, <2>2, <2>4, <3>3, <3>4, TakesEffect DEF FakeStep
  <2> QED  BY <2>3, <2>4
<1> QED  BY <1>4, <1>5

\* The delete of a suspend is the moment it takes effect: the HSS has no document
\* any more.  That of a resume shows nothing, the live document being back.
LEMMA DeleteRawFakeStep ==
  ASSUME TypeInv, MoveInv, NEW r \in Request, DeleteRaw(r)
  PROVE  FakeStep(r)
<1>1. /\ pc[r] = "delete" /\ IsMove(r) /\ body' = body
      /\ pc' = [pc EXCEPT ![r] = AfterMove(r)]
      /\ AfterMove(r) \in {"audit", "clear"}
  BY DEF DeleteRaw, Goto, At, AfterMove, TypeInv, Routed, IsMove
<1>2. /\ StageOf(r) = IF body[r].op = "suspend" THEN "pending" ELSE "done"
      /\ StageOf(r)' = "done"
  BY <1>1, StageAt, StageAfter, StageValues
<1>3. /\ Holds(subs, Imsi(r)) /\ Holds(suspended, Imsi(r))
      /\ Own(subs) /\ Own(suspended) /\ OneEach(subs) /\ OneEach(suspended)
  BY <1>1 DEF MoveInv, DeleteHoldsBoth
<1>4. CASE body[r].op = "suspend"
  <2>1. subs' \in DeleteOne(subs, Imsi(r)) /\ suspended' = suspended
    BY <1>4 DEF DeleteRaw
  <2>2. \A j : Holds(subs', j) <=> Holds(subs, j) /\ j # Imsi(r)
    BY <1>3, <2>1, DeleteKeeps
  <2>3. /\ \A i \in IMSI : i # Imsi(r) => StatusOf(i)' = StatusOf(i)
        /\ StatusOf(Imsi(r)) # "absent"
    BY <1>3, <2>1, <2>2, StatusAfter DEF StatusOf
  <2>4. StatusOf(Imsi(r))' = "suspended"
    <3>1. Imsi(r)' = Imsi(r)
      BY <1>1 DEF Imsi
    <3> QED  BY <1>3, <2>1, <2>2, <3>1 DEF StatusOf, Holds, Matching
  <2> QED  BY <1>1, <1>2, <1>4, <2>3, <2>4, TakesEffect DEF FakeStep
<1>5. CASE body[r].op # "suspend"
  <2>1. suspended' \in DeleteOne(suspended, Imsi(r)) /\ subs' = subs
    BY <1>5 DEF DeleteRaw
  <2>2. \A j : Holds(suspended', j) <=> Holds(suspended, j) /\ j # Imsi(r)
    BY <1>3, <2>1, DeleteKeeps
  <2>3. \A i : StatusOf(i)' = StatusOf(i)
    BY <1>3, <2>1, <2>2, StatusAfter DEF StatusOf
  <2>4. Recs' = Recs /\ StageOf(r)' = StageOf(r)
    BY <1>2, <1>5, <2>3 DEF Recs
  <2> HIDE DEF AfterMove
  <2> QED  BY <1>1, <2>4, Stutters DEF FakeStep
<1> QED  BY <1>4, <1>5

LEMMA OtherMoveFakeStep ==
  ASSUME TypeInv, NEW r \in Request, Flag(r) \/ ClearFlags(r)
  PROVE  FakeStep(r)
<1>1. CASE Flag(r)
  <2>1. /\ pc[r] = "flag" /\ IsMove(r) /\ body' = body
        /\ pc' = [pc EXCEPT ![r] = "find"]
        /\ Edited(subs, subs') /\ Edited(suspended, suspended')
    BY <1>1, FlagEdits DEF Flag, At, Goto, Edited, TypeInv, Routed, IsMove
  <2>2. StageOf(r) = "pending" /\ StageOf(r)' = "pending"
    BY <2>1, StageAt, StageAfter, StageValues
  <2> QED  BY <2>1, <2>2, EditFakeStep
<1>2. CASE ClearFlags(r)
  <2>1. /\ pc[r] = "clear" /\ IsMove(r) /\ body' = body
        /\ pc' = [pc EXCEPT ![r] = "audit"]
        /\ Edited(subs, subs') /\ Edited(suspended, suspended')
    BY <1>2, ClearEdits DEF ClearFlags, At, Goto, Edited, TypeInv, Routed, IsMove
  <2>2. StageOf(r) = "done" /\ StageOf(r)' = "done"
    BY <2>1, StageAt, StageAfter, StageValues
  <2> QED  BY <2>1, <2>2, EditFakeStep
<1> QED  BY <1>1, <1>2

\* The requests that are no moves have no stage.
LEMMA NoMoveFakeStep ==
  ASSUME TypeInv, NEW r \in Request, NEW c, pc' = [pc EXCEPT ![r] = c], body' = body,
         Edited(subs, subs'), Edited(suspended, suspended'), ~IsMove(r)
  PROVE  FakeStep(r)
<1>1. StageOf(r) = "idle" /\ StageOf(r)' = "idle"
  BY StageAt, StageAfter, StageValues
<1>2. StageOf(r)' = StageOf(r)
  BY <1>1
<1> QED  BY <1>2, EditFakeStep

LEMMA FieldFakeStep ==
  ASSUME TypeInv, NEW r \in Request, FieldStep(r)
  PROVE  FakeStep(r)
<1>1. ~IsMove(r) /\ body' = body
  BY DEF FieldStep, SetSubs, SetSuspended, UnsetSubs, UnsetSuspended, At, Goto,
         TypeInv, Routed, IsMove
<1>2. Edited(subs, subs') /\ Edited(suspended, suspended')
  BY SetEdits, UnsetEdits
     DEF FieldStep, SetSubs, SetSuspended, UnsetSubs, UnsetSuspended, Edited, TypeInv
<1>3. \E c : pc' = [pc EXCEPT ![r] = c]
  BY DEF FieldStep, SetSubs, SetSuspended, UnsetSubs, UnsetSuspended, Goto
<1> QED  BY <1>1, <1>2, <1>3, NoMoveFakeStep

LEMMA ReadFakeStep ==
  ASSUME TypeInv, NEW r \in Request, ReadStep(r)
  PROVE  FakeStep(r)
<1>1. ~IsMove(r) /\ body' = body
  BY DEF ReadStep, ReadSubs, ReadSuspended, At, Goto, TypeInv, Routed, IsMove, Reads
<1>2. Edited(subs, subs') /\ Edited(suspended, suspended')
  BY DEF ReadStep, ReadSubs, ReadSuspended, Edited, collections
<1>3. \E c : pc' = [pc EXCEPT ![r] = c]
  BY DEF ReadStep, ReadSubs, ReadSuspended, Goto
<1> QED  BY <1>1, <1>2, <1>3, NoMoveFakeStep

\* A move has taken effect by the time it is audited.
LEMMA AuditFakeStep ==
  ASSUME TypeInv, NEW r \in Request, AuditStep(r)
  PROVE  FakeStep(r)
<1>1. PICK c : /\ c \in {"mirrorSubs", "mirrorSuspended", "ok"}
               /\ pc' = [pc EXCEPT ![r] = c] /\ body' = body
  BY DEF AuditStep, AppendAudit, AuditFails, MirrorSubs, MirrorSuspended, Goto
<1>2. pc[r] \in {"audit", "mirrorSubs", "mirrorSuspended"}
  BY DEF AuditStep, AppendAudit, AuditFails, MirrorSubs, MirrorSuspended, At
<1>3. Edited(subs, subs') /\ Edited(suspended, suspended')
  BY MirrorEdits
     DEF AuditStep, AppendAudit, AuditFails, MirrorSubs, MirrorSuspended, Edited,
         collections
<1>4. CASE IsMove(r)
  <2>1. StageOf(r) = "done" /\ StageOf(r)' = "done"
    BY <1>1, <1>2, <1>4, StageAt, StageAfter, StageValues
  <2> QED  BY <1>1, <1>3, <2>1, EditFakeStep
<1> QED  BY <1>1, <1>3, <1>4, NoMoveFakeStep

LEMMA NextFakeStep ==
  ASSUME NoReplace, TypeInv, MoveInv, [Next]_vars
  PROVE  \/ \E r \in Request : Fake!Begin(r) \/ Fake!SetStatus(r) \/ Fake!Refuse(r)
         \/ UNCHANGED <<Recs, Stage, Named, Barring>>
<1>1. ASSUME NEW r \in Request, ReplaceStep(r) PROVE FALSE
  <2>1. body[r].op \in {"add", "remove"}
    BY <1>1 DEF ReplaceStep, PurgeSubs, PurgeSuspended, InsertNew, At, TypeInv, Routed
  <2>2. body[r].op \in Op
    BY DEF TypeInv, TypeOK, Body
  <2> QED  BY <2>1, <2>2 DEF NoReplace
<1>2. ASSUME NEW r \in Request, MoveStep(r) PROVE FakeStep(r)
  BY <1>2, FindRawFakeStep, CountTargetFakeStep, InsertRawFakeStep, DeleteRawFakeStep,
     OtherMoveFakeStep DEF MoveStep
<1>3. ASSUME NEW r \in Request, Accept(r) \/ Step(r) PROVE FakeStep(r)
  BY <1>1, <1>2, <1>3, AcceptFakeStep, FieldFakeStep, ReadFakeStep, AuditFakeStep DEF Step
<1>4. CASE (\E r \in Request : Abort(r)) \/ UNCHANGED vars
  <2>1. UNCHANGED <<subs, suspended, body, pc>>
    BY <1>4 DEF Abort, vars, collections
  <2>2. /\ \A i : StatusOf(i)' = StatusOf(i)
        /\ \A r : StageOf(r)' = StageOf(r) /\ Imsi(r)' = Imsi(r)
    BY <2>1 DEF StatusOf, StageOf, MovePending, Holds, Matching, Imsi
  <2> QED  BY <2>1, <2>2 DEF Recs, Stage, Named, Barring
<1>5. (\E r \in Request : Accept(r) \/ Step(r) \/ Abort(r)) \/ UNCHANGED vars
  BY DEF Next
<1> QED  BY <1>3, <1>4, <1>5 DEF FakeStep

\* While subscribers are neither added nor removed, concurrent suspends and resumes
\* of the Mongo store, whatever they race with and wherever they die, are those of
\* the mutex-guarded store of the unit tests.
THEOREM MovesAreAtomic == NoReplace => (Spec => ImplementsFakeStore)
<1> SUFFICES ASSUME NoReplace PROVE Spec => ImplementsFakeStore
  OBVIOUS
<1>1. TypeInv /\ MoveInv /\ [Next]_vars => [Fake!Next]_(Fake!vars)
  BY NextFakeStep DEF Fake!Next, Fake!vars, Recs, Stage, Named, Barring
<1> QED  BY <1>1, FakeInit, MoveInvHolds, PTL DEF Spec, ImplementsFakeStore, Fake!Spec
==============================================================================
