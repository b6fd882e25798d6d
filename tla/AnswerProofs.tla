------------------------------ MODULE AnswerProofs ------------------------------
(***************************************************************************)
(* What the answers of the REST handlers mean, as long as clients suspend,  *)
(* resume, edit and read: for any sets of subscribers, requests, plans and  *)
(* addresses, whatever races and wherever requests die.                     *)
(***************************************************************************)
EXTENDS SubscriberStoreProofs

Inv == TypeInv /\ MoveInv /\ History

LEMMA NoAdds ==
  ASSUME NoReplace, TypeInv, NEW r \in Request
  PROVE  /\ body[r].op \in {"suspend", "resume", "plan", "ip", "get", "list"}
         /\ pc[r] \notin {"purgeSubs", "purgeSuspended", "insertNew"}
<1>1. body[r].op \in Op
  BY DEF TypeInv, TypeOK, Body
<1> QED  BY <1>1, StoreAssumption DEF NoReplace, TypeInv, Routed, Reads, Changes

LEMMA InvHolds == NoReplace => (Spec => []Inv)
<1> SUFFICES ASSUME NoReplace PROVE Spec => []Inv
  OBVIOUS
<1>1. Init => Inv
  BY InitType, InitMove, InitHistory DEF Inv
<1>2. Inv /\ [Next]_vars => Inv'
  BY NextType, NextMove, NextHistory DEF Inv
<1> QED  BY <1>1, <1>2, PTL DEF Spec

-----------------------------------------------------------------------------
(* A request that has found nothing where it looked first, and a move that has   *)
(* taken the document away from there, can rely on it: only a move the other way  *)
(* puts one back.                                                                *)

\* Where a request looks first, and a move takes the document from.
First(r) == IF body[r].op = "resume" THEN suspended ELSE subs

Second(r) == IF body[r].op = "resume" THEN subs ELSE suspended

\* No move the other way runs beside r, or will have followed it.
Unmoved(r) ==
  \A q \in Request : Same(q, r) /\ body[q].op = Against(r) => Past(q, r)

PastFirst(r) ==
  \/ pc[r] \in {"count", "setSuspended"}
  \/ pc[r] = "readSuspended" /\ body[r].op = "get"
  \/ /\ pc[r] \in {"clear", "audit", "mirrorSubs", "mirrorSuspended", "ok"}
     /\ body[r].op \in {"suspend", "resume"}

GoneInv == \A r \in Request : PastFirst(r) /\ Unmoved(r) => ~Holds(First(r), Imsi(r))

LEMMA UnmovedStays ==
  ASSUME TypeInv, History, NEW p \in Request, Does(p), NEW r \in Request, pc[r] # "idle",
         Unmoved(r)'
  PROVE  /\ Unmoved(r)
         /\ Same(p, r) => body[p].op # Against(r)
<1>1. body' = body
  BY DoesLocal DEF Local
<1>2. Against(r)' = Against(r)
  BY <1>1 DEF Against
<1>3. ASSUME NEW q \in Request, Same(q, r), body[q].op = Against(r)
      PROVE  Past(q, r) /\ p # q
  <2>1. Past(q, r)'
    BY <1>1, <1>2, <1>3 DEF Unmoved, Same, Imsi
  <2> QED  BY <2>1, <1>3, PastStays DEF Same
<1> QED  BY <1>3 DEF Unmoved

\* The steps that come past the first look.
LEMMA ReachesPastFirst ==
  ASSUME NoReplace, Inv, NEW r \in Request, Does(r), PastFirst(r)'
  PROVE  PastFirst(r) \/ ~Holds(First(r), Imsi(r))'
<1> USE DEF Inv, TypeInv, TypeOK, At, Goto, PastFirst
<1>1. body[r].op \in {"suspend", "resume", "plan", "ip", "get", "list"}
  BY NoAdds
<1>2. CASE Accept(r)
  <2>1. FirstCall(body[r]) \in {"flag", "find", "setSubs", "unsetSubs", "readSubs"}
    BY <1>1 DEF FirstCall, Reads
  <2> QED  BY <1>2, <2>1 DEF Accept
<1>3. CASE Abort(r)
  BY <1>3 DEF Abort
<1>4. CASE FindRaw(r)
  BY <1>4 DEF FindRaw, From, First, Imsi, Holds, Matching, Routed, collections
<1>5. CASE DeleteRaw(r)
  <2>1. /\ OneEach(subs) /\ Own(subs) /\ OneEach(suspended) /\ Own(suspended)
    BY DEF MoveInv
  <2>2. CASE body[r].op = "suspend"
    <3>1. subs' \in DeleteOne(subs, Imsi(r))
      BY <1>5, <2>2 DEF DeleteRaw
    <3>2. ~Holds(subs', Imsi(r))
      BY <2>1, <3>1, DeleteKeeps
    <3> QED  BY <1>5, <2>2, <3>2 DEF DeleteRaw, First, Holds, Matching, Imsi
  <2>3. CASE body[r].op = "resume"
    <3>1. suspended' \in DeleteOne(suspended, Imsi(r))
      BY <1>5, <2>3 DEF DeleteRaw
    <3>2. ~Holds(suspended', Imsi(r))
      BY <2>1, <3>1, DeleteKeeps
    <3> QED  BY <1>5, <2>3, <3>2 DEF DeleteRaw, First, Holds, Matching, Imsi
  <2> QED  BY <1>5, <2>2, <2>3 DEF DeleteRaw
<1>6. CASE Flag(r) \/ CountTarget(r) \/ InsertRaw(r) \/ ClearFlags(r)
  BY <1>6 DEF Flag, CountTarget, AfterMove, InsertRaw, InsertInto, ClearFlags, Routed
<1>7. CASE SetSubs(r)
  <2>1. CASE Holds(subs, Imsi(r))
    BY <1>7, <2>1 DEF SetSubs, Routed
  <2>2. CASE ~Holds(subs, Imsi(r))
    BY <1>7, <2>2 DEF SetSubs, UpdateOne, First, Holds, Matching, Imsi, Routed
  <2> QED  BY <2>1, <2>2
<1>8. CASE SetSuspended(r) \/ UnsetSubs(r) \/ UnsetSuspended(r)
  BY <1>8 DEF SetSuspended, UnsetSubs, UnsetSuspended, Routed
<1>9. CASE ReplaceStep(r)
  BY <1>9, NoAdds DEF ReplaceStep, PurgeSubs, PurgeSuspended, InsertNew
<1>10. CASE ReadSubs(r)
  BY <1>10 DEF ReadSubs, First, Holds, Matching, Imsi, Routed, Reads, collections
<1>11. CASE ReadSuspended(r)
  BY <1>11 DEF ReadSuspended, Routed, Reads
<1>12. CASE AuditStep(r)
  BY <1>12 DEF AuditStep, AppendAudit, AuditFails, MirrorSubs, MirrorSuspended
<1> QED  BY <1>2, <1>3, <1>4, <1>5, <1>6, <1>7, <1>8, <1>9, <1>10, <1>11, <1>12
            DEF Does, Step, MoveStep, FieldStep, ReadStep

LEMMA NextGone ==
  ASSUME NoReplace, Inv, GoneInv, NEW p \in Request, Does(p)
  PROVE  GoneInv'
<1> SUFFICES ASSUME NEW r \in Request, PastFirst(r)', Unmoved(r)'
             PROVE  ~Holds(First(r), Imsi(r))'
  BY DEF GoneInv
<1> USE DEF Inv
<1>1. Local(p)
  BY DoesLocal
<1>2. body' = body /\ Imsi(r)' = Imsi(r)
  BY <1>1 DEF Local, Imsi
<1> PICK i : i = Imsi(r)
  OBVIOUS
<1>3. CASE PastFirst(r)
  <2>1. pc[r] # "idle"
    BY <1>3 DEF PastFirst
  <2>2. Unmoved(r) /\ (Same(p, r) => body[p].op # Against(r))
    BY <2>1, UnmovedStays
  <2>3. ~Holds(First(r), Imsi(r))
    BY <1>3, <2>2 DEF GoneInv
  <2>4. pc[r] # "insert"
    BY <1>3 DEF PastFirst
  <2>5. pc[p] # "insertNew"
    BY NoAdds
  <2>6. CASE body[r].op = "resume"
    <3>1. ~Holds(suspended, i)
      BY <2>3, <2>6 DEF First
    <3>2. ~Holds(suspended, i)'
      BY <2>2, <2>4, <2>6, <3>1, HoldsSuspended DEF Same, Against
    <3> QED  BY <1>2, <2>6, <3>2 DEF First, Holds, Matching
  <2>7. CASE body[r].op # "resume"
    <3>1. ~Holds(subs, i)
      BY <2>3, <2>7 DEF First
    <3>2. ~Holds(subs, i)'
      BY <2>2, <2>4, <2>5, <2>7, <3>1, HoldsSubs DEF Same, Against
    <3> QED  BY <1>2, <2>7, <3>2 DEF First, Holds, Matching
  <2> QED  BY <2>6, <2>7
<1>4. CASE ~PastFirst(r)
  <2>1. p = r
    BY <1>1, <1>4 DEF Local, PastFirst
  <2> QED  BY <1>4, <2>1, ReachesPastFirst
<1> QED  BY <1>3, <1>4

LEMMA UnchangedKeeps ==
  ASSUME UNCHANGED vars
  PROVE  GoneInv => GoneInv'
BY DEF vars, GoneInv, PastFirst, Unmoved, Past, Same, Against, EndedBefore, First, Holds,
       Matching, Imsi

LEMMA GoneHolds == NoReplace => (Spec => [](Inv /\ GoneInv))
<1> SUFFICES ASSUME NoReplace PROVE Spec => [](Inv /\ GoneInv)
  OBVIOUS
<1>1. Init => GoneInv
  BY DEF Init, GoneInv, PastFirst
<1>2. Inv /\ GoneInv /\ [Next]_vars => GoneInv'
  BY NextGone, UnchangedKeeps DEF Next, Does
<1> QED  BY <1>1, <1>2, InvHolds, PTL DEF Spec

\* After an acknowledged suspend the HSS has no document to answer from, until a
\* resume beside it or after it puts one back.
THEOREM SuspendHolds == NoReplace => (Spec => []SuspendIsEnforced)
<1> SUFFICES ASSUME NoReplace PROVE Spec => []SuspendIsEnforced
  OBVIOUS
<1>1. Inv /\ GoneInv => SuspendIsEnforced
  BY DEF GoneInv, PastFirst, Unmoved, Past, Against, First, SuspendIsEnforced
<1> QED  BY <1>1, GoneHolds, PTL

-----------------------------------------------------------------------------
(* A 404 for a subscriber who exists.                                            *)

NotFoundInv ==
  \A r \in Request : pc[r] = "notFound" /\ Imsi(r) \in Seeded => ~Unmoved(r)

\* The answer 404 is given after two looks that found nothing.
LEMMA ReachesNotFound ==
  ASSUME NoReplace, Inv, NEW r \in Request, Does(r), pc'[r] = "notFound"
  PROVE  PastFirst(r) /\ ~Holds(Second(r), Imsi(r))
<1> USE DEF Inv, TypeInv, TypeOK, At, Goto, PastFirst
<1>1. body[r].op \in {"suspend", "resume", "plan", "ip", "get", "list"}
  BY NoAdds
<1>2. CASE Accept(r)
  <2>1. FirstCall(body[r]) \in {"flag", "find", "setSubs", "unsetSubs", "readSubs"}
    BY <1>1 DEF FirstCall, Reads
  <2> QED  BY <1>2, <2>1 DEF Accept
<1>3. CASE Abort(r)
  BY <1>3 DEF Abort, Call
<1>4. CASE CountTarget(r)
  BY <1>1, <1>4 DEF CountTarget, AfterMove, Target, Second, Routed
<1>5. CASE Flag(r) \/ FindRaw(r) \/ InsertRaw(r) \/ DeleteRaw(r) \/ ClearFlags(r)
  BY <1>5 DEF Flag, FindRaw, InsertRaw, InsertInto, DeleteRaw, AfterMove, ClearFlags
<1>6. CASE SetSuspended(r)
  BY <1>6 DEF SetSuspended, Second, Routed
<1>7. CASE SetSubs(r) \/ UnsetSubs(r) \/ UnsetSuspended(r)
  BY <1>7 DEF SetSubs, UnsetSubs, UnsetSuspended
<1>8. CASE ReplaceStep(r)
  BY <1>8, NoAdds DEF ReplaceStep, PurgeSubs, PurgeSuspended, InsertNew
<1>9. CASE ReadSuspended(r)
  BY <1>9 DEF ReadSuspended, Second, Routed
<1>10. CASE ReadSubs(r)
  BY <1>10 DEF ReadSubs
<1>11. CASE AuditStep(r)
  BY <1>11 DEF AuditStep, AppendAudit, AuditFails, MirrorSubs, MirrorSuspended
<1> QED  BY <1>2, <1>3, <1>4, <1>5, <1>6, <1>7, <1>8, <1>9, <1>10, <1>11
            DEF Does, Step, MoveStep, FieldStep, ReadStep

LEMMA NextNotFound ==
  ASSUME NoReplace, Inv, GoneInv, NotFoundInv, NEW p \in Request, Does(p)
  PROVE  NotFoundInv'
<1> SUFFICES ASSUME NEW r \in Request, pc'[r] = "notFound", Imsi(r)' \in Seeded, Unmoved(r)'
             PROVE  FALSE
  BY DEF NotFoundInv
<1> USE DEF Inv
<1>1. Local(p)
  BY DoesLocal
<1>2. Imsi(r)' = Imsi(r)
  BY <1>1 DEF Local, Imsi
<1>3. CASE pc[r] = "notFound"
  <2>1. Unmoved(r)
    BY <1>3, UnmovedStays
  <2> QED  BY <1>2, <1>3, <2>1 DEF NotFoundInv
<1>4. CASE pc[r] # "notFound"
  <2>1. p = r
    BY <1>1, <1>4 DEF Local
  <2>2. PastFirst(r) /\ ~Holds(Second(r), Imsi(r))
    BY <2>1, ReachesNotFound
  <2>3. Unmoved(r)
    BY <2>2, UnmovedStays DEF PastFirst
  <2>4. ~Holds(First(r), Imsi(r))
    BY <2>2, <2>3 DEF GoneInv
  <2> QED  BY <1>2, <2>2, <2>4 DEF MoveInv, NothingLost, First, Second
<1> QED  BY <1>3, <1>4

\* A subscriber who exists is answered 404 only beside a move against the order in
\* which the request looks.
THEOREM NotFoundMeansMove == NoReplace => (Spec => []NotFoundOnlyBesideMove)
<1> SUFFICES ASSUME NoReplace PROVE Spec => []NotFoundOnlyBesideMove
  OBVIOUS
<1>1. Init => NotFoundInv
  BY DEF Init, NotFoundInv
<1>2. UNCHANGED vars /\ NotFoundInv => NotFoundInv'
  BY DEF vars, NotFoundInv, Unmoved, Past, Same, Against, EndedBefore, Imsi
<1>3. (Inv /\ GoneInv) /\ NotFoundInv /\ [Next]_vars => NotFoundInv'
  BY <1>2, NextNotFound DEF Next, Does
<1>4. NotFoundInv => NotFoundOnlyBesideMove
  BY DEF NotFoundInv, Unmoved, Past, NotFoundOnlyBesideMove
<1> QED  BY <1>1, <1>3, <1>4, GoneHolds, PTL DEF Spec

-----------------------------------------------------------------------------
(* A resume leaves the subscriber live and lowers two flags, and only a suspend   *)
(* raises them again: another resume that still holds the document as it was      *)
(* suspended cannot put it back, because the live one has the same `_id`.         *)

\* A move that found a document found one of a subscriber who exists.
KnownInv ==
  \A r \in Request :
    /\ body[r].op \in {"suspend", "resume"}
    /\ pc[r] \in {"insert", "delete", "clear", "audit", "mirrorSubs", "mirrorSuspended", "ok"}
    => Imsi(r) \in Seeded

Lowered(r) ==
  /\ body[r].op = "resume"
  /\ pc[r] \in {"audit", "mirrorSubs", "mirrorSuspended", "ok"}

FlagInv ==
  \A r \in Request :
    Lowered(r) /\ Unmoved(r) => \A d \in Matching(subs, Imsi(r)) : d.odb = 0 /\ ~d.rcl

ResumeInv == GoneInv /\ KnownInv /\ FlagInv

LEMMA NextKnown ==
  ASSUME NoReplace, Inv, KnownInv, NEW p \in Request, Does(p)
  PROVE  KnownInv'
<1> USE DEF Inv, TypeInv, TypeOK, At, Goto
<1> DEFINE Has(c) == c \in {"insert", "delete", "clear", "audit", "mirrorSubs",
                            "mirrorSuspended", "ok"}
<1>1. Local(p)
  BY DoesLocal
<1>2. \A r \in Request : Imsi(r)' = Imsi(r) /\ body'[r] = body[r]
  BY <1>1 DEF Local, Imsi
<1>3. body[p].op \in {"suspend", "resume", "plan", "ip", "get", "list"}
  BY NoAdds
<1>4. ASSUME body[p].op \in {"suspend", "resume"}, Has(pc'[p])
      PROVE  Has(pc[p]) \/ Imsi(p) \in Seeded
  <2>1. CASE Accept(p)
    <3>1. FirstCall(body[p]) \in {"flag", "find"}
      BY <1>4 DEF FirstCall, Reads
    <3> QED  BY <1>4, <2>1, <3>1 DEF Accept
  <2>2. CASE Abort(p)
    BY <1>4, <2>2 DEF Abort
  <2>3. CASE FindRaw(p)
    BY <1>4, <2>3 DEF FindRaw, From, Holds, Matching, MoveInv, Own
  <2>4. CASE CountTarget(p)
    BY <1>4, <2>4 DEF CountTarget, Target, Holds, Matching, MoveInv, Own
  <2>5. CASE Flag(p) \/ InsertRaw(p) \/ DeleteRaw(p) \/ ClearFlags(p)
    BY <1>4, <2>5 DEF Flag, InsertRaw, DeleteRaw, ClearFlags
  <2>6. CASE FieldStep(p)
    BY <1>4, <2>6 DEF FieldStep, SetSubs, SetSuspended, UnsetSubs, UnsetSuspended, Routed
  <2>7. CASE ReplaceStep(p)
    BY <2>7, NoAdds DEF ReplaceStep, PurgeSubs, PurgeSuspended, InsertNew
  <2>8. CASE ReadStep(p)
    BY <1>4, <2>8 DEF ReadStep, ReadSubs, ReadSuspended, Routed, Reads
  <2>9. CASE AuditStep(p)
    BY <1>4, <2>9 DEF AuditStep, AppendAudit, AuditFails, MirrorSubs, MirrorSuspended
  <2> QED  BY <2>1, <2>2, <2>3, <2>4, <2>5, <2>6, <2>7, <2>8, <2>9 DEF Does, Step, MoveStep
<1>5. \A r \in Request : r # p => pc'[r] = pc[r]
  BY <1>1 DEF Local
<1> QED  BY <1>2, <1>4, <1>5 DEF KnownInv

\* Past the first look, a resume that no suspend disturbs has its subscriber live.
LEMMA UnmovedIsLive ==
  ASSUME Inv, GoneInv, KnownInv, NEW r \in Request, Lowered(r) \/ pc[r] = "clear", Unmoved(r)
  PROVE  Holds(subs, Imsi(r))
<1>1. body[r].op = "resume" /\ PastFirst(r)
  BY DEF Lowered, PastFirst, Inv, TypeInv, Routed
<1>2. ~Holds(suspended, Imsi(r)) /\ Imsi(r) \in Seeded
  BY <1>1 DEF GoneInv, KnownInv, First, Lowered
<1> QED  BY <1>2 DEF Inv, MoveInv, NothingLost

LEMMA NextFlag ==
  ASSUME NoReplace, Inv, ResumeInv, NEW p \in Request, Does(p)
  PROVE  FlagInv'
<1> SUFFICES ASSUME NEW r \in Request, Lowered(r)', Unmoved(r)',
                    NEW e \in Matching(subs, Imsi(r))'
             PROVE  e.odb = 0 /\ ~e.rcl
  BY DEF FlagInv
<1> USE DEF Inv, TypeInv, TypeOK
<1>1. Local(p) /\ SubsWritten(p)
  BY DoesLocal, DoesWritten
<1>2. body' = body /\ Imsi(r)' = Imsi(r)
  BY <1>1 DEF Local, Imsi
<1>3. e \in subs' /\ e.imsi = Imsi(r)
  BY <1>2 DEF Matching
<1>4. \A d \in Doc : d.odb = 0 /\ ~d.rcl =>
        /\ Cleared(d).odb = 0 /\ ~Cleared(d).rcl
        /\ Fields(p, d).odb = 0 /\ ~Fields(p, d).rcl
        /\ WithoutIp(d).odb = 0 /\ ~WithoutIp(d).rcl
        /\ Mirrored(p, d).odb = 0 /\ ~Mirrored(p, d).rcl
  BY DEF Doc, Cleared, Fields, WithoutIp, Mirrored
<1>5. CASE Lowered(r)
  <2>1. pc[r] # "idle"
    BY <1>5 DEF Lowered
  <2>2. Unmoved(r) /\ (Same(p, r) => body[p].op # Against(r))
    BY <2>1, UnmovedStays
  <2>3. \A d \in Matching(subs, Imsi(r)) : d.odb = 0 /\ ~d.rcl
    BY <1>5, <2>2 DEF ResumeInv, FlagInv
  <2>4. Holds(subs, Imsi(r))
    BY <1>5, <2>2, UnmovedIsLive DEF ResumeInv
  <2> SUFFICES ASSUME e \notin subs PROVE e.odb = 0 /\ ~e.rcl
    BY <1>3, <2>3 DEF Matching
  <2>5. WritesSubs(p, e)
    BY <1>1, <1>3 DEF SubsWritten
  <2>6. CASE pc[p] = "flag"
    <3>1. \A d \in Doc : Barred(d).imsi = d.imsi
      BY DEF Barred, Doc
    <3>2. Imsi(p) = Imsi(r) /\ body[p].op = "suspend"
      BY <1>3, <2>5, <2>6, <3>1 DEF WritesSubs, Matching, Routed
    <3> QED  BY <1>5, <2>2, <3>2 DEF Same, Against, Lowered
  <2>7. CASE pc[p] = "insert"
    <3>1. PICK d \in Doc : /\ got[p] = {d} /\ d.imsi = Imsi(p) /\ d.id = Imsi(p)
      BY <2>7 DEF MoveInv, RawIsOwn
    <3>2. e = d /\ ~HasId(subs, e.id)
      BY <2>5, <2>7, <3>1 DEF WritesSubs
    <3> QED  BY <1>3, <2>4, <3>1, <3>2 DEF Holds, Matching, HasId, MoveInv, Own
  <2>8. CASE pc[p] \notin {"flag", "insert"}
    <3>1. pc[p] # "insertNew"
      BY NoAdds
    <3>2. \A d \in Doc : /\ Cleared(d).imsi = d.imsi /\ Fields(p, d).imsi = d.imsi
                         /\ WithoutIp(d).imsi = d.imsi /\ Mirrored(p, d).imsi = d.imsi
      BY DEF Doc, Cleared, Fields, WithoutIp, Mirrored
    <3> QED  BY <1>3, <1>4, <2>3, <2>5, <2>8, <3>1, <3>2 DEF WritesSubs, Matching
  <2> QED  BY <2>6, <2>7, <2>8
<1>6. CASE ~Lowered(r)
  <2>1. p = r
    BY <1>1, <1>6 DEF Local, Lowered
  <2>2. body[r].op = "resume"
    BY <1>2 DEF Lowered
  <2>3. CASE ClearFlags(r)
    <3>1. Unmoved(r) /\ pc[r] = "clear"
      BY <2>3, UnmovedStays DEF ClearFlags, At
    <3>2. Holds(subs, Imsi(r))
      BY <3>1, UnmovedIsLive DEF ResumeInv
    <3>3. PICK d \in Matching(subs, Imsi(r)) : subs' = (subs \ {d}) \cup {Cleared(d)}
      BY <2>3, <3>2 DEF ClearFlags, UpdateOne
    <3>4. e = Cleared(d)
      BY <1>3, <3>3 DEF Matching, MoveInv, OneEach
    <3>5. d \in Doc
      BY DEF Matching
    <3> QED  BY <3>4, <3>5 DEF Cleared, Doc
  <2>4. CASE ~ClearFlags(r)
    <3>1. CASE Accept(r)
      <4>1. FirstCall(body[r]) = "find"
        BY <2>2 DEF FirstCall, Reads
      <4> QED  BY <3>1, <4>1 DEF Accept, Lowered
    <3>2. CASE Abort(r)
      BY <1>2, <1>6, <3>2 DEF Abort, Lowered
    <3>3. CASE MoveStep(r)
      BY <2>2, <2>4, <3>3 DEF MoveStep, Flag, FindRaw, CountTarget, AfterMove, InsertRaw,
                              InsertInto, DeleteRaw, At, Goto, Lowered
    <3>4. CASE FieldStep(r) \/ ReadStep(r)
      BY <2>2, <3>4 DEF FieldStep, SetSubs, SetSuspended, UnsetSubs, UnsetSuspended,
                        ReadStep, ReadSubs, ReadSuspended, At, Routed, Reads
    <3>5. CASE ReplaceStep(r)
      BY <3>5, NoAdds DEF ReplaceStep, PurgeSubs, PurgeSuspended, InsertNew, At
    <3>6. CASE AuditStep(r)
      BY <1>6, <2>2, <3>6
         DEF AuditStep, AppendAudit, AuditFails, MirrorSubs, MirrorSuspended, At, Lowered
    <3> QED  BY <2>1, <3>1, <3>2, <3>3, <3>4, <3>5, <3>6 DEF Does, Step
  <2> QED  BY <2>3, <2>4
<1> QED  BY <1>5, <1>6

\* After an acknowledged resume, with no suspend beside or after it, the subscriber is
\* live and neither barred nor flagged for withdrawal.
THEOREM ResumeHolds == NoReplace => (Spec => []ResumeIsEnforced)
<1> SUFFICES ASSUME NoReplace PROVE Spec => []ResumeIsEnforced
  OBVIOUS
<1>1. Init => KnownInv /\ FlagInv
  BY DEF Init, KnownInv, FlagInv, Lowered
<1>2. UNCHANGED vars /\ KnownInv /\ FlagInv => (KnownInv /\ FlagInv)'
  BY DEF vars, KnownInv, FlagInv, Lowered, Unmoved, Past, Same, Against, EndedBefore,
         Matching, Imsi
<1>3. (Inv /\ GoneInv) /\ (KnownInv /\ FlagInv) /\ [Next]_vars => (KnownInv /\ FlagInv)'
  BY <1>2, NextKnown, NextFlag DEF Next, Does, ResumeInv
<1>4. (Inv /\ GoneInv) /\ (KnownInv /\ FlagInv) => ResumeIsEnforced
  <2> SUFFICES ASSUME Inv, GoneInv, KnownInv, FlagInv, NEW r \in Request,
                      pc[r] = "ok", body[r].op = "resume",
                      \A q \in Request : Same(q, r) /\ body[q].op = "suspend" => Past(q, r)
               PROVE  /\ Holds(subs, Imsi(r))
                      /\ \A d \in Matching(subs, Imsi(r)) : d.odb = 0 /\ ~d.rcl
    BY DEF ResumeIsEnforced, Past
  <2>1. Unmoved(r) /\ Lowered(r)
    BY DEF Unmoved, Against, Lowered
  <2> QED  BY <2>1, UnmovedIsLive DEF FlagInv
<1> QED  BY <1>1, <1>3, <1>4, GoneHolds, PTL DEF Spec

-----------------------------------------------------------------------------
(* A list reads the live collection first, so that only a resume slips past it.  *)

\* A resume of subscriber i runs beside r.
ResumedBeside(r, i) ==
  \E q \in Request : /\ body[q].op = "resume" /\ Imsi(q) = i
                     /\ ~EndedBefore(q, r) /\ pc[q] # "idle"

ListInv ==
  \A r \in Request : \A i \in Seeded :
    body[r].op = "list" =>
      /\ pc[r] = "readSuspended" =>
           Holds(got[r], i) \/ ~Holds(subs, i) \/ ResumedBeside(r, i)
      /\ pc[r] = "ok" => Holds(got[r], i) \/ ResumedBeside(r, i)

LEMMA BesideStays ==
  ASSUME TypeInv, History, NEW p \in Request, Does(p), NEW r \in Request, pc[r] # "idle",
         NEW i, ResumedBeside(r, i)
  PROVE  ResumedBeside(r, i)'
<1>1. PICK q \in Request : /\ body[q].op = "resume" /\ Imsi(q) = i
                           /\ ~EndedBefore(q, r) /\ pc[q] # "idle"
  BY DEF ResumedBeside
<1>2. /\ body'[q].op = "resume" /\ Imsi(q)' = i
      /\ ~EndedBefore(q, r)' /\ pc'[q] # "idle"
  BY <1>1, DoesLocal DEF Local, EndedBefore, Imsi
<1> QED  BY <1>2 DEF ResumedBeside

LEMMA NextList ==
  ASSUME NoReplace, Inv, ListInv, NEW p \in Request, Does(p)
  PROVE  ListInv'
<1> SUFFICES ASSUME NEW r \in Request, NEW i \in Seeded, body'[r].op = "list",
                    ~ResumedBeside(r, i)'
             PROVE  /\ pc'[r] = "readSuspended" => Holds(got[r], i)' \/ ~Holds(subs, i)'
                    /\ pc'[r] = "ok" => Holds(got[r], i)'
  BY DEF ListInv
<1> USE DEF Inv, TypeInv, TypeOK
<1>1. Local(p) /\ body' = body
  BY DoesLocal DEF Local
<1>2. pc[r] # "idle" => ~ResumedBeside(r, i)
  BY BesideStays
<1>3. CASE p # r
  <2>1. pc'[r] = pc[r] /\ got'[r] = got[r] /\ before'[r] = before[r]
    BY <1>1, <1>3 DEF Local
  <2>2. Holds(got[r], i)' <=> Holds(got[r], i)
    BY <2>1 DEF Holds, Matching
  <2>3. ASSUME Holds(subs, i)', ~Holds(subs, i) PROVE FALSE
    <3>1. Imsi(p) = i /\ body[p].op = "resume"
      BY <2>3, HoldsSubs, NoAdds
    <3>2. p \notin before'[r] /\ pc'[p] # "idle"
      BY <1>1, <2>1 DEF Local, History
    <3> QED  BY <1>1, <3>1, <3>2 DEF ResumedBeside, EndedBefore, Imsi
  <2> QED  BY <1>1, <1>2, <2>1, <2>2, <2>3 DEF ListInv
<1>4. CASE p = r
  <2>1. CASE ReadSubs(r)
    <3>1. got'[r] = subs /\ subs' = subs /\ pc'[r] = "readSuspended"
      BY <1>1, <2>1 DEF ReadSubs, Found, Goto, collections
    <3> QED  BY <3>1 DEF Holds, Matching
  <2>2. CASE ReadSuspended(r)
    <3>1. got'[r] = got[r] \cup suspended /\ pc'[r] = "ok" /\ pc[r] = "readSuspended"
      BY <1>1, <2>2 DEF ReadSuspended, Found, Goto, At
    <3>2. Holds(got[r], i) \/ Holds(suspended, i)
      BY <1>1, <1>2, <3>1 DEF ListInv, MoveInv, NothingLost
    <3> QED  BY <3>1, <3>2 DEF Holds, Matching
  <2>3. CASE Accept(r)
    <3>1. FirstCall(body[r]) = "readSubs"
      BY <1>1 DEF FirstCall, Reads
    <3> QED  BY <2>3, <3>1 DEF Accept
  <2>4. CASE Abort(r)
    BY <1>1, <1>2, <2>4 DEF Abort, ListInv, Holds, Matching, collections, Call
  <2>5. CASE MoveStep(r) \/ FieldStep(r) \/ ReplaceStep(r) \/ AuditStep(r)
    BY <1>1, <2>5
       DEF MoveStep, Flag, FindRaw, CountTarget, InsertRaw, DeleteRaw, ClearFlags, FieldStep,
           SetSubs, SetSuspended, UnsetSubs, UnsetSuspended, ReplaceStep, PurgeSubs,
           PurgeSuspended, InsertNew, AuditStep, AppendAudit, AuditFails, MirrorSubs,
           MirrorSuspended, At, Routed, Changes
  <2> QED  BY <1>4, <2>1, <2>2, <2>3, <2>4, <2>5 DEF Does, Step, ReadStep
<1> QED  BY <1>3, <1>4

\* A list misses nobody who existed when it began, unless a resume ran beside it.
THEOREM ListIsComplete == NoReplace => (Spec => []ListMissesNobody)
<1> SUFFICES ASSUME NoReplace PROVE Spec => []ListMissesNobody
  OBVIOUS
<1>1. Init => ListInv
  BY DEF Init, ListInv
<1>2. UNCHANGED vars /\ ListInv => ListInv'
  BY DEF vars, ListInv, ResumedBeside, EndedBefore, Holds, Matching, Imsi
<1>3. Inv /\ ListInv /\ [Next]_vars => ListInv'
  BY <1>2, NextList DEF Next, Does
<1>4. ListInv => ListMissesNobody
  BY DEF ListInv, ResumedBeside, ListMissesNobody
<1> QED  BY <1>1, <1>3, <1>4, InvHolds, PTL DEF Spec

-----------------------------------------------------------------------------
(* A move that dies between its insert and its delete blocks all later ones, and  *)
(* nothing else does.                                                            *)

Moving(r) == body[r].op \in {"suspend", "resume"}

\* A move of r's subscriber died half way before r.
HalfMoved(r) ==
  \E q \in aborted : Same(q, r) /\ EndedBefore(q, r) /\ pc[q] = "delete"

NoMoveBeside(r) == \A q \in Request : Moving(q) => ~Overlap(q, r)

HalfInv ==
  \A r \in Request :
    Moving(r) =>
      /\ HalfMoved(r) => pc[r] \in {"flag", "find", "insert", "failed"}
      /\ NoMoveBeside(r) /\ pc[r] = "failed" => HalfMoved(r)
      /\ NoMoveBeside(r) /\ pc[r] = "insert" /\ r \notin aborted => Holds(First(r), Imsi(r))

LEMMA HalfStays ==
  ASSUME TypeInv, History, NEW p \in Request, Does(p), NEW r \in Request, pc[r] # "idle"
  PROVE  /\ HalfMoved(r)' <=> HalfMoved(r)
         /\ NoMoveBeside(r)' => NoMoveBeside(r)
<1>1. Local(p)
  BY DoesLocal
<1>2. ASSUME NEW q \in Request
      PROVE  /\ Same(q, r)' <=> Same(q, r)
             /\ EndedBefore(q, r)' <=> EndedBefore(q, r)
             /\ Moving(q)' <=> Moving(q)
  BY <1>1 DEF Local, Same, EndedBefore, Moving, Imsi
<1>3. ASSUME NEW q \in Request, EndedBefore(q, r)
      PROVE  (q \in aborted' <=> q \in aborted) /\ pc'[q] = pc[q]
  BY <1>1, <1>3 DEF EndedBefore, History, Local
<1>4. aborted \subseteq Request /\ aborted' \subseteq Request
  BY NextType DEF TypeInv, TypeOK, Next, Does
<1> QED  BY <1>2, <1>3, <1>4, OverlapStays DEF HalfMoved, NoMoveBeside

\* A subscriber whose move died half way has both documents, and a later move of him
\* finds the one and fails to insert it beside the other.
LEMMA BlockedStep ==
  ASSUME NoReplace, Inv, HalfInv, NEW r \in Request, Does(r), Moving(r), HalfMoved(r)'
  PROVE  pc'[r] \in {"flag", "find", "insert", "failed"}
<1> USE DEF Inv, TypeInv, TypeOK, At, Goto, Moving
<1>1. CASE Accept(r)
  <2>1. FirstCall(body[r]) \in {"flag", "find"}
    BY DEF FirstCall, Reads
  <2> QED  BY <1>1, <2>1 DEF Accept
<1>2. CASE ~Accept(r)
  <2>1. pc[r] # "idle"
    BY <1>2 DEF Does, Abort, Step, MoveStep, Flag, FindRaw, CountTarget, InsertRaw,
                DeleteRaw, ClearFlags, FieldStep, SetSubs, SetSuspended, UnsetSubs,
                UnsetSuspended, ReplaceStep, PurgeSubs, PurgeSuspended, InsertNew,
                ReadStep, ReadSubs, ReadSuspended, AuditStep, AppendAudit, AuditFails,
                MirrorSubs, MirrorSuspended, Call
  <2>2. HalfMoved(r)
    BY <2>1, HalfStays
  <2>3. pc[r] \in {"flag", "find", "insert", "failed"}
    BY <2>2 DEF HalfInv
  <2>4. Holds(subs, Imsi(r)) /\ Holds(suspended, Imsi(r))
    BY <2>2 DEF HalfMoved, Same, MoveInv, DeleteHoldsBoth
  <2>5. CASE Abort(r)
    BY <2>3, <2>5 DEF Abort
  <2>6. CASE InsertRaw(r)
    <3>1. PICK d \in Doc : got[r] = {d} /\ d.id = Imsi(r)
      BY <2>6 DEF InsertRaw, MoveInv, RawIsOwn
    <3>2. HasId(subs, d.id) /\ HasId(suspended, d.id)
      BY <2>4, <3>1 DEF Holds, Matching, HasId, MoveInv, Own
    <3>3. pc' = [pc EXCEPT ![r] = "failed"]
      BY <2>6, <3>1, <3>2 DEF InsertRaw, InsertInto
    <3> QED  BY <3>3
  <2>7. CASE Flag(r) \/ FindRaw(r)
    BY <2>4, <2>7 DEF Flag, FindRaw, From
  <2> QED  BY <1>2, <2>3, <2>5, <2>6, <2>7
           DEF Does, Step, MoveStep, CountTarget, DeleteRaw, ClearFlags, FieldStep, SetSubs,
               SetSuspended, UnsetSubs, UnsetSuspended, ReplaceStep, PurgeSubs,
               PurgeSuspended, InsertNew, ReadStep, ReadSubs, ReadSuspended, AuditStep,
               AppendAudit, AuditFails, MirrorSubs, MirrorSuspended
<1> QED  BY <1>1, <1>2

\* A move that fails has found its subscriber in both collections, and if none ran
\* beside it, the one that put him there is dead.
LEMMA FailingStep ==
  ASSUME NoReplace, Inv, HalfInv, NEW r \in Request, Does(r), Moving(r), NoMoveBeside(r)',
         pc'[r] = "failed", pc[r] # "failed"
  PROVE  HalfMoved(r)
<1> USE DEF Inv, TypeInv, TypeOK, At, Goto
<1>1. InsertRaw(r)
  <2>1. CASE Accept(r)
    <3>1. FirstCall(body[r]) \in {"flag", "find"}
      BY DEF FirstCall, Reads, Moving
    <3> QED  BY <2>1, <3>1 DEF Accept
  <2>2. CASE Abort(r)
    BY <2>2 DEF Abort
  <2>3. CASE MoveStep(r)
    BY <2>3 DEF MoveStep, Flag, FindRaw, CountTarget, AfterMove, DeleteRaw, ClearFlags
  <2>4. CASE FieldStep(r) \/ ReadStep(r)
    BY <2>4 DEF FieldStep, SetSubs, SetSuspended, UnsetSubs, UnsetSuspended, ReadStep,
                ReadSubs, ReadSuspended
  <2>5. CASE ReplaceStep(r) \/ AuditStep(r)
    BY <2>5 DEF ReplaceStep, PurgeSubs, PurgeSuspended, InsertNew, AuditStep, AppendAudit,
                AuditFails, MirrorSubs, MirrorSuspended
  <2> QED  BY <2>1, <2>2, <2>3, <2>4, <2>5 DEF Does, Step
<1>2. pc[r] = "insert" /\ r \notin aborted /\ NoMoveBeside(r)
  BY <1>1, HalfStays DEF InsertRaw
<1>3. Holds(First(r), Imsi(r))
  BY <1>2 DEF HalfInv
<1>4. Holds(Second(r), Imsi(r))
  <2>1. PICK d \in Doc : got[r] = {d} /\ d.id = Imsi(r)
    BY <1>2 DEF MoveInv, RawIsOwn
  <2>2. HasId(Second(r), d.id)
    BY <1>1, <2>1 DEF InsertRaw, InsertInto, HasId, Second
  <2> QED  BY <2>1, <2>2 DEF HasId, Second, Holds, Matching, MoveInv, Own
<1>5. Imsi(r) \in IMSI
  BY DEF Imsi, Body
<1>6. PICK q \in Request : pc[q] = "delete" /\ Imsi(q) = Imsi(r)
  BY <1>3, <1>4, <1>5 DEF First, Second, MoveInv, BothAtDelete
<1>7. Same(q, r) /\ Moving(q)
  BY <1>2, <1>6 DEF Same, Moving, Routed
<1>8. ~NotYet(q, r)
  BY <1>2, <1>6 DEF NotYet, EndedBefore, History, Ended, Answer
<1>9. EndedBefore(q, r)
  BY <1>2, <1>7, <1>8 DEF NoMoveBeside, Overlap, NotYet
<1>10. q \in aborted
  BY <1>6, <1>9 DEF EndedBefore, History, Ended, Answer
<1> QED  BY <1>6, <1>7, <1>9, <1>10 DEF HalfMoved

\* What a move has found stays there until it inserts, if no other one runs beside it.
LEMMA FoundStays ==
  ASSUME NoReplace, Inv, HalfInv, NEW p \in Request, Does(p), NEW r \in Request, Moving(r),
         NoMoveBeside(r)', pc'[r] = "insert", r \notin aborted'
  PROVE  Holds(First(r), Imsi(r))'
<1> USE DEF Inv, TypeInv, TypeOK, At, Goto
<1>1. Local(p)
  BY DoesLocal
<1>2. body' = body /\ Imsi(r)' = Imsi(r)
  BY <1>1 DEF Local, Imsi
<1> PICK i : i = Imsi(r)
  OBVIOUS
<1>3. CASE p = r
  <2>1. CASE FindRaw(r)
    <3>1. Holds(First(r), Imsi(r)) /\ subs' = subs /\ suspended' = suspended
      BY <2>1 DEF FindRaw, From, First, Moving, collections
    <3> QED  BY <1>2, <3>1 DEF First, Holds, Matching
  <2>2. CASE ~FindRaw(r)
    <3>1. pc[r] = "insert"
      BY <1>3, <2>2, ReachesInsert
    <3>2. Abort(r)
      BY <1>3, <3>1
         DEF Does, Accept, Step, MoveStep, Flag, FindRaw, CountTarget, InsertRaw, InsertInto,
             DeleteRaw, ClearFlags, FieldStep, SetSubs, SetSuspended, UnsetSubs,
             UnsetSuspended, ReplaceStep, PurgeSubs, PurgeSuspended, InsertNew, ReadStep,
             ReadSubs, ReadSuspended, AuditStep, AppendAudit, AuditFails, MirrorSubs,
             MirrorSuspended
    <3> QED  BY <3>2 DEF Abort
  <2> QED  BY <2>1, <2>2
<1>4. CASE p # r
  <2>1. pc[r] = "insert" /\ r \notin aborted
    BY <1>1, <1>4 DEF Local
  <2>2. Holds(First(r), Imsi(r))
    BY <2>1, HalfStays DEF HalfInv
  <2>3. ASSUME Imsi(p) = i, DeletesSubs(p) \/ DeletesSuspended(p)
        PROVE  FALSE
    <3>1. Moving(p) /\ Same(p, r)
      BY <1>4, <2>3, NoAdds DEF DeletesSubs, DeletesSuspended, Moving, Same, Routed
    <3>2. ~Overlap(p, r)'
      BY <1>2, <3>1 DEF NoMoveBeside, Moving
    <3>3. Ended(r)
      BY <2>1, <3>1, <3>2, StepsAfter
    <3> QED  BY <2>1, <3>3 DEF Ended, Answer
  <2>4. /\ Holds(subs, i) => Holds(subs, i)'
        /\ Holds(suspended, i) => Holds(suspended, i)'
    BY <2>3, HoldsSubs, HoldsSuspended
  <2>5. Holds(First(r), Imsi(r))' <=>
          IF body[r].op = "resume" THEN Holds(suspended, i)' ELSE Holds(subs, i)'
    BY <1>2 DEF First, Holds, Matching
  <2> QED  BY <2>2, <2>4, <2>5 DEF First
<1> QED  BY <1>3, <1>4

LEMMA NextHalf ==
  ASSUME NoReplace, Inv, HalfInv, NEW p \in Request, Does(p)
  PROVE  HalfInv'
<1> USE DEF Inv
<1>1. Local(p)
  BY DoesLocal
<1> SUFFICES ASSUME NEW r \in Request, Moving(r)
             PROVE  /\ HalfMoved(r)' => pc'[r] \in {"flag", "find", "insert", "failed"}
                    /\ NoMoveBeside(r)' /\ pc'[r] = "failed" => HalfMoved(r)'
                    /\ NoMoveBeside(r)' /\ pc'[r] = "insert" /\ r \notin aborted'
                         => Holds(First(r), Imsi(r))'
  BY <1>1 DEF HalfInv, Moving, Local
<1>2. CASE p # r
  <2>1. pc'[r] = pc[r] /\ before'[r] = before[r]
    BY <1>1, <1>2 DEF Local
  <2>2. CASE pc[r] = "idle"
    BY <2>1, <2>2 DEF HalfMoved, EndedBefore, History
  <2>3. CASE pc[r] # "idle"
    BY <2>1, <2>3, HalfStays, FoundStays DEF HalfInv
  <2> QED  BY <2>2, <2>3
<1>3. CASE p = r
  <2>1. HalfMoved(r)' => pc'[r] \in {"flag", "find", "insert", "failed"}
    BY <1>3, BlockedStep
  <2>2. ASSUME NoMoveBeside(r)', pc'[r] = "failed" PROVE HalfMoved(r)'
    <3>1. CASE pc[r] = "failed"
      BY <2>2, <3>1, HalfStays DEF HalfInv
    <3>2. CASE pc[r] # "failed" /\ pc[r] # "idle"
      BY <1>3, <2>2, <3>2, FailingStep, HalfStays
    <3>3. CASE pc[r] = "idle"
      BY <1>3, <2>2, <3>3, FailingStep DEF HalfMoved, EndedBefore, History
    <3> QED  BY <3>1, <3>2, <3>3
  <2> QED  BY <2>1, <2>2, FoundStays
<1> QED  BY <1>2, <1>3

\* A suspend or resume beside which no other move runs fails exactly if one of the
\* subscriber has died half way before.
THEOREM HalfMoveStops == NoReplace => (Spec => []HalfMoveBlocks)
<1> SUFFICES ASSUME NoReplace PROVE Spec => []HalfMoveBlocks
  OBVIOUS
<1>1. Init => HalfInv
  BY DEF Init, HalfInv, HalfMoved
<1>2. UNCHANGED vars /\ HalfInv => HalfInv'
  BY DEF vars, HalfInv, Moving, HalfMoved, NoMoveBeside, Overlap, NotYet, Same, EndedBefore,
         First, Holds, Matching, Imsi
<1>3. Inv /\ HalfInv /\ [Next]_vars => HalfInv'
  BY <1>2, NextHalf DEF Next, Does
<1>4. HalfInv => HalfMoveBlocks
  BY DEF HalfInv, Moving, HalfMoved, NoMoveBeside, HalfMoveBlocks, Answer
<1> QED  BY <1>1, <1>3, <1>4, InvHolds, PTL DEF Spec

-----------------------------------------------------------------------------
(* An acknowledged edit survives all moves that begin after it.  It is not enough  *)
(* that the documents carry the new value: a move that has read one writes it back  *)
(* later.  But if a move died half way before the edit, only the live document has *)
(* it, and then no move ever gets past its insert.                                *)

\* Document d has the value that edit r asks for.
Carries(r, d) == IF body[r].op = "plan" THEN d.ambr = body[r].ambr ELSE d.ip = body[r].ip

Quiet(r) ==
  /\ \A q \in Request : Same(q, r) /\ body[q].op = body[r].op => Past(q, r)
  /\ NoMoveBeside(r)

\* A move of r's subscriber has died half way, before r or after it.
HalfStuck(r) == \E q \in aborted : Same(q, r) /\ pc[q] = "delete"

\* The documents of r's subscriber that moves hold in memory carry the value as well.
HeldCarry(r) ==
  \A q \in Request :
    Same(q, r) /\ pc[q] = "insert" /\ q \notin aborted => \A d \in got[q] : Carries(r, d)

Edit(r) == body[r].op \in {"plan", "ip"} /\ r \notin aborted

EditDone(r) == pc[r] \in {"audit", "mirrorSubs", "mirrorSuspended", "ok"}

UnsetInv ==
  \A r \in Request : pc[r] \in {"unsetSubs", "unsetSuspended"} => body[r].ip = NoIp

EditInv ==
  \A r \in Request :
    Edit(r) /\ Quiet(r) =>
      /\ pc[r] = "setSuspended" => ~Holds(subs, Imsi(r))
      /\ pc[r] = "unsetSuspended" \/ EditDone(r) =>
           \A d \in Matching(subs, Imsi(r)) : Carries(r, d)
      /\ EditDone(r) =>
           \/ HalfStuck(r)
           \/ HeldCarry(r) /\ \A d \in Matching(suspended, Imsi(r)) : Carries(r, d)

LEMMA NextUnset ==
  ASSUME TypeInv, History, UnsetInv, NEW p \in Request, Does(p)
  PROVE  UnsetInv'
<1> USE DEF TypeInv, TypeOK, At, Goto
<1>1. Local(p)
  BY DoesLocal
<1>2. ASSUME pc'[p] \in {"unsetSubs", "unsetSuspended"} PROVE body[p].ip = NoIp
  <2>1. CASE Accept(p)
    <3>1. body[p].op \in Reads \cup Changes
      BY StoreAssumption DEF Body
    <3>2. FirstCall(body[p]) \in {"unsetSubs", "unsetSuspended"} => body[p].ip = NoIp
      BY <3>1 DEF FirstCall, Reads, Changes
    <3> QED  BY <1>2, <2>1, <3>2 DEF Accept
  <2>2. CASE Abort(p)
    BY <1>2, <2>2 DEF Abort, UnsetInv
  <2>3. CASE MoveStep(p)
    BY <1>2, <2>3 DEF MoveStep, Flag, FindRaw, CountTarget, AfterMove, InsertRaw, InsertInto,
                      DeleteRaw, ClearFlags
  <2>4. CASE FieldStep(p)
    BY <1>2, <2>4 DEF FieldStep, SetSubs, SetSuspended, UnsetSubs, UnsetSuspended, UnsetInv
  <2>5. CASE ReplaceStep(p) \/ ReadStep(p)
    BY <1>2, <2>5 DEF ReplaceStep, PurgeSubs, PurgeSuspended, InsertNew, ReadStep, ReadSubs,
                      ReadSuspended
  <2>6. CASE AuditStep(p)
    BY <1>2, <2>6 DEF AuditStep, AppendAudit, AuditFails, MirrorSubs, MirrorSuspended
  <2> QED  BY <2>1, <2>2, <2>3, <2>4, <2>5, <2>6 DEF Does, Step
<1> QED  BY <1>1, <1>2 DEF UnsetInv, Local

\* No write of another request changes the value, unless it is an edit of the same
\* field or writes back a document that it has read.
LEMMA WritesCarry ==
  ASSUME TypeInv, NEW r \in Request, NEW p \in Request, NEW d \in Doc, Carries(r, d)
  PROVE  /\ Carries(r, Barred(d)) /\ Carries(r, Cleared(d)) /\ Carries(r, Mirrored(p, d))
         /\ Carries(r, [d EXCEPT !.status = Stamp(p)])
         /\ /\ body[p].op \in {"plan", "ip"} /\ body[r].op \in {"plan", "ip"}
            /\ body[p].op # body[r].op
            => Carries(r, Fields(p, d))
         /\ body[r].op = "plan" => Carries(r, WithoutIp(d))
BY DEF Carries, Doc, Barred, Cleared, Mirrored, Fields, WithoutIp

LEMMA FieldsCarry ==
  ASSUME TypeInv, NEW r \in Request, body[r].op \in {"plan", "ip"}, NEW d \in Doc
  PROVE  /\ Carries(r, Fields(r, d))
         /\ body[r].op = "ip" /\ body[r].ip = NoIp => Carries(r, WithoutIp(d))
         /\ Carries(r, d) => Fields(r, d) = d
BY DEF Carries, Doc, Fields, WithoutIp

LEMMA QuietStays ==
  ASSUME TypeInv, History, NEW p \in Request, Does(p), NEW r \in Request, pc[r] # "idle",
         Quiet(r)'
  PROVE  /\ Quiet(r)
         /\ Same(p, r) => body[p].op # body[r].op
         /\ Same(p, r) /\ Moving(p) => Ended(r)
<1>1. body' = body
  BY DoesLocal DEF Local
<1>2. NoMoveBeside(r)
  BY HalfStays DEF Quiet
<1>3. ASSUME NEW q \in Request, Same(q, r), body[q].op = body[r].op
      PROVE  Past(q, r) /\ p # q
  <2>1. Past(q, r)'
    BY <1>1, <1>3 DEF Quiet, Same, Imsi
  <2> QED  BY <2>1, <1>3, PastStays DEF Same
<1>4. ASSUME Same(p, r), Moving(p) PROVE Ended(r)
  <2>1. ~Overlap(p, r)'
    BY <1>1, <1>4 DEF Quiet, NoMoveBeside, Moving
  <2> QED  BY <1>4, <2>1, StepsAfter
<1> QED  BY <1>2, <1>3, <1>4 DEF Quiet

\* A step of another request p beside or after edit r: what it writes to the documents
\* of r's subscriber carries the value that was there.
LEMMA SubsCarry ==
  ASSUME NoReplace, Inv, EditInv, NEW p \in Request, NEW r \in Request, p # r, Does(p),
         Edit(r), Quiet(r)', pc[r] = "unsetSuspended" \/ EditDone(r),
         NEW e \in subs', e.imsi = Imsi(r)
  PROVE  Carries(r, e)
<1> USE DEF Inv, TypeInv, TypeOK
<1>1. pc[r] # "idle" /\ SubsWritten(p)
  BY DoesWritten DEF EditDone
<1>2. Quiet(r) /\ (Same(p, r) => body[p].op # body[r].op /\ (Moving(p) => Ended(r)))
  BY <1>1, QuietStays
<1>3. \A d \in Matching(subs, Imsi(r)) : Carries(r, d)
  BY <1>2 DEF EditInv
<1> SUFFICES ASSUME e \notin subs PROVE Carries(r, e)
  BY <1>3 DEF Matching
<1>4. WritesSubs(p, e)
  BY <1>1 DEF SubsWritten
<1>5. CASE pc[p] = "insert"
  <2>1. PICK d \in Doc : got[p] = {d} /\ d.imsi = Imsi(p) /\ d.id = Imsi(p)
    BY <1>5 DEF MoveInv, RawIsOwn
  <2>2. e = d /\ ~HasId(subs, e.id) /\ body[p].op = "resume"
    BY <1>4, <1>5, <2>1 DEF WritesSubs
  <2>3. Same(p, r) /\ Moving(p)
    BY <2>1, <2>2 DEF Same, Moving
  <2>4. EditDone(r)
    BY <1>2, <2>3 DEF Ended, Edit, Answer
  <2>5. ~HalfStuck(r)
    BY <2>1, <2>2 DEF HalfStuck, Same, MoveInv, DeleteHoldsBoth, Own, Holds, Matching, HasId
  <2>6. HeldCarry(r)
    BY <1>2, <2>4, <2>5 DEF EditInv
  <2>7. p \notin aborted
    BY DoesLocal DEF Local, Ended
  <2> QED  BY <1>5, <2>1, <2>2, <2>3, <2>6, <2>7 DEF HeldCarry
<1>6. CASE pc[p] # "insert"
  <2>1. pc[p] # "insertNew"
    BY NoAdds
  <2>2. PICK d \in Matching(subs, Imsi(p)) :
          \/ pc[p] = "flag" /\ e = Barred(d)
          \/ pc[p] = "clear" /\ e = Cleared(d)
          \/ pc[p] = "setSubs" /\ e = Fields(p, d)
          \/ pc[p] = "unsetSubs" /\ e = WithoutIp(d)
          \/ pc[p] = "mirrorSubs" /\ e = Mirrored(p, d)
    BY <1>4, <1>6, <2>1 DEF WritesSubs
  <2>3. d \in Doc /\ d.imsi = Imsi(p)
    BY DEF Matching
  <2>4. e.imsi = d.imsi
    BY <2>2, <2>3 DEF Doc, Barred, Cleared, Fields, WithoutIp, Mirrored
  <2>5. Same(p, r) /\ Carries(r, d)
    BY <1>3, <2>3, <2>4 DEF Same, Matching
  <2>6. /\ pc[p] = "setSubs" => body[p].op \in {"plan", "ip"}
        /\ pc[p] = "unsetSubs" => body[r].op = "plan"
    BY <1>2, <2>5 DEF Routed, Edit
  <2>7. /\ Carries(r, Barred(d)) /\ Carries(r, Cleared(d)) /\ Carries(r, Mirrored(p, d))
        /\ body[p].op \in {"plan", "ip"} /\ body[p].op # body[r].op =>
             Carries(r, Fields(p, d))
        /\ body[r].op = "plan" => Carries(r, WithoutIp(d))
    BY <2>3, <2>5, WritesCarry DEF Edit
  <2>8. body[p].op # body[r].op
    BY <1>2, <2>5
  <2> QED  BY <2>2, <2>6, <2>7, <2>8
<1> QED  BY <1>5, <1>6

LEMMA SuspendedCarry ==
  ASSUME NoReplace, Inv, EditInv, NEW p \in Request, NEW r \in Request, p # r, Does(p),
         Edit(r), Quiet(r)', EditDone(r), ~HalfStuck(r),
         NEW e \in suspended', e.imsi = Imsi(r)
  PROVE  Carries(r, e)
<1> USE DEF Inv, TypeInv, TypeOK
<1>1. pc[r] # "idle" /\ SuspendedWritten(p)
  BY DoesWritten DEF EditDone
<1>2. Quiet(r) /\ (Same(p, r) => body[p].op # body[r].op)
  BY <1>1, QuietStays
<1>3. HeldCarry(r) /\ \A d \in Matching(suspended, Imsi(r)) : Carries(r, d)
  BY <1>2 DEF EditInv
<1> SUFFICES ASSUME e \notin suspended PROVE Carries(r, e)
  BY <1>3 DEF Matching
<1>4. WritesSuspended(p, e)
  BY <1>1 DEF SuspendedWritten
<1>5. CASE pc[p] = "insert"
  <2>1. PICK d \in Doc : got[p] = {d} /\ d.imsi = Imsi(p)
    BY <1>5 DEF MoveInv, RawIsOwn
  <2>2. e = d
    BY <1>4, <1>5, <2>1 DEF WritesSuspended
  <2>3. Same(p, r) /\ p \notin aborted
    BY <2>1, <2>2, DoesLocal DEF Same, Local, Ended
  <2> QED  BY <1>3, <1>5, <2>1, <2>2, <2>3 DEF HeldCarry
<1>6. CASE pc[p] # "insert"
  <2>1. PICK d \in Matching(suspended, Imsi(p)) :
          \/ pc[p] = "setSuspended" /\ e = Fields(p, d)
          \/ pc[p] = "unsetSuspended" /\ e = WithoutIp(d)
          \/ pc[p] = "mirrorSuspended" /\ e = Mirrored(p, d)
    BY <1>4, <1>6 DEF WritesSuspended
  <2>2. d \in Doc /\ d.imsi = Imsi(p)
    BY DEF Matching
  <2>3. e.imsi = d.imsi
    BY <2>1, <2>2 DEF Doc, Fields, WithoutIp, Mirrored
  <2>4. Same(p, r) /\ Carries(r, d)
    BY <1>3, <2>2, <2>3 DEF Same, Matching
  <2>5. /\ pc[p] = "setSuspended" => body[p].op \in {"plan", "ip"}
        /\ pc[p] = "unsetSuspended" => body[r].op = "plan"
    BY <1>2, <2>4 DEF Routed, Edit
  <2>6. /\ Carries(r, Mirrored(p, d))
        /\ body[p].op \in {"plan", "ip"} /\ body[p].op # body[r].op =>
             Carries(r, Fields(p, d))
        /\ body[r].op = "plan" => Carries(r, WithoutIp(d))
    BY <2>2, <2>4, WritesCarry DEF Edit
  <2>7. body[p].op # body[r].op
    BY <1>2, <2>4
  <2> QED  BY <2>1, <2>5, <2>6, <2>7
<1> QED  BY <1>5, <1>6

\* And what it reads carries it.
LEMMA HeldCarryStays ==
  ASSUME NoReplace, Inv, EditInv, NEW p \in Request, NEW r \in Request, p # r, Does(p),
         Edit(r), Quiet(r)', EditDone(r), ~HalfStuck(r)
  PROVE  HeldCarry(r)'
<1> USE DEF Inv, TypeInv, TypeOK
<1>1. Local(p) /\ body' = body
  BY DoesLocal DEF Local
<1>2. Quiet(r)
  BY QuietStays DEF EditDone
<1>3. /\ HeldCarry(r)
      /\ \A d \in subs \cup suspended : d.imsi = Imsi(r) => Carries(r, d)
  BY <1>2 DEF EditInv, Matching
<1>4. \A d : Carries(r, d)' <=> Carries(r, d)
  BY <1>1 DEF Carries
<1> SUFFICES ASSUME NEW q \in Request, Same(q, r), pc'[q] = "insert", q \notin aborted',
                    NEW e \in got'[q]
             PROVE  Carries(r, e)
  BY <1>1, <1>4 DEF HeldCarry, Same, Imsi, Carries
<1>5. CASE q # p
  BY <1>1, <1>3, <1>5 DEF Local, HeldCarry
<1>6. CASE q = p /\ FindRaw(p)
  <2>1. PICK d \in Matching(From(p), Imsi(p)) :
          got' = [got EXCEPT ![p] = {[d EXCEPT !.status = Stamp(p)]}]
    BY <1>6 DEF FindRaw, Goto
  <2>2. d \in Doc /\ Carries(r, d)
    BY <1>3, <1>6 DEF From, Matching, Same
  <2> QED  BY <1>6, <2>1, <2>2, WritesCarry
<1>7. CASE q = p /\ ~FindRaw(p)
  <2>1. pc[p] = "insert" /\ got' = got
    BY <1>7, ReachesInsert
  <2>2. p \notin aborted
    BY <1>1 DEF Local, Ended
  <2> QED  BY <1>3, <1>7, <2>1, <2>2 DEF HeldCarry
<1> QED  BY <1>5, <1>6, <1>7

\* When the edit sets a collection, no move holds a document that lacks the value, and
\* one that has left documents in both collections is dead.
LEMMA NoneLive ==
  ASSUME NoReplace, Inv, NEW r \in Request, Does(r), Edit(r), pc[r] # "idle", Quiet(r)'
  PROVE  /\ HeldCarry(r)'
         /\ Holds(subs, Imsi(r)) /\ Holds(suspended, Imsi(r)) => HalfStuck(r)'
<1> USE DEF Inv, TypeInv, TypeOK
<1>1. Local(r) /\ body' = body
  BY DoesLocal DEF Local
<1>2. NoMoveBeside(r) /\ ~Ended(r)
  BY <1>1, QuietStays DEF Quiet, Local
<1>3. ASSUME NEW q \in Request, Same(q, r), pc[q] \in {"insert", "delete"}
      PROVE  q \in aborted /\ q \in aborted' /\ pc'[q] = pc[q]
  <2>1. Moving(q)
    BY <1>3 DEF Routed, Moving
  <2>2. Ended(q)
    BY <1>2, <1>3, <2>1, OverBeside DEF Edit, NoMoveBeside
  <2> QED  BY <1>1, <1>3, <2>2 DEF Ended, Answer, Local, Same
<1>4. HeldCarry(r)'
  <2> SUFFICES ASSUME NEW q \in Request, Same(q, r)', pc'[q] = "insert", q \notin aborted'
               PROVE  FALSE
    BY DEF HeldCarry
  <2>1. Same(q, r) /\ pc[q] = "insert"
    BY <1>1 DEF Local, Same, Imsi
  <2> QED  BY <1>3, <2>1
<1>5. ASSUME Holds(subs, Imsi(r)), Holds(suspended, Imsi(r)) PROVE HalfStuck(r)'
  <2>1. Imsi(r) \in IMSI
    BY DEF Imsi, Body
  <2>2. PICK q \in Request : pc[q] = "delete" /\ Imsi(q) = Imsi(r)
    BY <1>5, <2>1 DEF MoveInv, BothAtDelete
  <2>3. Same(q, r)
    BY <2>2 DEF Same, Edit, Routed
  <2>4. Same(q, r)'
    BY <1>1, <2>3 DEF Same, Imsi
  <2> QED  BY <1>3, <2>2, <2>3, <2>4 DEF HalfStuck
<1> QED  BY <1>4, <1>5

LEMMA StuckStays ==
  ASSUME TypeInv, History, NEW p \in Request, Does(p), NEW r \in Request, HalfStuck(r)
  PROVE  HalfStuck(r)'
<1>1. Local(p)
  BY DoesLocal
<1>2. PICK q \in aborted : Same(q, r) /\ pc[q] = "delete"
  BY DEF HalfStuck
<1>3. q \in Request /\ q # p
  BY <1>1, <1>2 DEF Local, Ended, TypeInv, TypeOK
<1> QED  BY <1>1, <1>2, <1>3 DEF Local, HalfStuck, Same, Imsi

\* The edit's own step.
LEMMA EditOwnStep ==
  ASSUME NoReplace, Inv, EditInv, UnsetInv, NEW r \in Request, Does(r), Edit(r)', Quiet(r)'
  PROVE  /\ pc'[r] = "setSuspended" => ~Holds(subs, Imsi(r))'
         /\ pc'[r] = "unsetSuspended" \/ EditDone(r)' =>
              \A d \in Matching(subs, Imsi(r))' : Carries(r, d)'
         /\ EditDone(r)' =>
              \/ HalfStuck(r)'
              \/ HeldCarry(r)' /\ \A d \in Matching(suspended, Imsi(r))' : Carries(r, d)'
<1> USE DEF Inv, TypeInv, TypeOK
<1>1. Local(r) /\ body' = body
  BY DoesLocal DEF Local
<1>2. Imsi(r)' = Imsi(r) /\ \A d : Carries(r, d)' <=> Carries(r, d)
  BY <1>1 DEF Carries, Imsi
<1>3. Edit(r) /\ r \notin aborted'
  BY <1>1 DEF Edit, Local, Ended
<1>4. body[r].op \in {"plan", "ip"}
  BY <1>3 DEF Edit
<1>5. \A d \in Doc : /\ Fields(r, d).imsi = d.imsi /\ Carries(r, Fields(r, d))
                     /\ body[r].op = "ip" /\ body[r].ip = NoIp => Carries(r, WithoutIp(d))
                     /\ WithoutIp(d).imsi = d.imsi
                     /\ Mirrored(r, d).imsi = d.imsi
                     /\ Carries(r, d) => Carries(r, Mirrored(r, d))
  <2>1. \A d \in Doc : Carries(r, d) => Carries(r, Mirrored(r, d))
    BY WritesCarry
  <2>2. \A d \in Doc : /\ Fields(r, d).imsi = d.imsi /\ WithoutIp(d).imsi = d.imsi
                       /\ Mirrored(r, d).imsi = d.imsi
    BY DEF Fields, WithoutIp, Mirrored, Doc
  <2> QED  BY <1>4, <2>1, <2>2, FieldsCarry
<1>6. OneEach(subs) /\ OneEach(suspended)
  BY DEF MoveInv
<1>7. pc[r] # "idle" => /\ Quiet(r) /\ HeldCarry(r)'
                        /\ Holds(subs, Imsi(r)) /\ Holds(suspended, Imsi(r)) => HalfStuck(r)'
  BY <1>3, NoneLive, QuietStays
<1> HIDE DEF Inv, TypeInv
<1> USE DEF At, Goto
<1>8. CASE Accept(r)
  <2>1. FirstCall(body[r]) \in {"setSubs", "unsetSubs"}
    BY <1>4 DEF FirstCall, Reads
  <2>2. pc'[r] \in {"setSubs", "unsetSubs"}
    BY <1>8, <2>1 DEF Accept, TypeInv, Inv
  <2> QED  BY <2>2 DEF EditDone
<1>9. CASE SetSubs(r)
  <2>1. pc'[r] = IF Holds(subs, Imsi(r)) THEN "audit" ELSE "setSuspended"
    BY <1>9 DEF SetSubs, Inv, TypeInv
  <2>2. ~Holds(subs, Imsi(r)) => subs' = subs
    BY <1>9 DEF SetSubs, UpdateOne
  <2>3. \A d \in Matching(subs, Imsi(r))' : Carries(r, d)
    BY <1>2, <1>5, <1>6, <1>9 DEF SetSubs, UpdateOne, Matching, OneEach, Holds, Inv, TypeInv
  <2>4. Holds(subs, Imsi(r)) =>
          HalfStuck(r)' \/ \A d \in Matching(suspended, Imsi(r))' : Carries(r, d)
    BY <1>2, <1>7, <1>9 DEF SetSubs, Holds, Matching
  <2> QED  BY <1>2, <1>7, <1>9, <2>1, <2>2, <2>3, <2>4 DEF EditDone, Holds, Matching, SetSubs
<1>10. CASE SetSuspended(r)
  <2>1. subs' = subs /\ ~Holds(subs, Imsi(r))
    BY <1>3, <1>7, <1>10 DEF SetSuspended, EditInv
  <2>2. \A d \in Matching(suspended, Imsi(r))' : Carries(r, d)
    BY <1>2, <1>5, <1>6, <1>10
       DEF SetSuspended, UpdateOne, Matching, OneEach, Holds, Inv, TypeInv
  <2> QED  BY <1>2, <1>7, <1>10, <2>1, <2>2 DEF SetSuspended, Holds, Matching
<1>11. CASE UnsetSubs(r)
  <2>1. pc'[r] = "unsetSuspended"
    BY <1>11 DEF UnsetSubs, Inv, TypeInv
  <2>2. body[r].op = "ip" /\ body[r].ip = NoIp
    BY <1>11 DEF UnsetSubs, UnsetInv, Inv, TypeInv, Routed
  <2>3. \A d \in Matching(subs, Imsi(r))' : Carries(r, d)
    BY <1>2, <1>5, <1>6, <1>11, <2>2
       DEF UnsetSubs, UpdateOne, Matching, OneEach, Holds, Inv, TypeInv
  <2> QED  BY <1>2, <2>1, <2>3 DEF EditDone
<1>12. CASE UnsetSuspended(r)
  <2>1. subs' = subs /\ \A d \in Matching(subs, Imsi(r)) : Carries(r, d)
    BY <1>3, <1>7, <1>12 DEF UnsetSuspended, EditInv
  <2>2. body[r].op = "ip" /\ body[r].ip = NoIp
    BY <1>12 DEF UnsetSuspended, UnsetInv, Inv, TypeInv, Routed
  <2>3. \A d \in Matching(suspended, Imsi(r))' : Carries(r, d)
    BY <1>2, <1>5, <1>6, <1>12, <2>2
       DEF UnsetSuspended, UpdateOne, Matching, OneEach, Holds, Inv, TypeInv
  <2>4. pc'[r] = "audit"
    BY <1>12 DEF UnsetSuspended, Inv, TypeInv
  <2> QED  BY <1>2, <1>7, <1>12, <2>1, <2>3, <2>4 DEF UnsetSuspended, Matching
<1>13. CASE AuditStep(r)
  <2>1. EditDone(r)
    BY <1>13 DEF AuditStep, AppendAudit, AuditFails, MirrorSubs, MirrorSuspended, EditDone
  <2>2. /\ \A d \in Matching(subs, Imsi(r)) : Carries(r, d)
        /\ HalfStuck(r) \/ \A d \in Matching(suspended, Imsi(r)) : Carries(r, d)
    BY <1>3, <1>7, <1>13, <2>1
       DEF EditInv, AuditStep, AppendAudit, AuditFails, MirrorSubs, MirrorSuspended
  <2>3. HalfStuck(r) => HalfStuck(r)'
    BY StuckStays DEF Inv
  <2>4. \A d \in Matching(subs, Imsi(r))' : Carries(r, d)
    BY <1>2, <1>5, <1>13, <2>2
       DEF AuditStep, AppendAudit, AuditFails, MirrorSubs, MirrorSuspended, UpdateOne,
           Matching, collections, Inv, TypeInv
  <2>5. HalfStuck(r) \/ \A d \in Matching(suspended, Imsi(r))' : Carries(r, d)
    BY <1>2, <1>5, <1>13, <2>2
       DEF AuditStep, AppendAudit, AuditFails, MirrorSubs, MirrorSuspended, UpdateOne,
           Matching, collections, Inv, TypeInv
  <2>6. pc'[r] \in {"mirrorSubs", "mirrorSuspended", "ok"}
    BY <1>13
       DEF AuditStep, AppendAudit, AuditFails, MirrorSubs, MirrorSuspended, Inv, TypeInv
  <2> QED  BY <1>2, <1>7, <1>13, <2>3, <2>4, <2>5, <2>6
           DEF AuditStep, AppendAudit, AuditFails, MirrorSubs, MirrorSuspended
<1>14. CASE MoveStep(r) \/ ReplaceStep(r) \/ ReadStep(r)
  BY <1>4, <1>14
     DEF MoveStep, Flag, FindRaw, CountTarget, InsertRaw, DeleteRaw, ClearFlags,
         ReplaceStep, PurgeSubs, PurgeSuspended, InsertNew, ReadStep, ReadSubs,
         ReadSuspended, Inv, TypeInv, Routed, Reads
<1>15. CASE Abort(r)
  BY <1>3, <1>15 DEF Abort
<1> QED  BY <1>8, <1>9, <1>10, <1>11, <1>12, <1>13, <1>14, <1>15 DEF Does, Step, FieldStep

LEMMA NextEdit ==
  ASSUME NoReplace, Inv, EditInv, UnsetInv, NEW p \in Request, Does(p)
  PROVE  EditInv'
<1> SUFFICES ASSUME NEW r \in Request, Edit(r)', Quiet(r)'
             PROVE  /\ pc'[r] = "setSuspended" => ~Holds(subs, Imsi(r))'
                    /\ pc'[r] = "unsetSuspended" \/ EditDone(r)' =>
                         \A d \in Matching(subs, Imsi(r))' : Carries(r, d)'
                    /\ EditDone(r)' =>
                         \/ HalfStuck(r)'
                         \/ /\ HeldCarry(r)'
                            /\ \A d \in Matching(suspended, Imsi(r))' : Carries(r, d)'
  BY DEF EditInv
<1>1. CASE p = r
  BY <1>1, EditOwnStep
<1>2. CASE p # r
  <2>1. Local(p) /\ body' = body
    BY DoesLocal DEF Local, Inv
  <2>2. Imsi(r)' = Imsi(r) /\ \A d : Carries(r, d)' <=> Carries(r, d)
    BY <2>1 DEF Carries, Imsi
  <2>3. pc'[r] = pc[r] /\ Edit(r)
    BY <1>2, <2>1 DEF Local, Edit
  <2>4. ASSUME pc'[r] = "setSuspended" PROVE ~Holds(subs, Imsi(r))'
    <3>1. Quiet(r)
      BY <2>3, <2>4, QuietStays DEF Inv
    <3>2. ~Holds(subs, Imsi(r))
      BY <2>3, <2>4, <3>1 DEF EditInv
    <3> SUFFICES ASSUME Holds(subs, Imsi(r))' PROVE FALSE
      OBVIOUS
    <3>3. PICK i : i = Imsi(r)
      OBVIOUS
    <3>4. Holds(subs, i)' /\ ~Holds(subs, i)
      BY <2>2, <3>2, <3>3 DEF Holds, Matching
    <3>5. /\ Imsi(p) = i
          /\ (pc[p] = "insert" /\ body[p].op = "resume") \/ pc[p] = "insertNew"
      BY <3>4, HoldsSubs DEF Inv
    <3>6. Same(p, r) /\ Moving(p)
      BY <1>2, <3>3, <3>5, NoAdds DEF Same, Moving, Inv
    <3>7. Ended(r)
      BY <2>3, <2>4, <3>6, QuietStays DEF Inv
    <3> QED  BY <2>3, <2>4, <3>7 DEF Ended, Edit, Answer
  <2>5. ASSUME pc'[r] = "unsetSuspended" \/ EditDone(r)'
        PROVE  \A d \in Matching(subs, Imsi(r))' : Carries(r, d)'
    BY <1>2, <2>2, <2>3, <2>5, SubsCarry DEF Matching, EditDone
  <2>6. ASSUME EditDone(r)'
        PROVE  \/ HalfStuck(r)'
               \/ HeldCarry(r)' /\ \A d \in Matching(suspended, Imsi(r))' : Carries(r, d)'
    <3>1. EditDone(r)
      BY <2>3, <2>6 DEF EditDone
    <3>2. CASE HalfStuck(r)
      BY <3>2, StuckStays DEF Inv
    <3>3. CASE ~HalfStuck(r)
      BY <1>2, <2>2, <2>3, <3>1, <3>3, SuspendedCarry, HeldCarryStays DEF Matching
    <3> QED  BY <3>2, <3>3
  <2> QED  BY <2>4, <2>5, <2>6
<1> QED  BY <1>1, <1>2

LEMMA EditHolds == NoReplace => (Spec => [](UnsetInv /\ EditInv))
<1> SUFFICES ASSUME NoReplace PROVE Spec => [](UnsetInv /\ EditInv)
  OBVIOUS
<1>1. Init => UnsetInv /\ EditInv
  BY DEF Init, UnsetInv, EditInv, EditDone
<1>2. UNCHANGED vars /\ EditInv /\ UnsetInv => EditInv' /\ UnsetInv'
  BY DEF vars, EditInv, UnsetInv, Edit, Quiet, NoMoveBeside, Moving, EditDone, HalfStuck,
         HeldCarry, Carries, Past, EndedBefore, Overlap, NotYet, Same, Holds, Matching, Imsi
<1>3. Inv /\ (UnsetInv /\ EditInv) /\ [Next]_vars => (UnsetInv /\ EditInv)'
  BY <1>2, NextEdit, NextUnset DEF Next, Does, Inv
<1> QED  BY <1>1, <1>3, InvHolds, PTL DEF Spec

\* An acknowledged plan or address is what a Get shows from then on, whatever moves
\* follow it and wherever one has died.
THEOREM EditSurvives == NoReplace => (Spec => []EditSurvivesMoves)
<1> SUFFICES ASSUME NoReplace PROVE Spec => []EditSurvivesMoves
  OBVIOUS
<1>1. ASSUME Inv, EditInv PROVE EditSurvivesMoves
  <2> SUFFICES ASSUME NEW r \in Request, pc[r] = "ok", body[r].op \in {"plan", "ip"},
                      \A q \in Request :
                        /\ Same(q, r) /\ body[q].op = body[r].op =>
                             EndedBefore(q, r) \/ pc[q] = "idle"
                        /\ body[q].op \in {"suspend", "resume"} => ~Overlap(q, r)
               PROVE  \A d \in Shown(Imsi(r)) : Fields(r, d) = d
    BY DEF EditSurvivesMoves
  <2>1. Edit(r) /\ EditDone(r)
    BY <1>1 DEF Edit, EditDone, Inv, History, Call
  <2>2. Quiet(r)
    BY DEF Quiet, NoMoveBeside, Moving, Past
  <2>3. HalfStuck(r) => Holds(subs, Imsi(r))
    BY <1>1 DEF HalfStuck, Inv, MoveInv, DeleteHoldsBoth, Same, TypeInv, TypeOK
  <2>4. \A d \in Shown(Imsi(r)) : Carries(r, d)
    BY <1>1, <2>1, <2>2, <2>3 DEF EditInv, Shown
  <2>5. \A d \in Shown(Imsi(r)) : d \in Doc
    BY <1>1 DEF Shown, Matching, Inv, TypeInv, TypeOK
  <2> QED  BY <1>1, <2>4, <2>5, FieldsCarry DEF Inv
<1> QED  BY <1>1, EditHolds, InvHolds, PTL
==============================================================================
