----------------------------- MODULE ReplaceProofs -----------------------------
(***************************************************************************)
(* What adding and removing subscribers leaves in the two collections: for  *)
(* any sets of subscribers, requests, plans and addresses, any operations,  *)
(* whatever races and wherever requests die.                                *)
(***************************************************************************)
EXTENDS SubscriberStoreProofs

Done(r) == pc[r] \in {"audit", "mirrorSubs", "mirrorSuspended", "ok"}

\* Once a request has made its change it only writes the audit entry, and the change
\* of an add is made by its insert.
LEMMA DoneStays ==
  ASSUME TypeInv, NEW p \in Request, Does(p)
  PROVE  /\ Done(p) => Done(p)'
         /\ body[p].op = "add" /\ Done(p)' => Done(p) \/ InsertNew(p)
         /\ body[p].op = "remove" /\ Done(p)' => Done(p) \/ PurgeSuspended(p)
         /\ pc'[p] = "purgeSuspended" =>
              PurgeSubs(p) \/ (pc[p] = "purgeSuspended" /\ Abort(p))
         /\ pc'[p] = "insertNew" =>
              PurgeSuspended(p) \/ (pc[p] = "insertNew" /\ Abort(p))
<1> USE DEF TypeInv, TypeOK, At, Goto
<1>1. CASE Accept(p)
  <2>1. body[p].op \in Reads \cup Changes
    BY StoreAssumption DEF Body
  <2>2. FirstCall(body[p]) \notin {"audit", "mirrorSubs", "mirrorSuspended", "ok",
                                   "purgeSuspended", "insertNew"}
    BY <2>1 DEF FirstCall, Reads, Changes
  <2> QED  BY <1>1, <2>2 DEF Accept, Done
<1>2. CASE Abort(p)
  BY <1>2 DEF Abort, Done
<1>3. CASE MoveStep(p)
  BY <1>3 DEF MoveStep, Flag, FindRaw, CountTarget, AfterMove, InsertRaw, InsertInto,
              DeleteRaw, ClearFlags, Done, Routed
<1>4. CASE FieldStep(p)
  BY <1>4 DEF FieldStep, SetSubs, SetSuspended, UnsetSubs, UnsetSuspended, Done, Routed
<1>5. CASE ReplaceStep(p)
  BY <1>5 DEF ReplaceStep, PurgeSubs, PurgeSuspended, InsertNew, Done, Routed
<1>6. CASE ReadStep(p)
  BY <1>6 DEF ReadStep, ReadSubs, ReadSuspended, Done, Routed, Reads
<1>7. CASE AuditStep(p)
  BY <1>7 DEF AuditStep, AppendAudit, AuditFails, MirrorSubs, MirrorSuspended, Done
<1> QED  BY <1>1, <1>2, <1>3, <1>4, <1>5, <1>6, <1>7 DEF Does, Step

-----------------------------------------------------------------------------
(* Keys.  The `_id` of a document names the add that gave the keys out, or the    *)
(* provisioning before the start, and within a collection it is unique.           *)

\* Document d is stored, or a move that can still insert it holds it in memory.
AtHand(d) ==
  \/ d \in subs \/ d \in suspended
  \/ \E q \in Request : pc[q] = "insert" /\ q \notin aborted /\ d \in got[q]

IdUnique(coll) == \A d, e \in coll : d.id = e.id => d = e

\* Nobody has a document of an add that has not inserted it.
IdsGivenOut ==
  \A d : AtHand(d) /\ d.id \in Request => body[d.id].op = "add" /\ Done(d.id)

KeysInv == IdUnique(subs) /\ IdUnique(suspended) /\ IdsGivenOut

\* A step makes no document with new keys but an add's insert.
LEMMA AtHandFrom ==
  ASSUME TypeInv, History, NEW p \in Request, Does(p), NEW e, AtHand(e)'
  PROVE  \/ \E d : AtHand(d) /\ d.id = e.id /\ d.imsi = e.imsi
         \/ InsertNew(p) /\ e = NewDoc(p, Imsi(p))
<1> USE DEF TypeInv, TypeOK
<1>1. Local(p) /\ SubsWritten(p) /\ SuspendedWritten(p)
  BY DoesLocal, DoesWritten
<1>2. \A d \in Doc : /\ Barred(d).id = d.id /\ Barred(d).imsi = d.imsi
                     /\ Cleared(d).id = d.id /\ Cleared(d).imsi = d.imsi
                     /\ Fields(p, d).id = d.id /\ Fields(p, d).imsi = d.imsi
                     /\ WithoutIp(d).id = d.id /\ WithoutIp(d).imsi = d.imsi
                     /\ Mirrored(p, d).id = d.id /\ Mirrored(p, d).imsi = d.imsi
  BY DEF Doc, Barred, Cleared, Fields, WithoutIp, Mirrored
<1>3. CASE e \in subs'
  <2>1. e \in subs \/ WritesSubs(p, e)
    BY <1>1, <1>3 DEF SubsWritten
  <2>2. CASE pc[p] = "insertNew" /\ e = NewDoc(p, Imsi(p)) /\ e \notin subs
    <3>1. InsertNew(p)
      BY <1>3, <2>2 DEF Does, Accept, Abort, Step, MoveStep, Flag, FindRaw, CountTarget,
             InsertRaw, DeleteRaw, ClearFlags, FieldStep, SetSubs, SetSuspended, UnsetSubs,
             UnsetSuspended, ReplaceStep, PurgeSubs, PurgeSuspended, ReadStep, ReadSubs,
             ReadSuspended, AuditStep, AppendAudit, AuditFails, MirrorSubs, MirrorSuspended,
             At, collections
    <3> QED  BY <2>2, <3>1
  <2>3. CASE pc[p] = "insert" /\ e \in got[p]
    BY <1>1, <2>3 DEF AtHand, Local, Ended
  <2> QED  BY <1>2, <2>1, <2>2, <2>3 DEF WritesSubs, Matching, AtHand
<1>4. CASE e \in suspended'
  <2>1. e \in suspended \/ WritesSuspended(p, e)
    BY <1>1, <1>4 DEF SuspendedWritten
  <2>2. CASE pc[p] = "insert" /\ e \in got[p]
    BY <1>1, <2>2 DEF AtHand, Local, Ended
  <2> QED  BY <1>2, <2>1, <2>2 DEF WritesSuspended, Matching, AtHand
<1>5. ASSUME NEW q \in Request, pc'[q] = "insert", q \notin aborted', e \in got'[q]
      PROVE  \E d : AtHand(d) /\ d.id = e.id /\ d.imsi = e.imsi
  <2>1. CASE q # p
    BY <1>1, <1>5, <2>1 DEF Local, AtHand
  <2>2. CASE q = p /\ FindRaw(p)
    <3>1. PICK d \in Matching(From(p), Imsi(p)) :
            got' = [got EXCEPT ![p] = {[d EXCEPT !.status = Stamp(p)]}]
      BY <1>5, <2>2 DEF FindRaw, Goto
    <3>2. d \in Doc /\ AtHand(d)
      BY DEF From, Matching, AtHand
    <3>3. e = [d EXCEPT !.status = Stamp(p)]
      BY <1>5, <2>2, <3>1
    <3>4. e.id = d.id /\ e.imsi = d.imsi
      BY <3>2, <3>3 DEF Doc
    <3> QED  BY <3>2, <3>4
  <2>3. CASE q = p /\ ~FindRaw(p)
    <3>1. pc[p] = "insert" /\ got' = got
      BY <1>5, <2>3, ReachesInsert
    <3>2. p \notin aborted
      BY <1>1 DEF Local, Ended
    <3> QED  BY <1>5, <2>3, <3>1, <3>2 DEF AtHand
  <2> QED  BY <2>1, <2>2, <2>3
<1> QED  BY <1>3, <1>4, <1>5 DEF AtHand

\* What a collection is after a step: edited in place, pruned, or with one document
\* more whose `_id` it had not.
Stored(coll, c) ==
  \/ Edited(coll, c)
  \/ c \subseteq coll
  \/ \E e : c = coll \cup {e} /\ ~HasId(coll, e.id)

LEMMA StoredUnique ==
  ASSUME NEW coll, NEW c, IdUnique(coll), Stored(coll, c)
  PROVE  IdUnique(c)
BY DEF IdUnique, Stored, Edited, HasId

LEMMA DoesStored ==
  ASSUME TypeInv, History, IdsGivenOut, NEW p \in Request, Does(p)
  PROVE  Stored(subs, subs') /\ Stored(suspended, suspended')
<1> USE DEF TypeInv
<1>1. CASE Accept(p) \/ Abort(p) \/ ReadStep(p)
  BY <1>1 DEF Accept, Abort, ReadStep, ReadSubs, ReadSuspended, collections, Stored
<1>2. CASE MoveStep(p)
  <2>1. CASE Flag(p)
    BY <2>1, FlagEdits DEF Flag, Stored
  <2>2. CASE FindRaw(p) \/ CountTarget(p)
    BY <2>2 DEF FindRaw, CountTarget, collections, Stored
  <2>3. CASE InsertRaw(p)
    <3>1. PICK e \in Doc : got[p] = {e}
      BY <2>3 DEF InsertRaw, At, History
    <3> QED  BY <2>3, <3>1 DEF InsertRaw, InsertInto, Stored
  <2>4. CASE DeleteRaw(p)
    BY <2>4 DEF DeleteRaw, DeleteOne, Stored
  <2>5. CASE ClearFlags(p)
    BY <2>5, ClearEdits DEF ClearFlags, Stored
  <2> QED  BY <1>2, <2>1, <2>2, <2>3, <2>4, <2>5 DEF MoveStep
<1>3. CASE FieldStep(p)
  BY <1>3, SetEdits, UnsetEdits
     DEF FieldStep, SetSubs, SetSuspended, UnsetSubs, UnsetSuspended, Stored
<1>4. CASE PurgeSubs(p) \/ PurgeSuspended(p)
  BY <1>4 DEF PurgeSubs, PurgeSuspended, DeleteOne, Stored
<1>5. CASE InsertNew(p)
  <2>1. ~HasId(subs, p)
    BY <1>5 DEF InsertNew, At, HasId, IdsGivenOut, AtHand, Done
  <2>2. NewDoc(p, Imsi(p)).id = p
    BY DEF NewDoc
  <2> QED  BY <1>5, <2>1, <2>2 DEF InsertNew, Stored
<1>6. CASE AuditStep(p)
  BY <1>6, MirrorEdits
     DEF AuditStep, AppendAudit, AuditFails, MirrorSubs, MirrorSuspended, collections, Stored
<1> QED  BY <1>1, <1>2, <1>3, <1>4, <1>5, <1>6 DEF Does, Step, ReplaceStep

LEMMA NextKeys ==
  ASSUME TypeInv, History, KeysInv, NEW p \in Request, Does(p)
  PROVE  KeysInv'
<1>1. Local(p)
  BY DoesLocal
<1>2. IdUnique(subs') /\ IdUnique(suspended')
  BY DoesStored, StoredUnique DEF KeysInv
<1>3. ASSUME NEW e, AtHand(e)', e.id \in Request
      PROVE  body'[e.id].op = "add" /\ Done(e.id)'
  <2>1. CASE \E d : AtHand(d) /\ d.id = e.id /\ d.imsi = e.imsi
    BY <1>1, <1>3, <2>1, DoneStays DEF KeysInv, IdsGivenOut, Local, Done
  <2>2. CASE InsertNew(p) /\ e = NewDoc(p, Imsi(p))
    BY <1>1, <2>2 DEF InsertNew, NewDoc, At, Goto, Done, Local, TypeInv, TypeOK, Routed
  <2> QED  BY <1>3, <2>1, <2>2, AtHandFrom
<1>4. IdsGivenOut'
  BY <1>3 DEF IdsGivenOut
<1> QED  BY <1>2, <1>4 DEF KeysInv, IdUnique

LEMMA InitKeys == Init => KeysInv
<1> SUFFICES ASSUME Init PROVE KeysInv
  OBVIOUS
<1>1. PICK stashed \in SUBSET Seeded :
        /\ subs = {NewDoc(i, i) : i \in Seeded \ stashed}
        /\ suspended = {Barred(NewDoc(i, i)) : i \in stashed}
  BY DEF Init
<1>2. \A i : NewDoc(i, i).id = i /\ Barred(NewDoc(i, i)).id = i
  BY DEF NewDoc, Barred
<1>3. IdUnique(subs) /\ IdUnique(suspended)
  BY <1>1, <1>2 DEF IdUnique
<1>4. \A d : AtHand(d) => d.id \in IMSI
  BY <1>1, <1>2, StoreAssumption DEF AtHand, Init
<1>5. IdsGivenOut
  BY <1>4, StoreAssumption DEF IdsGivenOut
<1> QED  BY <1>3, <1>5 DEF KeysInv

-----------------------------------------------------------------------------
(* Twins.  While the adds of a subscriber run alone all his documents have the     *)
(* same keys, because an add inserts only when nothing of the old ones is left:     *)
(* not in the collections, which it has purged, and not with a move, which would    *)
(* be running beside it.                                                           *)

OneKey ==
  \A d, e : AtHand(d) /\ AtHand(e) /\ d.imsi = e.imsi /\ AddsAlone(d.imsi) => d.id = e.id

\* No add or move of r's subscriber runs beside r, nor beside any add of him.
Alone(r) ==
  /\ AddsAlone(Imsi(r))
  /\ \A q \in Request :
       Same(q, r) /\ body[q].op \in {"add", "suspend", "resume"} => ~Overlap(q, r)

NoAddAfter(r) == \A q \in Request : Same(q, r) /\ body[q].op = "add" => Past(q, r)

\* No document of subscriber i is left.
NoneLeft(i) == \A d : AtHand(d) => d.imsi # i

PurgeInv ==
  \A r \in Request :
    r \notin aborted /\ Alone(r) =>
      /\ pc[r] = "purgeSuspended" => ~Holds(subs, Imsi(r))
      /\ pc[r] = "insertNew" => ~Holds(subs, Imsi(r)) /\ ~Holds(suspended, Imsi(r))
      /\ body[r].op = "remove" /\ Done(r) /\ NoAddAfter(r) => NoneLeft(Imsi(r))

LEMMA AloneStays ==
  ASSUME TypeInv, History, NEW p \in Request, Does(p)
  PROVE  /\ \A i : AddsAlone(i)' => AddsAlone(i)
         /\ \A r \in Request : Alone(r)' => Alone(r)
<1>1. body' = body /\ \A q \in Request : Imsi(q)' = Imsi(q)
  BY DoesLocal DEF Local, Imsi
<1>2. \A q, r \in Request : Overlap(q, r) => Overlap(q, r)'
  BY OverlapStays
<1>3. ASSUME NEW i, AddsAlone(i)' PROVE AddsAlone(i)
  BY <1>1, <1>2, <1>3 DEF AddsAlone
<1>4. ASSUME NEW r \in Request, Alone(r)' PROVE Alone(r)
  <2>1. PICK i : i = Imsi(r)
    OBVIOUS
  <2>2. AddsAlone(i)'
    BY <1>1, <1>4, <2>1 DEF Alone, AddsAlone
  <2> QED  BY <1>1, <1>2, <1>3, <1>4, <2>1, <2>2 DEF Alone, Same
<1> QED  BY <1>3, <1>4

\* While nothing runs beside r, no move can still insert a document of r's subscriber.
LEMMA NoneHeld ==
  ASSUME TypeInv, History, NEW r \in Request, Alone(r), pc[r] # "idle", ~Ended(r),
         pc[r] # "insert",
         NEW q \in Request, pc[q] = "insert", q \notin aborted, NEW d \in got[q]
  PROVE  d.imsi # Imsi(r)
<1> SUFFICES ASSUME d.imsi = Imsi(r) PROVE FALSE
  OBVIOUS
<1>1. Same(q, r)
  BY DEF History, Same
<1>2. ~Overlap(q, r)
  BY <1>1 DEF Alone, TypeInv, Routed
<1> QED  BY <1>1, <1>2, OverBeside DEF Ended, Answer

LEMMA NextOneKey ==
  ASSUME TypeInv, History, KeysInv, OneKey, PurgeInv, NEW p \in Request, Does(p)
  PROVE  OneKey'
<1> SUFFICES ASSUME NEW d, NEW e, AtHand(d)', AtHand(e)', d.imsi = e.imsi,
                    AddsAlone(d.imsi)'
             PROVE  d.id = e.id
  BY DEF OneKey
<1>1. AddsAlone(d.imsi)
  <2>1. PICK i : i = d.imsi
    OBVIOUS
  <2> QED  BY <2>1, AloneStays
<1>2. ASSUME InsertNew(p), Imsi(p) = d.imsi, NEW f, AtHand(f), f.imsi = d.imsi
      PROVE  FALSE
  <2>1. Alone(p)
    BY <1>1, <1>2 DEF Alone, AddsAlone, Same, InsertNew, At, TypeInv, Routed
  <2>2. p \notin aborted /\ pc[p] = "insertNew"
    BY <1>2 DEF InsertNew, At
  <2>3. ~Holds(subs, Imsi(p)) /\ ~Holds(suspended, Imsi(p))
    BY <2>1, <2>2 DEF PurgeInv
  <2>4. PICK q \in Request : pc[q] = "insert" /\ q \notin aborted /\ f \in got[q]
    BY <1>2, <2>3 DEF AtHand, Holds, Matching
  <2> QED  BY <1>2, <2>1, <2>2, <2>4, NoneHeld DEF Ended, Answer
<1>3. CASE InsertNew(p) /\ Imsi(p) = d.imsi
  <2>1. NewDoc(p, Imsi(p)).id = p
    BY DEF NewDoc
  <2> QED  BY <1>2, <1>3, <2>1, AtHandFrom
<1>4. CASE ~(InsertNew(p) /\ Imsi(p) = d.imsi)
  <2>1. NewDoc(p, Imsi(p)).imsi = Imsi(p)
    BY DEF NewDoc
  <2>2. PICK f : AtHand(f) /\ f.id = d.id /\ f.imsi = d.imsi
    BY <1>4, <2>1, AtHandFrom
  <2>3. PICK g : AtHand(g) /\ g.id = e.id /\ g.imsi = e.imsi
    BY <1>4, <2>1, AtHandFrom
  <2> QED  BY <1>1, <2>2, <2>3 DEF OneKey
<1> QED  BY <1>3, <1>4

\* DeleteOne takes the only document there is.
LEMMA DeletesAll ==
  ASSUME NEW coll, NEW i, \A d, e \in coll : d.imsi = i /\ e.imsi = i => d = e,
         NEW c \in DeleteOne(coll, i)
  PROVE  ~Holds(c, i)
BY DEF DeleteOne, Holds, Matching

LEMMA NextPurge ==
  ASSUME TypeInv, History, KeysInv, OneKey, PurgeInv, NEW p \in Request, Does(p)
  PROVE  PurgeInv'
<1> SUFFICES ASSUME NEW r \in Request, r \notin aborted', Alone(r)'
             PROVE  /\ pc'[r] = "purgeSuspended" => ~Holds(subs, Imsi(r))'
                    /\ pc'[r] = "insertNew" =>
                         ~Holds(subs, Imsi(r))' /\ ~Holds(suspended, Imsi(r))'
                    /\ body'[r].op = "remove" /\ Done(r)' /\ NoAddAfter(r)' =>
                         NoneLeft(Imsi(r))'
  BY DEF PurgeInv
<1>1. Local(p) /\ body' = body /\ r \notin aborted
  BY DoesLocal DEF Local, Ended
<1>2. Alone(r)
  BY AloneStays
<1>3. PICK i : i = Imsi(r)
  OBVIOUS
<1>4. Imsi(r)' = i /\ \A q \in Request : Same(q, r)' <=> Same(q, r)
  BY <1>1, <1>3 DEF Imsi, Same
<1>5. \A coll \in {subs, suspended} : \A d, e \in coll : d.imsi = i /\ e.imsi = i => d = e
  BY <1>2, <1>3 DEF Alone, OneKey, AtHand, KeysInv, IdUnique
<1>6. \A f : AtHand(f)' =>
        (\E d : AtHand(d) /\ d.id = f.id /\ d.imsi = f.imsi)
        \/ (InsertNew(p) /\ f.imsi = Imsi(p))
  BY AtHandFrom DEF NewDoc
<1>7. CASE p = r
  <2>1. CASE PurgeSubs(r)
    <3>1. ~Holds(subs', i)
      BY <1>3, <1>5, <2>1, DeletesAll DEF PurgeSubs
    <3>2. pc'[r] = "purgeSuspended"
      BY <2>1 DEF PurgeSubs, Goto, TypeInv, TypeOK
    <3> QED  BY <1>4, <3>1, <3>2 DEF Holds, Matching, Done
  <2>2. CASE PurgeSuspended(r)
    <3>1. pc[r] = "purgeSuspended" /\ subs' = subs
      BY <2>2 DEF PurgeSuspended, At
    <3>2. ~Holds(subs', i)
      BY <1>1, <1>2, <1>3, <3>1 DEF PurgeInv
    <3>3. ~Holds(suspended', i)
      BY <1>3, <1>5, <2>2, DeletesAll DEF PurgeSuspended
    <3>4. ASSUME NEW q \in Request, pc'[q] = "insert", q \notin aborted', NEW d \in got'[q]
          PROVE  d.imsi # i
      <4>1. q # r
        BY <2>2, <3>4 DEF PurgeSuspended, Goto, TypeInv, TypeOK
      <4>2. pc[q] = "insert" /\ q \notin aborted /\ d \in got[q]
        BY <1>1, <1>7, <3>4, <4>1 DEF Local
      <4> QED  BY <1>1, <1>2, <1>3, <3>1, <4>2, NoneHeld DEF Ended, Answer
    <3>5. NoneLeft(i)'
      BY <3>2, <3>3, <3>4 DEF NoneLeft, AtHand, Holds, Matching
    <3>6. pc'[r] # "purgeSuspended"
      BY <2>2 DEF PurgeSuspended, Goto, TypeInv, TypeOK
    <3> QED  BY <1>4, <3>2, <3>3, <3>5, <3>6 DEF Holds, Matching, NoneLeft
  <2>3. CASE body[r].op = "remove" /\ Done(r)
    <3>1. NoAddAfter(r)' => NoAddAfter(r)
      BY <1>1, <1>4, <2>3, PastStays DEF NoAddAfter, Done
    <3>2. ~InsertNew(p)
      BY <1>7, <2>3 DEF InsertNew, At, Done
    <3>3. NoAddAfter(r)' => NoneLeft(i)'
      BY <1>1, <1>2, <1>3, <1>6, <2>3, <3>1, <3>2 DEF PurgeInv, NoneLeft
    <3>4. Done(r)'
      BY <1>7, <2>3, DoneStays
    <3> QED  BY <1>4, <3>3, <3>4 DEF NoneLeft, Done
  <2>4. CASE Abort(r)
    BY <1>1, <2>4 DEF Abort
  <2> QED  BY <1>1, <1>7, <2>1, <2>2, <2>3, <2>4, DoneStays
<1>8. CASE p # r
  <2>1. pc'[r] = pc[r]
    BY <1>1, <1>8 DEF Local
  <2>2. ASSUME pc[r] \in {"purgeSuspended", "insertNew"}
        PROVE  /\ Holds(subs, i)' => Holds(subs, i)
               /\ Holds(suspended, i)' => Holds(suspended, i)
    <3> SUFFICES ASSUME \/ Holds(subs, i)' /\ ~Holds(subs, i)
                        \/ Holds(suspended, i)' /\ ~Holds(suspended, i)
                 PROVE  FALSE
      OBVIOUS
    <3>1. Imsi(p) = i /\ pc[p] \in {"insert", "insertNew"}
      BY HoldsSubs, HoldsSuspended
    <3>2. Same(p, r) /\ body[p].op \in {"add", "suspend", "resume"}
      BY <1>3, <1>8, <3>1 DEF Same, TypeInv, Routed
    <3>3. ~Overlap(p, r)'
      BY <1>1, <1>4, <3>2 DEF Alone
    <3>4. Ended(r)
      BY <2>2, <3>2, <3>3, StepsAfter
    <3> QED  BY <1>1, <2>2, <3>4 DEF Ended, Answer
  <2>3. ASSUME body[r].op = "remove", Done(r), NoAddAfter(r)' PROVE NoneLeft(i)'
    <3>1. NoAddAfter(r) /\ (Same(p, r) => body[p].op # "add")
      BY <1>1, <1>4, <1>8, <2>3, PastStays DEF NoAddAfter, Done
    <3>2. ~(InsertNew(p) /\ Imsi(p) = i)
      BY <1>3, <1>8, <3>1 DEF InsertNew, At, TypeInv, Routed, Same
    <3> QED  BY <1>1, <1>2, <1>3, <1>6, <2>3, <3>1, <3>2 DEF PurgeInv, NoneLeft
  <2>4. Done(r)' => Done(r)
    BY <2>1 DEF Done
  <2>5. /\ pc[r] = "purgeSuspended" => ~Holds(subs, i)
        /\ pc[r] = "insertNew" => ~Holds(subs, i) /\ ~Holds(suspended, i)
    BY <1>1, <1>2, <1>3 DEF PurgeInv
  <2> QED  BY <1>1, <1>4, <2>1, <2>2, <2>3, <2>4, <2>5 DEF Holds, Matching, NoneLeft
<1> QED  BY <1>7, <1>8

LEMMA InitOneKey == Init => OneKey /\ PurgeInv
<1> SUFFICES ASSUME Init PROVE OneKey /\ PurgeInv
  OBVIOUS
<1>1. PICK stashed \in SUBSET Seeded :
        /\ subs = {NewDoc(i, i) : i \in Seeded \ stashed}
        /\ suspended = {Barred(NewDoc(i, i)) : i \in stashed}
  BY DEF Init
<1>2. \A i : /\ NewDoc(i, i).id = i /\ Barred(NewDoc(i, i)).id = i
             /\ NewDoc(i, i).imsi = i /\ Barred(NewDoc(i, i)).imsi = i
  BY DEF NewDoc, Barred
<1>3. \A d : AtHand(d) => d.id = d.imsi
  BY <1>1, <1>2 DEF AtHand, Init
<1>4. PurgeInv
  BY DEF Init, PurgeInv, Done
<1> QED  BY <1>3, <1>4 DEF OneKey

ReplaceInv == TypeInv /\ History /\ KeysInv /\ OneKey /\ PurgeInv

LEMMA ReplaceHolds == Spec => []ReplaceInv
<1>1. Init => ReplaceInv
  BY InitType, InitHistory, InitKeys, InitOneKey DEF ReplaceInv
<1>2. ASSUME ReplaceInv, UNCHANGED vars PROVE KeysInv' /\ OneKey' /\ PurgeInv'
  <2>1. \A d : AtHand(d)' <=> AtHand(d)
    BY <1>2 DEF vars, AtHand
  <2>2. \A q, r \in Request : Overlap(q, r)' <=> Overlap(q, r)
    BY <1>2 DEF vars, Overlap, Same, NotYet, EndedBefore, Imsi
  <2>3. \A i : AddsAlone(i)' <=> AddsAlone(i)
    BY <1>2, <2>2 DEF vars, AddsAlone, Imsi
  <2>4. \A r \in Request : (Alone(r)' <=> Alone(r)) /\ (NoAddAfter(r)' <=> NoAddAfter(r))
    BY <1>2, <2>2 DEF vars, Alone, AddsAlone, NoAddAfter, Past, EndedBefore, Same, Imsi
  <2>5. KeysInv'
    BY <1>2, <2>1 DEF ReplaceInv, KeysInv, IdUnique, IdsGivenOut, vars, Done
  <2>6. OneKey'
    <3> SUFFICES ASSUME NEW d, NEW e, AtHand(d)', AtHand(e)', d.imsi = e.imsi,
                        AddsAlone(d.imsi)'
                 PROVE  d.id = e.id
      BY DEF OneKey
    <3>1. PICK i : i = d.imsi
      OBVIOUS
    <3> QED  BY <1>2, <2>1, <2>3, <3>1 DEF ReplaceInv, OneKey
  <2>7. PurgeInv'
    BY <1>2, <2>1, <2>4 DEF ReplaceInv, PurgeInv, NoneLeft, vars, Done, Holds, Matching, Imsi
  <2> QED  BY <2>5, <2>6, <2>7
<1>3. ASSUME ReplaceInv, NEW p \in Request, Does(p) PROVE KeysInv' /\ OneKey' /\ PurgeInv'
  BY <1>3, NextKeys, NextOneKey, NextPurge DEF ReplaceInv
<1>4. ReplaceInv /\ [Next]_vars => ReplaceInv'
  BY <1>2, <1>3, NextType, NextHistory DEF ReplaceInv, Next, Does
<1> QED  BY <1>1, <1>4, PTL DEF Spec

\* A subscriber has two documents in one collection only if an add of him ran beside
\* another add or a move.
THEOREM TwinsNeedOverlap == Spec => []TwinsOnlyBesideAdd
<1>1. ReplaceInv => TwinsOnlyBesideAdd
  BY DEF ReplaceInv, OneKey, KeysInv, IdUnique, AtHand, TwinsOnlyBesideAdd
<1> QED  BY <1>1, ReplaceHolds, PTL

\* An acknowledged removal leaves nothing, neither stored nor with a move that would
\* write it back, until the subscriber is added again.
THEOREM RemovalHolds == Spec => []RemovedStaysGone
<1>1. ASSUME ReplaceInv PROVE RemovedStaysGone
  <2> SUFFICES ASSUME NEW r \in Request, pc[r] = "ok", body[r].op = "remove",
                      AddsAlone(Imsi(r)),
                      \A q \in Request :
                        /\ Same(q, r) /\ body[q].op = "add" =>
                             EndedBefore(q, r) \/ pc[q] = "idle"
                        /\ body[q].op \in {"suspend", "resume"} => ~Overlap(q, r)
               PROVE  ~Holds(subs, Imsi(r)) /\ ~Holds(suspended, Imsi(r))
    BY DEF RemovedStaysGone
  <2>1. NoAddAfter(r) /\ Alone(r)
    BY DEF NoAddAfter, Past, Alone, Overlap, NotYet
  <2>2. r \notin aborted /\ Done(r)
    BY <1>1 DEF ReplaceInv, History, Call, Done
  <2>3. NoneLeft(Imsi(r))
    BY <1>1, <2>1, <2>2 DEF ReplaceInv, PurgeInv
  <2> QED  BY <2>3 DEF NoneLeft, AtHand, Holds, Matching
<1> QED  BY <1>1, ReplaceHolds, PTL

-----------------------------------------------------------------------------
(* The documents of one subscriber i, seen by the requests outside a set `old` of   *)
(* those that are over.  Either nothing is left of him, and no move is about to      *)
(* delete; or he is stored with one key k, and what a move is about to delete is in   *)
(* the other collection too.                                                        *)

Midway(q, i) == Imsi(q) = i /\ pc[q] = "delete"

Clean(i, old) == NoneLeft(i) /\ \A q \in Request \ old : ~Midway(q, i)

Whole(i, k, old) ==
  /\ Holds(subs, i) \/ Holds(suspended, i)
  /\ \A d : AtHand(d) /\ d.imsi = i => d.id = k
  /\ \A q \in Request \ old :
       Midway(q, i) => Holds(subs, i) /\ Holds(suspended, i)
  /\ \A q, s \in Request \ old : Midway(q, i) /\ Midway(s, i) => q = s

LEMMA ReachesDelete ==
  ASSUME TypeInv, NEW p \in Request, Does(p), pc'[p] = "delete"
  PROVE  InsertRaw(p) \/ (pc[p] = "delete" /\ Abort(p))
<1> USE DEF TypeInv, TypeOK, At, Goto
<1>1. CASE Accept(p)
  <2>1. body[p].op \in Reads \cup Changes
    BY StoreAssumption DEF Body
  <2>2. FirstCall(body[p]) # "delete"
    BY <2>1 DEF FirstCall, Reads, Changes
  <2> QED  BY <1>1, <2>2 DEF Accept
<1>2. CASE Abort(p)
  BY <1>2 DEF Abort
<1>3. CASE MoveStep(p)
  BY <1>3 DEF MoveStep, Flag, FindRaw, CountTarget, AfterMove, DeleteRaw, ClearFlags
<1>4. CASE FieldStep(p) \/ ReplaceStep(p)
  BY <1>4 DEF FieldStep, SetSubs, SetSuspended, UnsetSubs, UnsetSuspended, ReplaceStep,
              PurgeSubs, PurgeSuspended, InsertNew
<1>5. CASE ReadStep(p) \/ AuditStep(p)
  BY <1>5 DEF ReadStep, ReadSubs, ReadSuspended, AuditStep, AppendAudit, AuditFails,
              MirrorSubs, MirrorSuspended
<1> QED  BY <1>1, <1>2, <1>3, <1>4, <1>5 DEF Does, Step

\* Which requests are in mid-move after a step.
LEMMA MidwayFrom ==
  ASSUME TypeInv, History, NEW p \in Request, Does(p), NEW q \in Request, NEW i,
         Midway(q, i)'
  PROVE  \/ Midway(q, i) /\ (q = p => Abort(p))
         \/ q = p /\ InsertRaw(p) /\ Imsi(p) = i
<1>1. Local(p)
  BY DoesLocal
<1>2. CASE q # p
  BY <1>1, <1>2 DEF Local, Midway, Imsi
<1>3. CASE q = p
  BY <1>1, <1>3, ReachesDelete DEF Local, Midway, Imsi
<1> QED  BY <1>2, <1>3

\* The document that a move inserts.
LEMMA MoveInserts ==
  ASSUME TypeInv, History, NEW p \in Request, Does(p), InsertRaw(p)
  PROVE  /\ p \notin aborted
         /\ \E d : /\ got[p] = {d} /\ d.imsi = Imsi(p) /\ AtHand(d)
                   /\ pc'[p] = "delete" =>
                        \/ /\ body[p].op = "suspend" /\ ~HasId(suspended, d.id)
                           /\ subs' = subs /\ suspended' = suspended \cup {d}
                        \/ /\ body[p].op = "resume" /\ ~HasId(subs, d.id)
                           /\ subs' = subs \cup {d} /\ suspended' = suspended
<1> USE DEF TypeInv, TypeOK
<1>1. pc[p] = "insert" /\ p \notin aborted
  BY DEF InsertRaw, At
<1>2. PICK d \in Doc : got[p] = {d} /\ d.imsi = Imsi(p)
  BY <1>1 DEF History
<1>3. AtHand(d)
  BY <1>1, <1>2 DEF AtHand
<1>4. pc'[p] = "delete" =>
        \/ /\ body[p].op = "suspend" /\ ~HasId(suspended, d.id)
           /\ subs' = subs /\ suspended' = suspended \cup {d}
        \/ /\ body[p].op = "resume" /\ ~HasId(subs, d.id)
           /\ subs' = subs \cup {d} /\ suspended' = suspended
  BY <1>1, <1>2 DEF InsertRaw, InsertInto, Goto
<1> QED  BY <1>1, <1>2, <1>3, <1>4

\* Only an add brings a subscriber of whom nothing is left back,
LEMMA CleanStays ==
  ASSUME TypeInv, History, NEW p \in Request, Does(p), NEW i, NEW old, Clean(i, old),
         ~(InsertNew(p) /\ Imsi(p) = i)
  PROVE  Clean(i, old)'
<1>1. NewDoc(p, Imsi(p)).imsi = Imsi(p)
  BY DEF NewDoc
<1>2. NoneLeft(i)'
  BY <1>1, AtHandFrom DEF Clean, NoneLeft
<1>3. ASSUME NEW q \in Request \ old, Midway(q, i)' PROVE FALSE
  BY <1>3, MidwayFrom, MoveInserts DEF Clean, NoneLeft
<1> QED  BY <1>2, <1>3 DEF Clean

\* and its insert leaves him one document with the keys of the add.
LEMMA CleanStarts ==
  ASSUME TypeInv, History, NEW p \in Request, InsertNew(p), NEW old, NEW i, Imsi(p) = i,
         Clean(i, old)
  PROVE  Whole(i, p, old)' /\ ~Holds(suspended, i)'
<1> USE DEF TypeInv, TypeOK
<1>1. Does(p)
  BY DEF Does, Step, ReplaceStep
<1>2. NewDoc(p, i).imsi = i /\ NewDoc(p, i).id = p
  BY DEF NewDoc
<1>3. suspended' = suspended /\ NewDoc(p, i) \in subs'
  BY DEF InsertNew
<1>4. Holds(subs, i)' /\ ~Holds(suspended, i)'
  BY <1>2, <1>3 DEF Holds, Matching, Clean, NoneLeft, AtHand
<1>5. \A d : AtHand(d)' /\ d.imsi = i => d.id = p
  BY <1>1, <1>2, AtHandFrom DEF Clean, NoneLeft
<1>6. \A q \in Request \ old : ~Midway(q, i)'
  BY <1>1, MidwayFrom DEF Clean, InsertNew, InsertRaw, At
<1> QED  BY <1>4, <1>5, <1>6 DEF Whole

\* Only a purge or a second insert can change that of a stored subscriber.
LEMMA WholeStays ==
  ASSUME TypeInv, History, NEW p \in Request, Does(p), NEW i, NEW k, NEW old,
         Whole(i, k, old), p \notin old,
         Imsi(p) = i => pc[p] \notin {"purgeSubs", "purgeSuspended", "insertNew"}
  PROVE  Whole(i, k, old)'
<1>1. ASSUME Imsi(p) = i, DeletesSubs(p) \/ DeletesSuspended(p) PROVE Midway(p, i)
  BY <1>1 DEF DeletesSubs, DeletesSuspended, Midway
<1>2. /\ Holds(subs, i) /\ ~Holds(subs, i)' => Midway(p, i) /\ body[p].op = "suspend"
      /\ Holds(suspended, i) /\ ~Holds(suspended, i)' =>
           Midway(p, i) /\ body[p].op = "resume"
  <2>1. /\ Holds(subs, i) /\ ~Holds(subs, i)' => Imsi(p) = i /\ DeletesSubs(p)
        /\ Holds(suspended, i) /\ ~Holds(suspended, i)' => Imsi(p) = i /\ DeletesSuspended(p)
    BY HoldsSubs, HoldsSuspended
  <2> QED  BY <1>1, <2>1 DEF Midway, DeletesSubs, DeletesSuspended
<1>3. Holds(subs, i)' \/ Holds(suspended, i)'
  BY <1>2 DEF Whole
<1>4. \A d : AtHand(d)' /\ d.imsi = i => d.id = k
  <2>1. NewDoc(p, Imsi(p)).imsi = Imsi(p)
    BY DEF NewDoc
  <2>2. ~InsertNew(p) \/ Imsi(p) # i
    BY DEF InsertNew, At
  <2> QED  BY <2>1, <2>2, AtHandFrom DEF Whole
\* A move gets past its insert only when nobody else is in mid-move.
<1>5. ASSUME InsertRaw(p), pc'[p] = "delete", Imsi(p) = i
      PROVE  /\ Holds(subs, i)' /\ Holds(suspended, i)'
             /\ \A q \in Request \ old : ~Midway(q, i)
  <2>1. PICK d : /\ got[p] = {d} /\ d.imsi = i /\ AtHand(d)
                 /\ \/ /\ body[p].op = "suspend" /\ ~HasId(suspended, d.id)
                       /\ subs' = subs /\ suspended' = suspended \cup {d}
                    \/ /\ body[p].op = "resume" /\ ~HasId(subs, d.id)
                       /\ subs' = subs \cup {d} /\ suspended' = suspended
    BY <1>5, MoveInserts
  <2>2. d.id = k
    BY <2>1 DEF Whole
  <2>3. /\ Holds(subs, i) => HasId(subs, k)
        /\ Holds(suspended, i) => HasId(suspended, k)
    BY DEF Whole, Holds, Matching, HasId, AtHand
  <2> QED  BY <2>1, <2>2, <2>3 DEF Whole, Holds, Matching
<1>6. ASSUME NEW q \in Request \ old, Midway(q, i)'
      PROVE  \/ Midway(q, i) /\ (q = p => Abort(p))
             \/ q = p /\ InsertRaw(p) /\ pc'[p] = "delete" /\ Imsi(p) = i
  BY <1>6, MidwayFrom DEF Midway
<1>7. ASSUME NEW q \in Request \ old, Midway(q, i)'
      PROVE  Holds(subs, i)' /\ Holds(suspended, i)'
  <2>1. CASE q = p /\ InsertRaw(p) /\ pc'[p] = "delete" /\ Imsi(p) = i
    BY <1>5, <2>1
  <2>2. CASE Midway(q, i) /\ (q = p => Abort(p))
    <3>1. Holds(subs, i) /\ Holds(suspended, i)
      BY <2>2 DEF Whole
    <3>2. Midway(p, i) => Abort(p)
      BY <2>2 DEF Whole
    <3> QED  BY <1>2, <3>1, <3>2 DEF Abort, collections, Holds, Matching
  <2> QED  BY <1>6, <1>7, <2>1, <2>2
<1>8. ASSUME NEW q \in Request \ old, NEW s \in Request \ old, Midway(q, i)', Midway(s, i)'
      PROVE  q = s
  BY <1>5, <1>6, <1>8 DEF Whole
<1> QED  BY <1>3, <1>4, <1>7, <1>8 DEF Whole

-----------------------------------------------------------------------------
(* What an add has stored stays, live or suspended.  As in the proof that nobody is *)
(* lost, what a move deletes must be in the other collection; here this concerns the *)
(* moves that begin after the add, for of the earlier ones one can have died with    *)
(* its delete still to come and its document purged.                                *)

\* Nobody adds or removes r's subscriber after r, nor adds him beside anything.
Kept(r) ==
  /\ AddsAlone(Imsi(r))
  /\ \A q \in Request : Same(q, r) /\ body[q].op \in {"add", "remove"} => Past(q, r)

KeptInv ==
  \A r \in Request :
    body[r].op = "add" /\ r \notin aborted /\ Done(r) /\ Kept(r) =>
      /\ Whole(Imsi(r), r, before[r])
      /\ (\A q \in Request : Same(q, r) => Past(q, r)) => ~Holds(suspended, Imsi(r))

LEMMA KeptStays ==
  ASSUME TypeInv, History, NEW p \in Request, Does(p), NEW r \in Request, pc[r] # "idle",
         Kept(r)'
  PROVE  /\ Kept(r)
         /\ Same(p, r) => body[p].op \notin {"add", "remove"}
<1>1. body' = body /\ \A q \in Request : Same(q, r)' <=> Same(q, r)
  BY DoesLocal DEF Local, Same, Imsi
<1>2. PICK i : i = Imsi(r)
  OBVIOUS
<1>3. AddsAlone(i)'
  BY <1>1, <1>2 DEF Kept, AddsAlone, Imsi
<1>4. AddsAlone(i)
  BY <1>3, AloneStays
<1>5. ASSUME NEW q \in Request, Same(q, r), body[q].op \in {"add", "remove"}
      PROVE  Past(q, r) /\ p # q
  BY <1>1, <1>5, PastStays DEF Kept, Same
<1> QED  BY <1>2, <1>4, <1>5 DEF Kept

\* The add's insert: what runs beside it holds no document and is not in mid-move.
LEMMA KeptStarts ==
  ASSUME ReplaceInv, NEW r \in Request, InsertNew(r), Kept(r)
  PROVE  Whole(Imsi(r), r, before[r])' /\ ~Holds(suspended, Imsi(r))'
<1> USE DEF ReplaceInv, TypeInv, TypeOK
<1>1. pc[r] = "insertNew" /\ r \notin aborted /\ body[r].op = "add"
  BY DEF InsertNew, At, Routed
<1>2. PICK i, old : i = Imsi(r) /\ old = before[r]
  OBVIOUS
<1>3. Imsi(r)' = i /\ before'[r] = old
  BY <1>2 DEF InsertNew, Goto, Imsi
<1>4. Alone(r)
  BY <1>1 DEF Alone, Kept, AddsAlone, Same
<1>5. NoneLeft(i)
  BY <1>1, <1>2, <1>4, NoneHeld DEF PurgeInv, NoneLeft, AtHand, Holds, Matching, Ended, Answer
<1>6. ASSUME NEW q \in Request \ old, Midway(q, i) PROVE FALSE
  <2>1. Same(q, r) /\ body[q].op \in {"suspend", "resume"}
    BY <1>1, <1>2, <1>6 DEF Midway, Same, Routed
  <2>2. ~Overlap(q, r)
    BY <1>4, <2>1 DEF Alone
  <2> QED  BY <1>1, <1>2, <1>6, <2>1, <2>2, OverBeside DEF Ended, Answer, Midway, EndedBefore
<1>7. Clean(i, old)
  BY <1>5, <1>6 DEF Clean
<1> QED  BY <1>2, <1>3, <1>7, CleanStarts

\* A step after it.
LEMMA KeptStep ==
  ASSUME ReplaceInv, KeptInv, NEW p \in Request, Does(p), NEW r \in Request,
         body[r].op = "add", r \notin aborted, Done(r), Kept(r)'
  PROVE  /\ Whole(Imsi(r), r, before[r])'
         /\ (\A q \in Request : Same(q, r) => Past(q, r))' => ~Holds(suspended, Imsi(r))'
<1> USE DEF ReplaceInv
<1>1. Local(p) /\ body' = body /\ pc[r] # "idle"
  BY DoesLocal DEF Local, Done
<1>2. PICK i, old : i = Imsi(r) /\ old = before[r]
  OBVIOUS
<1>3. /\ \A q \in Request : Same(q, r)' <=> Same(q, r)
      /\ before'[r] = old /\ Imsi(r)' = i
  BY <1>1, <1>2 DEF Local, Same, Imsi
<1>4. Kept(r) /\ (Same(p, r) => body[p].op \notin {"add", "remove"})
  BY <1>1, KeptStays
<1>5. Whole(i, r, old)
  BY <1>2, <1>4 DEF KeptInv
<1>6. p \notin old
  BY <1>1, <1>2 DEF Local, History
<1>7. Imsi(p) = i => pc[p] \notin {"purgeSubs", "purgeSuspended", "insertNew"}
  BY <1>2, <1>4 DEF Same, Done, TypeInv, Routed
<1>8. Whole(i, r, old)'
  BY <1>5, <1>6, <1>7, WholeStays
<1>9. ASSUME \A q \in Request : Same(q, r)' => Past(q, r)' PROVE ~Holds(suspended, i)'
  <2>1. \A q \in Request : Same(q, r) => Past(q, r) /\ p # q
    BY <1>1, <1>3, <1>9, PastStays DEF Same
  <2>2. ~Holds(suspended, i)
    BY <1>2, <1>4, <2>1 DEF KeptInv
  <2>3. ~(Imsi(p) = i /\ pc[p] = "insert")
    BY <1>2, <2>1 DEF Same, Done
  <2> QED  BY <2>2, <2>3, HoldsSuspended
<1> QED  BY <1>3, <1>8, <1>9 DEF Holds, Matching

LEMMA NextKept ==
  ASSUME ReplaceInv, KeptInv, NEW p \in Request, Does(p)
  PROVE  KeptInv'
<1> SUFFICES ASSUME NEW r \in Request, body'[r].op = "add", r \notin aborted', Done(r)',
                    Kept(r)'
             PROVE  /\ Whole(Imsi(r), r, before[r])'
                    /\ (\A q \in Request : Same(q, r) => Past(q, r))' =>
                         ~Holds(suspended, Imsi(r))'
  BY DEF KeptInv
<1>1. Local(p) /\ body' = body /\ r \notin aborted
  BY DoesLocal DEF Local, ReplaceInv, Ended
<1>2. CASE Done(r)
  BY <1>1, <1>2, KeptStep
<1>3. CASE ~Done(r)
  <2>1. p = r
    BY <1>1, <1>3 DEF Local, Done
  <2>2. InsertNew(r)
    BY <1>1, <1>3, <2>1, DoneStays DEF ReplaceInv
  <2>3. Kept(r)
    BY <2>1, <2>2, KeptStays DEF ReplaceInv, InsertNew, At
  <2> QED  BY <2>2, <2>3, KeptStarts
<1> QED  BY <1>2, <1>3

LEMMA KeptHolds == Spec => [](ReplaceInv /\ KeptInv)
<1>1. Init => KeptInv
  BY DEF Init, KeptInv, Done
<1>2. UNCHANGED vars /\ KeptInv => KeptInv'
  BY DEF vars, KeptInv, Done, Kept, AddsAlone, Past, EndedBefore, Overlap, NotYet, Same,
         Whole, Midway, AtHand, Holds, Matching, Imsi
<1>3. ReplaceInv /\ KeptInv /\ [Next]_vars => KeptInv'
  BY <1>2, NextKept DEF Next, Does
<1> QED  BY <1>1, <1>3, ReplaceHolds, PTL DEF Spec

\* The keys an acknowledged add gave out are the keys in the store.
THEOREM AddHolds == Spec => []AddedKeysKept
<1>1. ASSUME ReplaceInv, KeptInv PROVE AddedKeysKept
  <2> SUFFICES ASSUME NEW r \in Request, pc[r] = "ok", body[r].op = "add", Kept(r)
               PROVE  \E d \in Shown(Imsi(r)) : d.id = r
    BY DEF AddedKeysKept, Kept, Past
  <2>1. r \notin aborted /\ Done(r)
    BY <1>1 DEF ReplaceInv, History, Call, Done
  <2>2. Whole(Imsi(r), r, before[r])
    BY <1>1, <2>1 DEF KeptInv
  <2> QED  BY <2>2 DEF Whole, Shown, Holds, Matching, AtHand
<1> QED  BY <1>1, KeptHolds, PTL

\* An add that runs alone leaves one live document with the new keys and nothing else,
\* whatever died before.
THEOREM AddMends == Spec => []AddRepairs
<1>1. ASSUME ReplaceInv, KeptInv PROVE AddRepairs
  <2> SUFFICES ASSUME NEW r \in Request, pc[r] = "ok", body[r].op = "add",
                      AddsAlone(Imsi(r)), \A q \in Request : Same(q, r) => Past(q, r)
               PROVE  /\ \E d \in subs : Matching(subs, Imsi(r)) = {d} /\ d.id = r
                      /\ ~Holds(suspended, Imsi(r))
    BY DEF AddRepairs, Past
  <2>1. r \notin aborted /\ Done(r) /\ Kept(r)
    BY <1>1 DEF ReplaceInv, History, Call, Done, Kept
  <2>2. Whole(Imsi(r), r, before[r]) /\ ~Holds(suspended, Imsi(r))
    BY <1>1, <2>1 DEF KeptInv
  <2>3. \A d, e \in subs : d.imsi = Imsi(r) /\ e.imsi = Imsi(r) => d = e
    BY <1>1 DEF ReplaceInv, OneKey, KeysInv, IdUnique, AtHand
  <2>4. PICK d \in subs : d.imsi = Imsi(r) /\ d.id = r
    BY <2>2 DEF Whole, Holds, Matching, AtHand
  <2>5. Matching(subs, Imsi(r)) = {d}
    BY <2>3, <2>4 DEF Matching
  <2> QED  BY <2>2, <2>4, <2>5
<1> QED  BY <1>1, KeptHolds, PTL
==============================================================================
