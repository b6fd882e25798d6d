------------------------ MODULE SubscriberStoreProofs ------------------------
(***************************************************************************)
(* Proofs about SubscriberStore, for any sets of subscribers, requests,     *)
(* plans and addresses.                                                     *)
(***************************************************************************)
EXTENDS SubscriberStore, TLAPS

-----------------------------------------------------------------------------
(* Type correctness.  TypeOK alone is not inductive: that only a change is ever *)
(* audited depends on which handler makes which call.                           *)

\* Which operations make which calls.
Routed ==
  \A r \in Request :
    /\ pc[r] = "flag" => body[r].op = "suspend"
    /\ pc[r] \in {"find", "count", "insert", "delete"} =>
         body[r].op \in {"suspend", "resume"}
    /\ pc[r] = "clear" => body[r].op = "resume"
    /\ pc[r] \in {"setSubs", "setSuspended"} => body[r].op \in {"plan", "ip"}
    /\ pc[r] \in {"unsetSubs", "unsetSuspended"} => body[r].op = "ip"
    /\ pc[r] \in {"purgeSubs", "purgeSuspended"} => body[r].op \in {"add", "remove"}
    /\ pc[r] = "insertNew" => body[r].op = "add"
    /\ pc[r] \in {"readSubs", "readSuspended"} => body[r].op \in Reads
    /\ pc[r] \in {"audit", "mirrorSubs", "mirrorSuspended"} => body[r].op \in Changes

TypeInv == TypeOK /\ Routed

\* An update leaves a collection as it was or replaces one document by another
\* with the same `_id` and imsi.
Edited(coll, c) ==
  \/ c = coll
  \/ \E d \in coll, e \in Doc :
       e.id = d.id /\ e.imsi = d.imsi /\ c = (coll \ {d}) \cup {e}

\* A delete leaves a collection as it was, without the imsi, or takes out one of
\* its documents.
Pruned(coll, c, i) ==
  \/ c = coll /\ ~Holds(coll, i)
  \/ \E d \in Matching(coll, i) : c = coll \ {d}

LEMMA DeletePrunes ==
  ASSUME NEW coll, NEW i, NEW c \in DeleteOne(coll, i)
  PROVE  Pruned(coll, c, i)
BY DEF DeleteOne, Pruned

LEMMA EditedType ==
  ASSUME NEW coll \in SUBSET Doc, NEW c, Edited(coll, c)
  PROVE  c \in SUBSET Doc
BY DEF Edited

\* Each of the updates is an edit in this sense.
LEMMA FlagEdits ==
  ASSUME TypeOK, NEW r \in Request, Flag(r)
  PROVE  Edited(subs, subs')
<1> USE DEF TypeOK, Doc
<1>1. \A d \in Doc : Barred(d) \in Doc /\ Barred(d).id = d.id /\ Barred(d).imsi = d.imsi
  BY DEF Barred
<1> QED  BY <1>1 DEF Flag, UpdateOne, Edited, Matching

LEMMA ClearEdits ==
  ASSUME TypeOK, NEW r \in Request, ClearFlags(r)
  PROVE  Edited(subs, subs')
<1> USE DEF TypeOK, Doc
<1>1. \A d \in Doc : Cleared(d) \in Doc /\ Cleared(d).id = d.id /\ Cleared(d).imsi = d.imsi
  BY DEF Cleared
<1> QED  BY <1>1 DEF ClearFlags, UpdateOne, Edited, Matching

LEMMA UnsetEdits ==
  ASSUME TypeOK, NEW r \in Request
  PROVE  /\ UnsetSubs(r) => Edited(subs, subs')
         /\ UnsetSuspended(r) => Edited(suspended, suspended')
<1> USE DEF TypeOK, Doc
<1>1. \A d \in Doc :
        WithoutIp(d) \in Doc /\ WithoutIp(d).id = d.id /\ WithoutIp(d).imsi = d.imsi
  BY DEF WithoutIp
<1>2. UnsetSubs(r) => Edited(subs, subs')
  BY <1>1 DEF UnsetSubs, UpdateOne, Edited, Matching
<1>3. UnsetSuspended(r) => Edited(suspended, suspended')
  BY <1>1 DEF UnsetSuspended, UpdateOne, Edited, Matching
<1> QED  BY <1>2, <1>3

LEMMA SetEdits ==
  ASSUME TypeOK, NEW r \in Request
  PROVE  /\ SetSubs(r) => Edited(subs, subs')
         /\ SetSuspended(r) => Edited(suspended, suspended')
<1> USE DEF TypeOK, Doc
<1>1. body[r].ambr \in Ambr /\ body[r].ip \in Ip \cup {NoIp}
  BY DEF Body
<1>2. \A d \in Doc :
        Fields(r, d) \in Doc /\ Fields(r, d).id = d.id /\ Fields(r, d).imsi = d.imsi
  BY <1>1 DEF Fields
<1>3. SetSubs(r) => Edited(subs, subs')
  BY <1>2 DEF SetSubs, UpdateOne, Edited, Matching
<1>4. SetSuspended(r) => Edited(suspended, suspended')
  BY <1>2 DEF SetSuspended, UpdateOne, Edited, Matching
<1> QED  BY <1>3, <1>4

LEMMA MirrorEdits ==
  ASSUME TypeInv, NEW r \in Request
  PROVE  /\ MirrorSubs(r) => Edited(subs, subs')
         /\ MirrorSuspended(r) => Edited(suspended, suspended')
<1> USE DEF TypeInv, TypeOK, Doc
<1>1. ASSUME pc[r] \in {"mirrorSubs", "mirrorSuspended"}
      PROVE  \A d \in Doc : /\ Mirrored(r, d) \in Doc
                            /\ Mirrored(r, d).id = d.id /\ Mirrored(r, d).imsi = d.imsi
  BY <1>1 DEF Mirrored, Routed
<1>2. MirrorSubs(r) => Edited(subs, subs')
  BY <1>1 DEF MirrorSubs, At, UpdateOne, Edited, Matching
<1>3. MirrorSuspended(r) => Edited(suspended, suspended')
  BY <1>1 DEF MirrorSuspended, At, UpdateOne, Edited, Matching
<1> QED  BY <1>2, <1>3

LEMMA InitType == Init => TypeInv
<1> SUFFICES ASSUME Init PROVE TypeInv
  OBVIOUS
<1>1. \A i \in Seeded : NewDoc(i, i) \in Doc /\ Barred(NewDoc(i, i)) \in Doc
  BY StoreAssumption DEF NewDoc, Barred, Doc, DocId
<1>2. subs \in SUBSET Doc /\ suspended \in SUBSET Doc
  BY <1>1 DEF Init
<1>3. TypeOK
  BY <1>2 DEF Init, TypeOK
<1>4. Routed
  BY DEF Init, Routed
<1> QED  BY <1>3, <1>4 DEF TypeInv

\* A request that goes on to call c stays well routed if c suits its operation.
Suits(r, c) ==
  /\ c \in Call \cup Answer
  /\ c = "flag" => body[r].op = "suspend"
  /\ c \in {"find", "count", "insert", "delete"} => body[r].op \in {"suspend", "resume"}
  /\ c = "clear" => body[r].op = "resume"
  /\ c \in {"setSubs", "setSuspended"} => body[r].op \in {"plan", "ip"}
  /\ c \in {"unsetSubs", "unsetSuspended"} => body[r].op = "ip"
  /\ c \in {"purgeSubs", "purgeSuspended"} => body[r].op \in {"add", "remove"}
  /\ c = "insertNew" => body[r].op = "add"
  /\ c \in {"readSubs", "readSuspended"} => body[r].op \in Reads
  /\ c \in {"audit", "mirrorSubs", "mirrorSuspended"} => body[r].op \in Changes

LEMMA GotoType ==
  ASSUME TypeInv, NEW r \in Request, NEW c, Goto(r, c), Suits(r, c)
  PROVE  /\ body' \in [Request -> Body]
         /\ pc' \in [Request -> Call \cup Answer \cup {"idle"}]
         /\ aborted' \in SUBSET Request
         /\ before' \in [Request -> SUBSET Request]
         /\ Routed'
<1> USE DEF TypeInv, TypeOK, Goto
<1>1. pc' \in [Request -> Call \cup Answer \cup {"idle"}]
  BY DEF Suits
<1>2. ASSUME NEW q \in Request
      PROVE  pc'[q] = IF q = r THEN c ELSE pc[q]
  OBVIOUS
<1>3. Routed'
  BY <1>2 DEF Routed, Suits
<1> QED  BY <1>1, <1>3

LEMMA MoveStepType ==
  ASSUME TypeInv, NEW r \in Request, MoveStep(r)
  PROVE  TypeInv'
<1> USE DEF TypeInv, TypeOK
<1>1. CASE Flag(r)
  <2>1. subs' \in SUBSET Doc
    BY <1>1, FlagEdits, EditedType
  <2>2. Goto(r, "find") /\ Suits(r, "find")
    BY <1>1 DEF Flag, At, Suits, Routed, Call
  <2> QED  BY <1>1, <2>1, <2>2, GotoType DEF Flag
<1>2. CASE FindRaw(r)
  <2>1. \A d \in Doc : [d EXCEPT !.status = Stamp(r)] \in Doc
    BY DEF Doc, Stamp
  <2>2. From(r) \in SUBSET Doc
    BY DEF From
  <2>3. got' \in [Request -> SUBSET Doc]
    BY <1>2, <2>1, <2>2 DEF FindRaw, Matching
  <2>4. \E c \in {"insert", "count"} : Goto(r, c) /\ Suits(r, c)
    BY <1>2 DEF FindRaw, At, Suits, Routed, Call
  <2> QED  BY <1>2, <2>3, <2>4, GotoType DEF FindRaw, collections
<1>3. CASE CountTarget(r)
  <2>1. \E c \in {"audit", "clear", "notFound"} : Goto(r, c) /\ Suits(r, c)
    BY <1>3 DEF CountTarget, AfterMove, At, Suits, Routed, Call, Answer, Changes
  <2> QED  BY <1>3, <2>1, GotoType DEF CountTarget, collections
<1>4. CASE InsertRaw(r)
  <2>1. subs' \in SUBSET Doc /\ suspended' \in SUBSET Doc
    BY <1>4 DEF InsertRaw, InsertInto
  <2>2. got' \in [Request -> SUBSET Doc]
    BY <1>4 DEF InsertRaw
  <2>3. \E c \in {"failed", "delete"} : Goto(r, c) /\ Suits(r, c)
    BY <1>4 DEF InsertRaw, InsertInto, At, Suits, Routed, Call, Answer
  <2> QED  BY <1>4, <2>1, <2>2, <2>3, GotoType DEF InsertRaw
<1>5. CASE DeleteRaw(r)
  <2>1. subs' \in SUBSET Doc /\ suspended' \in SUBSET Doc
    BY <1>5, DeletePrunes DEF DeleteRaw, Pruned
  <2>2. \E c \in {"audit", "clear"} : Goto(r, c) /\ Suits(r, c)
    BY <1>5 DEF DeleteRaw, AfterMove, At, Suits, Routed, Call, Changes
  <2> QED  BY <1>5, <2>1, <2>2, GotoType DEF DeleteRaw
<1>6. CASE ClearFlags(r)
  <2>1. subs' \in SUBSET Doc
    BY <1>6, ClearEdits, EditedType
  <2>2. Goto(r, "audit") /\ Suits(r, "audit")
    BY <1>6 DEF ClearFlags, At, Suits, Routed, Call, Changes
  <2> QED  BY <1>6, <2>1, <2>2, GotoType DEF ClearFlags
<1> QED  BY <1>1, <1>2, <1>3, <1>4, <1>5, <1>6 DEF MoveStep

LEMMA FieldStepType ==
  ASSUME TypeInv, NEW r \in Request, FieldStep(r)
  PROVE  TypeInv'
<1> USE DEF TypeInv, TypeOK
<1>1. CASE SetSubs(r)
  <2>1. subs' \in SUBSET Doc
    BY <1>1, SetEdits, EditedType
  <2>2. \E c \in {"audit", "setSuspended"} : Goto(r, c) /\ Suits(r, c)
    BY <1>1 DEF SetSubs, At, Suits, Routed, Call, Changes
  <2> QED  BY <1>1, <2>1, <2>2, GotoType DEF SetSubs
<1>2. CASE SetSuspended(r)
  <2>1. suspended' \in SUBSET Doc
    BY <1>2, SetEdits, EditedType
  <2>2. \E c \in {"audit", "notFound"} : Goto(r, c) /\ Suits(r, c)
    BY <1>2 DEF SetSuspended, At, Suits, Routed, Call, Changes, Answer
  <2> QED  BY <1>2, <2>1, <2>2, GotoType DEF SetSuspended
<1>3. CASE UnsetSubs(r)
  <2>1. subs' \in SUBSET Doc
    BY <1>3, UnsetEdits, EditedType
  <2>2. Goto(r, "unsetSuspended") /\ Suits(r, "unsetSuspended")
    BY <1>3 DEF UnsetSubs, At, Suits, Routed, Call
  <2> QED  BY <1>3, <2>1, <2>2, GotoType DEF UnsetSubs
<1>4. CASE UnsetSuspended(r)
  <2>1. suspended' \in SUBSET Doc
    BY <1>4, UnsetEdits, EditedType
  <2>2. Goto(r, "audit") /\ Suits(r, "audit")
    BY <1>4 DEF UnsetSuspended, At, Suits, Routed, Call, Changes
  <2> QED  BY <1>4, <2>1, <2>2, GotoType DEF UnsetSuspended
<1> QED  BY <1>1, <1>2, <1>3, <1>4 DEF FieldStep

LEMMA ReplaceStepType ==
  ASSUME TypeInv, NEW r \in Request, ReplaceStep(r)
  PROVE  TypeInv'
<1> USE DEF TypeInv, TypeOK
<1>1. CASE PurgeSubs(r)
  <2>1. subs' \in SUBSET Doc
    BY <1>1, DeletePrunes DEF PurgeSubs, Pruned
  <2>2. Goto(r, "purgeSuspended") /\ Suits(r, "purgeSuspended")
    BY <1>1 DEF PurgeSubs, At, Suits, Routed, Call
  <2> QED  BY <1>1, <2>1, <2>2, GotoType DEF PurgeSubs
<1>2. CASE PurgeSuspended(r)
  <2>1. suspended' \in SUBSET Doc
    BY <1>2, DeletePrunes DEF PurgeSuspended, Pruned
  <2>2. \E c \in {"insertNew", "audit"} : Goto(r, c) /\ Suits(r, c)
    BY <1>2 DEF PurgeSuspended, At, Suits, Routed, Call, Changes
  <2> QED  BY <1>2, <2>1, <2>2, GotoType DEF PurgeSuspended
<1>3. CASE InsertNew(r)
  <2>1. Imsi(r) \in IMSI
    BY DEF Imsi, Body
  <2>2. NewDoc(r, Imsi(r)) \in Doc
    BY <2>1, StoreAssumption DEF NewDoc, Doc, DocId
  <2>3. Goto(r, "audit") /\ Suits(r, "audit")
    BY <1>3 DEF InsertNew, At, Suits, Routed, Call, Changes
  <2> QED  BY <1>3, <2>2, <2>3, GotoType DEF InsertNew
<1> QED  BY <1>1, <1>2, <1>3 DEF ReplaceStep

LEMMA ReadStepType ==
  ASSUME TypeInv, NEW r \in Request, ReadStep(r)
  PROVE  TypeInv'
<1> USE DEF TypeInv, TypeOK
<1>1. Found(r, subs) \subseteq SUBSET Doc /\ Found(r, suspended) \subseteq SUBSET Doc
  BY DEF Found, Matching
<1>2. CASE ReadSubs(r)
  <2>1. got' \in [Request -> SUBSET Doc]
    BY <1>1, <1>2 DEF ReadSubs
  <2>2. \E c \in {"ok", "readSuspended"} : Goto(r, c) /\ Suits(r, c)
    BY <1>2 DEF ReadSubs, At, Suits, Routed, Call, Answer
  <2> QED  BY <1>2, <2>1, <2>2, GotoType DEF ReadSubs, collections
<1>3. CASE ReadSuspended(r)
  <2>1. got' \in [Request -> SUBSET Doc]
    BY <1>1, <1>3 DEF ReadSuspended
  <2>2. \E c \in {"ok", "notFound"} : Goto(r, c) /\ Suits(r, c)
    BY <1>3 DEF ReadSuspended, Suits, Call, Answer
  <2> QED  BY <1>3, <2>1, <2>2, GotoType DEF ReadSuspended, collections
<1> QED  BY <1>2, <1>3 DEF ReadStep

LEMMA AuditStepType ==
  ASSUME TypeInv, NEW r \in Request, AuditStep(r)
  PROVE  TypeInv'
<1> USE DEF TypeInv, TypeOK
<1>1. CASE AppendAudit(r)
  <2>1. [imsi |-> Imsi(r), op |-> body[r].op] \in [imsi: IMSI, op: Changes]
    BY <1>1 DEF AppendAudit, At, Routed, Imsi, Body
  <2>2. audit' \in Seq([imsi: IMSI, op: Changes])
    BY <1>1, <2>1 DEF AppendAudit
  <2>3. Goto(r, "mirrorSubs") /\ Suits(r, "mirrorSubs")
    BY <1>1 DEF AppendAudit, At, Suits, Routed, Call
  <2> QED  BY <1>1, <2>2, <2>3, GotoType DEF AppendAudit, collections
<1>2. CASE AuditFails(r)
  <2>1. Goto(r, "ok") /\ Suits(r, "ok")
    BY <1>2 DEF AuditFails, Suits, Answer
  <2> QED  BY <1>2, <2>1, GotoType DEF AuditFails, collections
<1>3. CASE MirrorSubs(r)
  <2>1. subs' \in SUBSET Doc
    BY <1>3, MirrorEdits, EditedType
  <2>2. Goto(r, "mirrorSuspended") /\ Suits(r, "mirrorSuspended")
    BY <1>3 DEF MirrorSubs, At, Suits, Routed, Call
  <2> QED  BY <1>3, <2>1, <2>2, GotoType DEF MirrorSubs
<1>4. CASE MirrorSuspended(r)
  <2>1. suspended' \in SUBSET Doc
    BY <1>4, MirrorEdits, EditedType
  <2>2. Goto(r, "ok") /\ Suits(r, "ok")
    BY <1>4 DEF MirrorSuspended, Suits, Answer
  <2> QED  BY <1>4, <2>1, <2>2, GotoType DEF MirrorSuspended
<1> QED  BY <1>1, <1>2, <1>3, <1>4 DEF AuditStep

LEMMA NextType == TypeInv /\ [Next]_vars => TypeInv'
<1> SUFFICES ASSUME TypeInv, [Next]_vars PROVE TypeInv'
  OBVIOUS
<1> USE DEF TypeInv, TypeOK
<1>1. ASSUME NEW r \in Request, Accept(r) PROVE TypeInv'
  <2>1. body[r] \in Body /\ body[r].op \in Reads \cup Changes
    BY StoreAssumption DEF Body
  <2>2. Suits(r, FirstCall(body[r]))
    BY <2>1 DEF Suits, FirstCall, Reads, Changes, Call
  <2>3. pc' \in [Request -> Call \cup Answer \cup {"idle"}]
    BY <1>1, <2>2 DEF Accept, Suits
  <2>4. before' \in [Request -> SUBSET Request]
    BY <1>1 DEF Accept
  <2>5. Routed'
    BY <1>1, <2>2 DEF Accept, Routed, Suits
  <2> QED  BY <1>1, <2>3, <2>4, <2>5 DEF Accept, collections
<1>2. ASSUME NEW r \in Request, Abort(r) PROVE TypeInv'
  BY <1>2 DEF Abort, Routed, collections
<1>3. ASSUME NEW r \in Request, Step(r) PROVE TypeInv'
  BY <1>3, MoveStepType, FieldStepType, ReplaceStepType, ReadStepType, AuditStepType
     DEF Step
<1>4. CASE UNCHANGED vars
  BY <1>4 DEF vars, Routed
<1> QED  BY <1>1, <1>2, <1>3, <1>4 DEF Next

\* Every reachable state has its type: documents keep the shape the HSS reads, and
\* only changes reach the audit collection.
THEOREM TypeCorrect == Spec => []TypeOK
<1>1. Spec => []TypeInv
  BY InitType, NextType, PTL DEF Spec
<1>2. TypeInv => TypeOK
  BY DEF TypeInv
<1> QED  BY <1>1, <1>2, PTL

-----------------------------------------------------------------------------
(* No subscriber is lost while clients suspend, resume, edit and read.          *)
(*                                                                             *)
(* NothingLost is not inductive: that the delete of a move leaves a document    *)
(* behind needs that the target still holds the one the move inserted, so that  *)
(* no second move can be between its two writes.  The insert is what excludes   *)
(* it: it fails if the target has a document with the `_id`, and if it has not, *)
(* the only document there is is in the collection the move takes it from.      *)

NoReplace == Op \cap {"add", "remove"} = {}

\* Every document is the one the subscriber was provisioned with.
Own(coll) == \A d \in coll : d.id = d.imsi /\ d.imsi \in Seeded

OneEach(coll) == \A d, e \in coll : d.imsi = e.imsi => d = e

RawIsOwn ==
  \A r \in Request :
    pc[r] = "insert" =>
      \E d \in Doc : /\ got[r] = {d} /\ d.imsi = Imsi(r) /\ d.id = Imsi(r)
                     /\ Imsi(r) \in Seeded

DeleteHoldsBoth ==
  \A r \in Request :
    pc[r] = "delete" => Holds(subs, Imsi(r)) /\ Holds(suspended, Imsi(r))

OneAtDelete ==
  \A q, r \in Request :
    pc[q] = "delete" /\ pc[r] = "delete" /\ Imsi(q) = Imsi(r) => q = r

BothAtDelete ==
  \A i \in IMSI :
    Holds(subs, i) /\ Holds(suspended, i) =>
      \E r \in Request : pc[r] = "delete" /\ Imsi(r) = i

MoveInv ==
  /\ Own(subs) /\ Own(suspended)
  /\ OneEach(subs) /\ OneEach(suspended)
  /\ NothingLost
  /\ RawIsOwn
  /\ DeleteHoldsBoth
  /\ OneAtDelete
  /\ BothAtDelete

LEMMA EditedKeeps ==
  ASSUME NEW coll \in SUBSET Doc, NEW c, Edited(coll, c)
  PROVE  /\ \A i : Holds(c, i) <=> Holds(coll, i)
         /\ Own(coll) => Own(c)
         /\ OneEach(coll) => OneEach(c)
<1>1. CASE c = coll
  BY <1>1
<1>2. ASSUME NEW d \in coll, NEW e \in Doc, e.id = d.id, e.imsi = d.imsi,
             c = (coll \ {d}) \cup {e}
      PROVE  /\ \A i : Holds(c, i) <=> Holds(coll, i)
             /\ Own(coll) => Own(c)
             /\ OneEach(coll) => OneEach(c)
  <2>1. \A i : Holds(c, i) <=> Holds(coll, i)
    BY <1>2 DEF Holds, Matching
  <2>2. Own(coll) => Own(c)
    BY <1>2 DEF Own
  <2>3. OneEach(coll) => OneEach(c)
    BY <1>2 DEF OneEach
  <2> QED  BY <2>1, <2>2, <2>3
<1> QED  BY <1>1, <1>2 DEF Edited

LEMMA InitMove == Init => MoveInv
<1> SUFFICES ASSUME Init PROVE MoveInv
  OBVIOUS
<1>0. PICK stashed \in SUBSET Seeded :
        /\ subs = {NewDoc(i, i) : i \in Seeded \ stashed}
        /\ suspended = {Barred(NewDoc(i, i)) : i \in stashed}
  BY DEF Init
<1>1. \A i : /\ NewDoc(i, i).imsi = i /\ NewDoc(i, i).id = i
             /\ Barred(NewDoc(i, i)).imsi = i /\ Barred(NewDoc(i, i)).id = i
  BY DEF NewDoc, Barred
<1>2. /\ \A i : Holds(subs, i) <=> i \in Seeded \ stashed
      /\ \A i : Holds(suspended, i) <=> i \in stashed
  BY <1>0, <1>1 DEF Holds, Matching
<1>3. Own(subs) /\ OneEach(subs) /\ Own(suspended) /\ OneEach(suspended)
  BY <1>0, <1>1 DEF Own, OneEach
<1>4. RawIsOwn /\ DeleteHoldsBoth /\ OneAtDelete
  BY DEF Init, RawIsOwn, DeleteHoldsBoth, OneAtDelete
<1>5. NothingLost /\ BothAtDelete
  BY <1>2 DEF NothingLost, BothAtDelete
<1> QED  BY <1>3, <1>4, <1>5 DEF MoveInv

\* A step that edits documents in place and is none of the writes of a move.
LEMMA EditStepMove ==
  ASSUME TypeInv, MoveInv, NEW r \in Request, NEW c,
         Edited(subs, subs'), Edited(suspended, suspended'),
         pc[r] # "delete", c \notin {"insert", "delete"},
         pc' = [pc EXCEPT ![r] = c], body' = body,
         \A q \in Request : q # r => got'[q] = got[q]
  PROVE  MoveInv'
<1> USE DEF TypeInv, TypeOK
<1>1. \A i : /\ Holds(subs, i)' <=> Holds(subs, i)
             /\ Holds(suspended, i)' <=> Holds(suspended, i)
  <2>1. \A i : Holds(subs', i) <=> Holds(subs, i)
    BY EditedKeeps
  <2>2. \A i : Holds(suspended', i) <=> Holds(suspended, i)
    BY EditedKeeps
  <2> QED  BY <2>1, <2>2 DEF Holds, Matching
<1>2. Own(subs)' /\ Own(suspended)' /\ OneEach(subs)' /\ OneEach(suspended)'
  <2>1. Own(subs') /\ OneEach(subs')
    BY EditedKeeps DEF MoveInv
  <2>2. Own(suspended') /\ OneEach(suspended')
    BY EditedKeeps DEF MoveInv
  <2> QED  BY <2>1, <2>2 DEF Own, OneEach
<1>3. NothingLost'
  BY <1>1 DEF MoveInv, NothingLost
<1>4. \A q \in Request : pc'[q] = (IF q = r THEN c ELSE pc[q]) /\ Imsi(q)' = Imsi(q)
  BY DEF Imsi
<1>5. RawIsOwn'
  BY <1>4 DEF MoveInv, RawIsOwn
<1>6. DeleteHoldsBoth'
  BY <1>1, <1>4 DEF MoveInv, DeleteHoldsBoth
<1>7. OneAtDelete'
  BY <1>4 DEF MoveInv, OneAtDelete
<1>8. BothAtDelete'
  <2> SUFFICES ASSUME NEW i \in IMSI, Holds(subs, i)', Holds(suspended, i)'
               PROVE  \E q \in Request : pc'[q] = "delete" /\ Imsi(q)' = i
    BY DEF BothAtDelete
  <2>1. PICK q \in Request : pc[q] = "delete" /\ Imsi(q) = i
    BY <1>1 DEF MoveInv, BothAtDelete
  <2> QED  BY <2>1, <1>4
<1> QED  BY <1>2, <1>3, <1>5, <1>6, <1>7, <1>8 DEF MoveInv

\* move reads the document it is to relocate.
LEMMA FindRawMove ==
  ASSUME TypeInv, MoveInv, NEW r \in Request, FindRaw(r)
  PROVE  MoveInv'
<1> USE DEF TypeInv, TypeOK
<1>1. UNCHANGED <<subs, suspended, body>> /\ pc[r] = "find"
  BY DEF FindRaw, Goto, At, collections
<1>2. CASE ~Holds(From(r), Imsi(r))
  <2>1. pc' = [pc EXCEPT ![r] = "count"] /\ got' = got
    BY <1>2 DEF FindRaw, Goto
  <2> QED  BY <1>1, <2>1, EditStepMove DEF Edited
<1>3. CASE Holds(From(r), Imsi(r))
  <2>1. PICK d \in Matching(From(r), Imsi(r)) :
          got' = [got EXCEPT ![r] = {[d EXCEPT !.status = Stamp(r)]}]
    BY <1>3 DEF FindRaw
  <2>2. pc' = [pc EXCEPT ![r] = "insert"]
    BY <1>3 DEF FindRaw, Goto
  <2>3. /\ d \in Doc /\ d.id = d.imsi /\ d.imsi = Imsi(r) /\ Imsi(r) \in Seeded
    BY DEF From, Matching, MoveInv, Own
  <2> DEFINE e == [d EXCEPT !.status = Stamp(r)]
  <2>4. e \in Doc /\ e.id = Imsi(r) /\ e.imsi = Imsi(r)
    BY <2>3 DEF Doc, Stamp
  <2>5. \A q \in Request : /\ pc'[q] = (IF q = r THEN "insert" ELSE pc[q])
                           /\ got'[q] = (IF q = r THEN {e} ELSE got[q])
                           /\ Imsi(q)' = Imsi(q)
    BY <1>1, <2>1, <2>2 DEF Imsi
  <2>6. RawIsOwn'
    <3> SUFFICES ASSUME NEW q \in Request, pc'[q] = "insert"
                 PROVE  \E x \in Doc : /\ got'[q] = {x} /\ x.imsi = Imsi(q)
                                       /\ x.id = Imsi(q) /\ Imsi(q) \in Seeded
      BY <2>5 DEF RawIsOwn
    <3>1. CASE q = r
      BY <2>3, <2>4, <2>5, <3>1
    <3>2. CASE q # r
      BY <2>5, <3>2 DEF MoveInv, RawIsOwn
    <3> QED  BY <3>1, <3>2
  <2>7. DeleteHoldsBoth' /\ OneAtDelete' /\ BothAtDelete'
    <3>1. \A i : Holds(subs, i)' = Holds(subs, i) /\ Holds(suspended, i)' = Holds(suspended, i)
      BY <1>1 DEF Holds, Matching
    <3>2. DeleteHoldsBoth'
      BY <2>5, <3>1 DEF MoveInv, DeleteHoldsBoth
    <3>3. OneAtDelete'
      BY <2>5 DEF MoveInv, OneAtDelete
    <3>4. BothAtDelete'
      BY <1>1, <2>5, <3>1 DEF MoveInv, BothAtDelete
    <3> QED  BY <3>2, <3>3, <3>4
  <2>8. NothingLost' /\ Own(subs)' /\ Own(suspended)' /\ OneEach(subs)' /\ OneEach(suspended)'
    BY <1>1 DEF MoveInv, NothingLost, Own, OneEach, Holds, Matching
  <2> QED  BY <2>6, <2>7, <2>8 DEF MoveInv
<1> QED  BY <1>2, <1>3

\* Putting document d into the collection b, which holds none with its `_id`.
LEMMA InsertKeeps ==
  ASSUME NEW b \in SUBSET Doc, NEW d \in Doc, NEW c, c = b \cup {d}, ~HasId(b, d.id),
         Own(b), OneEach(b), d.id = d.imsi, d.imsi \in Seeded
  PROVE  /\ ~Holds(b, d.imsi)
         /\ \A i : Holds(c, i) <=> Holds(b, i) \/ i = d.imsi
         /\ Own(c) /\ OneEach(c)
<1>1. ~Holds(b, d.imsi)
  BY DEF Holds, Matching, HasId, Own
<1>2. \A i : Holds(c, i) <=> Holds(b, i) \/ i = d.imsi
  BY DEF Holds, Matching
<1>3. Own(c)
  BY DEF Own
<1>4. OneEach(c)
  BY <1>1 DEF OneEach, Holds, Matching
<1> QED  BY <1>1, <1>2, <1>3, <1>4

\* The first write of a move.
LEMMA InsertRawMove ==
  ASSUME TypeInv, MoveInv, NEW r \in Request, InsertRaw(r)
  PROVE  MoveInv'
<1> USE DEF TypeInv, TypeOK
<1>1. /\ pc[r] = "insert" /\ body' = body
      /\ got' = [got EXCEPT ![r] = {}]
  BY DEF InsertRaw, InsertInto, Goto, At
<1>2. PICK d \in Doc : /\ got[r] = {d} /\ d.imsi = Imsi(r) /\ d.id = Imsi(r)
                       /\ Imsi(r) \in Seeded
  BY <1>1 DEF MoveInv, RawIsOwn
<1>3. CASE HasId(Target(r), d.id)
  <2>1. UNCHANGED <<subs, suspended>> /\ pc' = [pc EXCEPT ![r] = "failed"]
    BY <1>2, <1>3 DEF InsertRaw, InsertInto, Goto, Target, HasId
  <2> QED  BY <1>1, <2>1, EditStepMove DEF Edited
<1>4. CASE ~HasId(Target(r), d.id)
  <2>1. /\ pc' = [pc EXCEPT ![r] = "delete"]
        /\ \/ subs' = subs /\ suspended' = suspended \cup {d} /\ ~HasId(suspended, d.id)
           \/ suspended' = suspended /\ subs' = subs \cup {d} /\ ~HasId(subs, d.id)
    BY <1>2, <1>4 DEF InsertRaw, InsertInto, Goto, Target, HasId
  <2>2. \A q \in Request : /\ pc'[q] = (IF q = r THEN "delete" ELSE pc[q])
                           /\ q # r => got'[q] = got[q]
                           /\ Imsi(q)' = Imsi(q)
    BY <1>1, <2>1 DEF Imsi
  <2>3. /\ ~(Holds(subs, Imsi(r)) /\ Holds(suspended, Imsi(r)))
        /\ \A i : /\ Holds(subs', i) <=> Holds(subs, i) \/ i = Imsi(r)
                  /\ Holds(suspended', i) <=> Holds(suspended, i) \/ i = Imsi(r)
        /\ Own(subs') /\ Own(suspended') /\ OneEach(subs') /\ OneEach(suspended')
    <3>0. /\ d.id = d.imsi /\ d.imsi = Imsi(r) /\ Imsi(r) \in Seeded
          /\ subs \in SUBSET Doc /\ suspended \in SUBSET Doc
          /\ Own(subs) /\ Own(suspended) /\ OneEach(subs) /\ OneEach(suspended)
          /\ Holds(subs, Imsi(r)) \/ Holds(suspended, Imsi(r))
      BY <1>2 DEF MoveInv, NothingLost
    <3> HIDE DEF TypeInv, TypeOK
    <3>1. CASE subs' = subs /\ suspended' = suspended \cup {d} /\ ~HasId(suspended, d.id)
      <4>1. /\ ~Holds(suspended, d.imsi)
            /\ \A i : Holds(suspended', i) <=> Holds(suspended, i) \/ i = d.imsi
            /\ Own(suspended') /\ OneEach(suspended')
        BY <3>0, <3>1, InsertKeeps
      <4> QED  BY <3>0, <3>1, <4>1
    <3>2. CASE suspended' = suspended /\ subs' = subs \cup {d} /\ ~HasId(subs, d.id)
      <4>1. /\ ~Holds(subs, d.imsi)
            /\ \A i : Holds(subs', i) <=> Holds(subs, i) \/ i = d.imsi
            /\ Own(subs') /\ OneEach(subs')
        BY <3>0, <3>2, InsertKeeps
      <4> QED  BY <3>0, <3>2, <4>1
    <3> QED  BY <2>1, <3>1, <3>2
  <2>4. \A i : /\ Holds(subs, i)' <=> Holds(subs, i) \/ i = Imsi(r)
               /\ Holds(suspended, i)' <=> Holds(suspended, i) \/ i = Imsi(r)
    BY <2>3 DEF Holds, Matching
  <2>5. Own(subs)' /\ Own(suspended)' /\ OneEach(subs)' /\ OneEach(suspended)'
    BY <2>3 DEF Own, OneEach
  <2>6. NothingLost'
    BY <2>4 DEF MoveInv, NothingLost
  <2>7. RawIsOwn'
    BY <2>2 DEF MoveInv, RawIsOwn
  <2>8. DeleteHoldsBoth'
    BY <2>2, <2>4 DEF MoveInv, DeleteHoldsBoth
  <2>9. OneAtDelete'
    BY <2>2, <2>3 DEF MoveInv, OneAtDelete, DeleteHoldsBoth
  <2>10. BothAtDelete'
    <3> SUFFICES ASSUME NEW i \in IMSI, Holds(subs, i)', Holds(suspended, i)'
                 PROVE  \E q \in Request : pc'[q] = "delete" /\ Imsi(q)' = i
      BY DEF BothAtDelete
    <3>1. CASE i = Imsi(r)
      BY <2>2, <3>1
    <3>2. CASE i # Imsi(r)
      <4>1. PICK q \in Request : pc[q] = "delete" /\ Imsi(q) = i
        BY <2>4, <3>2 DEF MoveInv, BothAtDelete
      <4> QED  BY <2>2, <4>1
    <3> QED  BY <3>1, <3>2
  <2> QED  BY <2>5, <2>6, <2>7, <2>8, <2>9, <2>10 DEF MoveInv
<1> QED  BY <1>3, <1>4

\* Taking the document of imsi i out of collection b.
LEMMA DeleteKeeps ==
  ASSUME NEW b, NEW i, NEW c \in DeleteOne(b, i), OneEach(b), Own(b)
  PROVE  /\ \A j : Holds(c, j) <=> Holds(b, j) /\ j # i
         /\ Own(c) /\ OneEach(c)
<1>1. Pruned(b, c, i)
  BY DeletePrunes
<1>2. CASE c = b /\ ~Holds(b, i)
  BY <1>2
<1>3. ASSUME NEW d \in Matching(b, i), c = b \ {d}
      PROVE  /\ \A j : Holds(c, j) <=> Holds(b, j) /\ j # i
             /\ Own(c) /\ OneEach(c)
  <2>1. Own(c) /\ OneEach(c)
    BY <1>3 DEF Own, OneEach
  <2>2. \A j : Holds(c, j) <=> Holds(b, j) /\ j # i
    BY <1>3 DEF Holds, Matching, OneEach
  <2> QED  BY <2>1, <2>2
<1> QED  BY <1>1, <1>2, <1>3 DEF Pruned

\* The second write of a move: the target has kept what the first one put there.
LEMMA DeleteRawMove ==
  ASSUME TypeInv, MoveInv, NEW r \in Request, DeleteRaw(r)
  PROVE  MoveInv'
<1> USE DEF TypeInv, TypeOK
<1>1. /\ pc[r] = "delete" /\ body' = body /\ got' = got
      /\ pc' = [pc EXCEPT ![r] = AfterMove(r)]
      /\ AfterMove(r) \in {"audit", "clear"}
  BY DEF DeleteRaw, Goto, At, AfterMove
<1>2. \A q \in Request : /\ pc'[q] = (IF q = r THEN AfterMove(r) ELSE pc[q])
                         /\ Imsi(q)' = Imsi(q)
  BY <1>1 DEF Imsi
<1>3. Holds(subs, Imsi(r)) /\ Holds(suspended, Imsi(r))
  BY <1>1 DEF MoveInv, DeleteHoldsBoth
<1>4. /\ \A j : j # Imsi(r) => /\ Holds(subs', j) <=> Holds(subs, j)
                               /\ Holds(suspended', j) <=> Holds(suspended, j)
      /\ Holds(subs', Imsi(r)) <=> ~Holds(suspended', Imsi(r))
      /\ Own(subs') /\ Own(suspended') /\ OneEach(subs') /\ OneEach(suspended')
  <2>1. CASE subs' \in DeleteOne(subs, Imsi(r)) /\ suspended' = suspended
    BY <1>3, <2>1, DeleteKeeps DEF MoveInv
  <2>2. CASE suspended' \in DeleteOne(suspended, Imsi(r)) /\ subs' = subs
    BY <1>3, <2>2, DeleteKeeps DEF MoveInv
  <2> QED  BY <2>1, <2>2 DEF DeleteRaw
<1>5. /\ \A j : j # Imsi(r) => /\ Holds(subs, j)' <=> Holds(subs, j)
                               /\ Holds(suspended, j)' <=> Holds(suspended, j)
      /\ \A j : j = Imsi(r) => (Holds(subs, j)' <=> ~Holds(suspended, j)')
  BY <1>4 DEF Holds, Matching
<1>6. Own(subs)' /\ Own(suspended)' /\ OneEach(subs)' /\ OneEach(suspended)'
  BY <1>4 DEF Own, OneEach
<1>7. NothingLost'
  BY <1>5 DEF MoveInv, NothingLost
<1>8. RawIsOwn'
  BY <1>1, <1>2 DEF MoveInv, RawIsOwn
<1>9. \A q \in Request : pc'[q] = "delete" => pc[q] = "delete" /\ Imsi(q) # Imsi(r)
  BY <1>1, <1>2 DEF MoveInv, OneAtDelete
<1>10. DeleteHoldsBoth' /\ OneAtDelete'
  BY <1>2, <1>5, <1>9 DEF MoveInv, DeleteHoldsBoth, OneAtDelete
<1>11. BothAtDelete'
  <2> SUFFICES ASSUME NEW i \in IMSI, Holds(subs, i)', Holds(suspended, i)'
               PROVE  \E q \in Request : pc'[q] = "delete" /\ Imsi(q)' = i
    BY DEF BothAtDelete
  <2>1. i # Imsi(r)
    BY <1>5
  <2>2. PICK q \in Request : pc[q] = "delete" /\ Imsi(q) = i
    BY <1>5, <2>1 DEF MoveInv, BothAtDelete
  <2> QED  BY <1>2, <2>1, <2>2
<1> QED  BY <1>6, <1>7, <1>8, <1>10, <1>11 DEF MoveInv

LEMMA OtherMoveStepMove ==
  ASSUME TypeInv, MoveInv, NEW r \in Request,
         Flag(r) \/ CountTarget(r) \/ ClearFlags(r)
  PROVE  MoveInv'
<1> USE DEF TypeInv, At, Goto
<1>1. CASE Flag(r)
  BY <1>1, FlagEdits, EditStepMove DEF Flag, Edited
<1>2. CASE CountTarget(r)
  BY <1>2, EditStepMove DEF CountTarget, AfterMove, Edited, collections
<1>3. CASE ClearFlags(r)
  BY <1>3, ClearEdits, EditStepMove DEF ClearFlags, Edited
<1> QED  BY <1>1, <1>2, <1>3

LEMMA FieldStepMove ==
  ASSUME TypeInv, MoveInv, NEW r \in Request, FieldStep(r)
  PROVE  MoveInv'
<1> USE DEF TypeInv, At, Goto
<1>1. CASE SetSubs(r)
  BY <1>1, SetEdits, EditStepMove DEF SetSubs, Edited
<1>2. CASE SetSuspended(r)
  BY <1>2, SetEdits, EditStepMove DEF SetSuspended, Edited
<1>3. CASE UnsetSubs(r)
  BY <1>3, UnsetEdits, EditStepMove DEF UnsetSubs, Edited
<1>4. CASE UnsetSuspended(r)
  BY <1>4, UnsetEdits, EditStepMove DEF UnsetSuspended, Edited
<1> QED  BY <1>1, <1>2, <1>3, <1>4 DEF FieldStep

LEMMA ReadStepMove ==
  ASSUME TypeInv, MoveInv, NEW r \in Request, ReadStep(r)
  PROVE  MoveInv'
<1> USE DEF TypeInv, TypeOK, At, Goto
<1>1. CASE ReadSubs(r)
  BY <1>1, EditStepMove DEF ReadSubs, Edited, collections
<1>2. CASE ReadSuspended(r)
  BY <1>2, EditStepMove DEF ReadSuspended, Edited, collections
<1> QED  BY <1>1, <1>2 DEF ReadStep

LEMMA AuditStepMove ==
  ASSUME TypeInv, MoveInv, NEW r \in Request, AuditStep(r)
  PROVE  MoveInv'
<1> USE DEF TypeInv, At, Goto
<1>1. CASE AppendAudit(r)
  BY <1>1, EditStepMove DEF AppendAudit, Edited, collections
<1>2. CASE AuditFails(r)
  BY <1>2, EditStepMove DEF AuditFails, Edited, collections
<1>3. CASE MirrorSubs(r)
  BY <1>3, MirrorEdits, EditStepMove DEF MirrorSubs, Edited
<1>4. CASE MirrorSuspended(r)
  BY <1>4, MirrorEdits, EditStepMove DEF MirrorSuspended, Edited
<1> QED  BY <1>1, <1>2, <1>3, <1>4 DEF AuditStep

LEMMA NextMove == NoReplace /\ TypeInv /\ MoveInv /\ [Next]_vars => MoveInv'
<1> SUFFICES ASSUME NoReplace, TypeInv, MoveInv, [Next]_vars PROVE MoveInv'
  OBVIOUS
<1>1. ASSUME NEW r \in Request, Accept(r) PROVE MoveInv'
  <2>1. body[r].op \in Reads \cup Changes
    BY StoreAssumption DEF TypeInv, TypeOK, Body
  <2>2. FirstCall(body[r]) \notin {"insert", "delete"}
    BY <2>1 DEF FirstCall, Reads, Changes
  <2> QED  BY <1>1, <2>2, EditStepMove DEF Accept, Edited, collections
<1>2. CASE (\E r \in Request : Abort(r)) \/ UNCHANGED vars
  <2>1. UNCHANGED <<subs, suspended, body, pc, got>>
    BY <1>2 DEF Abort, vars, collections
  <2> QED  BY <2>1 DEF MoveInv, Own, OneEach, NothingLost, RawIsOwn, DeleteHoldsBoth,
                       OneAtDelete, BothAtDelete, Holds, Matching, Imsi
<1>3. ASSUME NEW r \in Request, ReplaceStep(r) PROVE FALSE
  <2>1. body[r].op \in {"add", "remove"}
    BY <1>3 DEF ReplaceStep, PurgeSubs, PurgeSuspended, InsertNew, At, TypeInv, Routed
  <2>2. body[r].op \in Op
    BY DEF TypeInv, TypeOK, Body
  <2> QED  BY <2>1, <2>2 DEF NoReplace
<1>4. ASSUME NEW r \in Request, Step(r) PROVE MoveInv'
  <2>1. CASE MoveStep(r)
    BY <2>1, FindRawMove, InsertRawMove, DeleteRawMove, OtherMoveStepMove DEF MoveStep
  <2> QED  BY <1>3, <1>4, <2>1, FieldStepMove, ReadStepMove, AuditStepMove DEF Step
<1> QED  BY <1>1, <1>2, <1>4 DEF Next

LEMMA MoveInvHolds == NoReplace => (Spec => [](TypeInv /\ MoveInv))
<1> SUFFICES ASSUME NoReplace PROVE Spec => [](TypeInv /\ MoveInv)
  OBVIOUS
<1>1. Init => TypeInv /\ MoveInv
  BY InitType, InitMove
<1>2. (TypeInv /\ MoveInv) /\ [Next]_vars => (TypeInv /\ MoveInv)'
  BY NextType, NextMove
<1> QED  BY <1>1, <1>2, PTL DEF Spec

\* However many suspends, resumes, edits and reads race, and wherever they die, a
\* subscriber that was provisioned keeps a document.
THEOREM NothingIsLost == NoReplace => (Spec => []NothingLost)
<1>1. TypeInv /\ MoveInv => NothingLost
  BY DEF MoveInv
<1> QED  BY <1>1, MoveInvHolds, PTL

\* A subscriber in both collections is in the hands of exactly one move, which is
\* between its two writes or died there.
THEOREM BothMeansMidMove == NoReplace => (Spec => []BothOnlyMidMove)
<1>1. TypeInv /\ MoveInv => BothOnlyMidMove
  BY DEF MoveInv, BothAtDelete, OneAtDelete, BothOnlyMidMove, Same
<1> QED  BY <1>1, MoveInvHolds, PTL

-----------------------------------------------------------------------------
(* The mirror of the last action, whatever races and dies: an action that a       *)
(* document shows is one the audit collection has.                                *)

Entry(i, op) == \E n \in DOMAIN audit : audit[n] = [imsi |-> i, op |-> op]

\* The documents there are: in the collections and in the memory of requests, from
\* where a move writes them back.
Everywhere == subs \cup suspended \cup UNION {got[r] : r \in Request}

\* A request that is to write the mirror has written the entry.
EntryFirst ==
  \A r \in Request :
    pc[r] \in {"mirrorSubs", "mirrorSuspended"} => Entry(Imsi(r), body[r].op)

MirrorInv ==
  /\ \A d \in Everywhere : d.last # "none" => Entry(d.imsi, d.last)
  /\ EntryFirst

\* A document that shows what one there was has shown, or nothing.
Copy(e) == e.last = "none" \/ \E d \in Everywhere : d.imsi = e.imsi /\ d.last = e.last

\* A step that writes neither entry nor mirror.
Silent(r) ==
  /\ \A e \in Everywhere' : Copy(e)
  /\ audit' = audit
  /\ body' = body
  /\ \A q \in Request : pc'[q] \in {"mirrorSubs", "mirrorSuspended"} => pc'[q] = pc[q]

LEMMA SilentKeeps ==
  ASSUME MirrorInv, NEW r \in Request, Silent(r)
  PROVE  MirrorInv'
<1>1. ASSUME NEW i, NEW op PROVE Entry(i, op)' <=> Entry(i, op)
  BY DEF Silent, Entry
<1>2. ASSUME NEW e \in Everywhere', e.last # "none" PROVE Entry(e.imsi, e.last)'
  <2>1. PICK d \in Everywhere : d.imsi = e.imsi /\ d.last = e.last
    BY <1>2 DEF Silent, Copy
  <2> QED  BY <2>1, <1>1, <1>2 DEF MirrorInv
<1>3. EntryFirst'
  BY <1>1 DEF Silent, EntryFirst, MirrorInv, Imsi
<1> QED  BY <1>2, <1>3 DEF MirrorInv

LEMMA MoveStepSilent ==
  ASSUME TypeInv, NEW r \in Request, MoveStep(r)
  PROVE  Silent(r)
<1> USE DEF TypeInv, TypeOK, Goto
<1>1. \A d \in Doc : /\ Barred(d).imsi = d.imsi /\ Barred(d).last = d.last
                     /\ Cleared(d).imsi = d.imsi /\ Cleared(d).last = d.last
                     /\ \A s : LET e == [d EXCEPT !.status = s]
                               IN e.imsi = d.imsi /\ e.last = d.last
  BY DEF Doc, Barred, Cleared
<1>2. CASE Flag(r)
  BY <1>1, <1>2 DEF Flag, UpdateOne, Matching, Silent, Everywhere, Copy
<1>3. CASE FindRaw(r)
  <2>1. ASSUME NEW d \in From(r), got' = [got EXCEPT ![r] = {[d EXCEPT !.status = Stamp(r)]}]
        PROVE  \A e \in UNION {got'[q] : q \in Request} : Copy(e)
    <3>1. d \in Doc /\ d \in Everywhere
      BY <2>1 DEF From, Everywhere
    <3>2. Copy([d EXCEPT !.status = Stamp(r)])
      BY <1>1, <3>1 DEF Copy
    <3>3. \A q \in Request : \A e \in got[q] : Copy(e)
      BY DEF Copy, Everywhere
    <3> QED  BY <2>1, <3>2, <3>3
  <2>2. \A e \in Everywhere : Copy(e)
    BY DEF Copy
  <2>3. \A e \in Everywhere' : Copy(e)
    BY <1>3, <2>1, <2>2 DEF FindRaw, Matching, collections, Everywhere
  <2> QED  BY <1>3, <2>3 DEF FindRaw, collections, Silent
<1>4. CASE CountTarget(r)
  BY <1>4 DEF CountTarget, AfterMove, collections, Silent, Everywhere, Copy
<1>5. CASE InsertRaw(r)
  BY <1>5 DEF InsertRaw, InsertInto, Silent, Everywhere, Copy
<1>6. CASE DeleteRaw(r)
  BY <1>6 DEF DeleteRaw, AfterMove, DeleteOne, Silent, Everywhere, Copy
<1>7. CASE ClearFlags(r)
  BY <1>1, <1>7 DEF ClearFlags, UpdateOne, Matching, Silent, Everywhere, Copy
<1> QED  BY <1>2, <1>3, <1>4, <1>5, <1>6, <1>7 DEF MoveStep

LEMMA FieldStepSilent ==
  ASSUME TypeInv, NEW r \in Request, FieldStep(r)
  PROVE  Silent(r)
<1> USE DEF TypeInv, TypeOK, Goto
<1>1. \A d \in Doc :
        /\ Fields(r, d).imsi = d.imsi /\ Fields(r, d).last = d.last
        /\ WithoutIp(d).imsi = d.imsi /\ WithoutIp(d).last = d.last
  BY DEF Doc, Fields, WithoutIp
<1>2. CASE SetSubs(r)
  BY <1>1, <1>2 DEF SetSubs, UpdateOne, Matching, Silent, Everywhere, Copy
<1>3. CASE SetSuspended(r)
  BY <1>1, <1>3 DEF SetSuspended, UpdateOne, Matching, Silent, Everywhere, Copy
<1>4. CASE UnsetSubs(r)
  BY <1>1, <1>4 DEF UnsetSubs, UpdateOne, Matching, Silent, Everywhere, Copy
<1>5. CASE UnsetSuspended(r)
  BY <1>1, <1>5 DEF UnsetSuspended, UpdateOne, Matching, Silent, Everywhere, Copy
<1> QED  BY <1>2, <1>3, <1>4, <1>5 DEF FieldStep

LEMMA ReplaceStepSilent ==
  ASSUME TypeInv, NEW r \in Request, ReplaceStep(r)
  PROVE  Silent(r)
<1> USE DEF TypeInv, TypeOK, Goto
<1>1. CASE PurgeSubs(r)
  BY <1>1 DEF PurgeSubs, DeleteOne, Silent, Everywhere, Copy
<1>2. CASE PurgeSuspended(r)
  BY <1>2 DEF PurgeSuspended, DeleteOne, Silent, Everywhere, Copy
<1>3. CASE InsertNew(r)
  <2>1. NewDoc(r, Imsi(r)).last = "none"
    BY DEF NewDoc
  <2> QED  BY <1>3, <2>1 DEF InsertNew, Silent, Everywhere, Copy
<1> QED  BY <1>1, <1>2, <1>3 DEF ReplaceStep

LEMMA ReadStepSilent ==
  ASSUME TypeInv, NEW r \in Request, ReadStep(r)
  PROVE  Silent(r)
<1> USE DEF TypeInv, TypeOK, Goto
<1>1. /\ \A docs \in Found(r, subs) : docs \subseteq subs
      /\ \A docs \in Found(r, suspended) : docs \subseteq suspended
  BY DEF Found, Matching
<1>2. CASE ReadSubs(r)
  BY <1>1, <1>2 DEF ReadSubs, collections, Silent, Everywhere, Copy
<1>3. CASE ReadSuspended(r)
  BY <1>1, <1>3 DEF ReadSuspended, collections, Silent, Everywhere, Copy
<1> QED  BY <1>2, <1>3 DEF ReadStep

\* The steps that are not silent write the entry before the mirror.
LEMMA AuditStepKeeps ==
  ASSUME TypeInv, MirrorInv, NEW r \in Request, AuditStep(r)
  PROVE  MirrorInv'
<1> USE DEF TypeInv, TypeOK, Goto
<1>1. CASE AppendAudit(r)
  <2>1. \A n \in DOMAIN audit : n \in DOMAIN audit' /\ audit'[n] = audit[n]
    BY <1>1 DEF AppendAudit
  <2>2. ASSUME NEW i, NEW op, Entry(i, op) PROVE Entry(i, op)'
    BY <2>1, <2>2 DEF Entry
  <2>3. Entry(Imsi(r), body[r].op)'
    <3>1. /\ Len(audit) + 1 \in DOMAIN audit'
          /\ audit'[Len(audit) + 1] = [imsi |-> Imsi(r), op |-> body[r].op]
      BY <1>1 DEF AppendAudit
    <3> QED  BY <1>1, <3>1 DEF Entry, Imsi, AppendAudit
  <2>4. EntryFirst'
    BY <1>1, <2>2, <2>3 DEF AppendAudit, EntryFirst, MirrorInv, Imsi
  <2>5. Everywhere' = Everywhere
    BY <1>1 DEF AppendAudit, collections, Everywhere
  <2> QED  BY <2>2, <2>4, <2>5 DEF MirrorInv
<1>2. CASE AuditFails(r)
  <2>1. Silent(r)
    BY <1>2 DEF AuditFails, collections, Silent, Everywhere, Copy
  <2> QED  BY <2>1, SilentKeeps
<1>3. ASSUME MirrorSubs(r) \/ MirrorSuspended(r) PROVE MirrorInv'
  <2>1. audit' = audit /\ body' = body /\ Entry(Imsi(r), body[r].op)
    BY <1>3 DEF MirrorSubs, MirrorSuspended, At, MirrorInv, EntryFirst
  <2>2. ASSUME NEW i, NEW op PROVE Entry(i, op)' <=> Entry(i, op)
    BY <2>1 DEF Entry
  <2>3. EntryFirst'
    BY <1>3, <2>1, <2>2 DEF MirrorSubs, MirrorSuspended, EntryFirst, MirrorInv, Imsi, At
  <2>4. \A d \in Doc : Mirrored(r, d).imsi = d.imsi /\ Mirrored(r, d).last = body[r].op
    BY DEF Mirrored, Doc
  <2>5. ASSUME NEW e \in Everywhere'
        PROVE  e \in Everywhere \/ (e.imsi = Imsi(r) /\ e.last = body[r].op)
    BY <1>3, <2>4 DEF MirrorSubs, MirrorSuspended, UpdateOne, Matching, Everywhere
  <2> QED  BY <2>1, <2>2, <2>3, <2>5 DEF MirrorInv
<1> QED  BY <1>1, <1>2, <1>3 DEF AuditStep

LEMMA InitMirror == Init => MirrorInv
<1> SUFFICES ASSUME Init PROVE MirrorInv
  OBVIOUS
<1>1. \A i : NewDoc(i, i).last = "none" /\ Barred(NewDoc(i, i)).last = "none"
  BY DEF NewDoc, Barred
<1>2. \A d \in Everywhere : d.last = "none"
  BY <1>1 DEF Init, Everywhere
<1> QED  BY <1>2 DEF Init, MirrorInv, EntryFirst

LEMMA NextMirror == TypeInv /\ MirrorInv /\ [Next]_vars => MirrorInv'
<1> SUFFICES ASSUME TypeInv, MirrorInv, [Next]_vars PROVE MirrorInv'
  OBVIOUS
<1>1. ASSUME NEW r \in Request, Accept(r) PROVE Silent(r)
  <2>1. body[r].op \in Reads \cup Changes
    BY StoreAssumption DEF TypeInv, TypeOK, Body
  <2>2. FirstCall(body[r]) \notin {"mirrorSubs", "mirrorSuspended"}
    BY <2>1 DEF FirstCall, Reads, Changes
  <2>3. \A q \in Request : pc'[q] = IF q = r THEN FirstCall(body[r]) ELSE pc[q]
    BY <1>1 DEF Accept, TypeInv, TypeOK
  <2> QED  BY <1>1, <2>2, <2>3 DEF Accept, collections, Silent, Everywhere, Copy
<1>2. ASSUME NEW r \in Request, Abort(r) PROVE Silent(r)
  BY <1>2 DEF Abort, collections, Silent, Everywhere, Copy
<1>3. ASSUME NEW r \in Request, Step(r) PROVE MirrorInv'
  <2>1. CASE AuditStep(r)
    BY <2>1, AuditStepKeeps
  <2>2. CASE ~AuditStep(r)
    BY <1>3, <2>2, MoveStepSilent, FieldStepSilent, ReplaceStepSilent, ReadStepSilent,
       SilentKeeps DEF Step
  <2> QED  BY <2>1, <2>2
<1>4. CASE UNCHANGED vars
  BY <1>4 DEF vars, MirrorInv, EntryFirst, Entry, Everywhere, Imsi
<1> QED  BY <1>1, <1>2, <1>3, <1>4, SilentKeeps DEF Next

\* Whatever races and dies, list and get never show an action that history has not:
\* the mirror is best effort, but it can only lag.
THEOREM MirrorFollowsAudit == Spec => []MirrorIsAudited
<1>1. Spec => []TypeInv
  BY InitType, NextType, PTL DEF Spec
<1>2. Spec => []MirrorInv
  BY <1>1, InitMirror, NextMirror, PTL DEF Spec
<1>3. MirrorInv => MirrorIsAudited
  BY DEF MirrorInv, MirrorIsAudited, Entry, Everywhere
<1> QED  BY <1>2, <1>3, PTL

-----------------------------------------------------------------------------
(* What one step of a request can do to the other requests and to the           *)
(* collections, and what the order of requests, kept in `before`, tells of them, *)
(* for any operations.                                                          *)

\* One step of request r.
Does(r) == Accept(r) \/ Abort(r) \/ Step(r)

-----------------------------------------------------------------------------
(* The order of requests. *)

\* Only requests that have ended come before another one, a request dies before a
\* call, and before an insert it holds the document it has read.
History ==
  /\ \A r \in Request : pc[r] = "idle" => before[r] = {}
  /\ \A r \in Request : \A q \in before[r] : Ended(q)
  /\ \A r \in aborted : pc[r] \in Call
  /\ \A r \in Request :
       pc[r] = "insert" => \E d \in Doc : got[r] = {d} /\ d.imsi = Imsi(r)

\* A step of r is no step of another request, and none that has ended takes a step.
Local(r) ==
  /\ body' = body
  /\ ~Ended(r)
  /\ pc'[r] # "idle"
  /\ pc[r] # "idle" => before'[r] = before[r]
  /\ pc[r] = "idle" => before'[r] = {q \in Request : Ended(q)} /\ r \notin aborted'
  /\ r \in aborted' => pc'[r] = pc[r] /\ pc[r] \in Call
  /\ \A q \in Request \ {r} : /\ pc'[q] = pc[q] /\ got'[q] = got[q]
                              /\ before'[q] = before[q]
                              /\ q \in aborted' <=> q \in aborted

LEMMA StepLocal ==
  ASSUME TypeInv, History, NEW r \in Request, Step(r)
  PROVE  Local(r)
<1> USE DEF TypeInv, TypeOK
<1>1. ASSUME NEW c \in Call \cup Answer, Goto(r, c), pc[r] \in Call, r \notin aborted,
             \A q \in Request \ {r} : got'[q] = got[q]
      PROVE  Local(r)
  BY <1>1 DEF Goto, Local, Ended, Call, Answer
<1> USE DEF At, Call, Answer, collections
<1>2. CASE MoveStep(r)
  <2>1. CASE Flag(r)
    BY <1>1, <2>1 DEF Flag
  <2>2. CASE FindRaw(r)
    BY <1>1, <2>2 DEF FindRaw
  <2>3. CASE CountTarget(r)
    BY <1>1, <2>3 DEF CountTarget, AfterMove
  <2>4. CASE InsertRaw(r)
    BY <1>1, <2>4 DEF InsertRaw, InsertInto
  <2>5. CASE DeleteRaw(r)
    BY <1>1, <2>5 DEF DeleteRaw, AfterMove
  <2>6. CASE ClearFlags(r)
    BY <1>1, <2>6 DEF ClearFlags
  <2> QED  BY <1>2, <2>1, <2>2, <2>3, <2>4, <2>5, <2>6 DEF MoveStep
<1>3. CASE FieldStep(r)
  BY <1>1, <1>3 DEF FieldStep, SetSubs, SetSuspended, UnsetSubs, UnsetSuspended
<1>4. CASE ReplaceStep(r)
  BY <1>1, <1>4 DEF ReplaceStep, PurgeSubs, PurgeSuspended, InsertNew
<1>5. CASE ReadStep(r)
  BY <1>1, <1>5 DEF ReadStep, ReadSubs, ReadSuspended
<1>6. CASE AuditStep(r)
  BY <1>1, <1>6 DEF AuditStep, AppendAudit, AuditFails, MirrorSubs, MirrorSuspended
<1> QED  BY <1>2, <1>3, <1>4, <1>5, <1>6 DEF Step

LEMMA DoesLocal ==
  ASSUME TypeInv, History, NEW r \in Request, Does(r)
  PROVE  Local(r)
<1> USE DEF TypeInv, TypeOK
<1>1. CASE Accept(r)
  <2>1. body[r].op \in Reads \cup Changes
    BY StoreAssumption DEF Body
  <2>2. FirstCall(body[r]) # "idle"
    BY <2>1 DEF FirstCall, Reads, Changes
  <2> QED  BY <1>1, <2>2 DEF Accept, Local, Ended, History, Call, Answer
<1>2. CASE Abort(r)
  BY <1>2 DEF Abort, Local, Ended, Call, Answer
<1> QED  BY <1>1, <1>2, StepLocal DEF Does

\* No step reaches a call "insert" but the one that has read the document.
LEMMA ReachesInsert ==
  ASSUME TypeInv, NEW r \in Request, Does(r), pc'[r] = "insert"
  PROVE  (pc[r] = "insert" /\ got' = got) \/ FindRaw(r)
<1> USE DEF TypeInv, TypeOK, At, Goto
<1>1. CASE Accept(r)
  <2>1. body[r].op \in Reads \cup Changes
    BY StoreAssumption DEF Body
  <2>2. FirstCall(body[r]) # "insert"
    BY <2>1 DEF FirstCall, Reads, Changes
  <2> QED  BY <1>1, <2>2 DEF Accept
<1>2. CASE Abort(r)
  BY <1>2 DEF Abort
<1>3. CASE MoveStep(r)
  BY <1>3 DEF MoveStep, Flag, CountTarget, InsertRaw, InsertInto, DeleteRaw, AfterMove,
              ClearFlags
<1>4. CASE FieldStep(r)
  BY <1>4 DEF FieldStep, SetSubs, SetSuspended, UnsetSubs, UnsetSuspended
<1>5. CASE ReplaceStep(r)
  BY <1>5 DEF ReplaceStep, PurgeSubs, PurgeSuspended, InsertNew
<1>6. CASE ReadStep(r)
  BY <1>6 DEF ReadStep, ReadSubs, ReadSuspended
<1>7. CASE AuditStep(r)
  BY <1>7 DEF AuditStep, AppendAudit, AuditFails, MirrorSubs, MirrorSuspended
<1> QED  BY <1>1, <1>2, <1>3, <1>4, <1>5, <1>6, <1>7 DEF Does, Step

LEMMA NextHistory == TypeInv /\ History /\ [Next]_vars => History'
<1> SUFFICES ASSUME TypeInv, History, [Next]_vars PROVE History'
  OBVIOUS
<1>1. CASE UNCHANGED vars
  BY <1>1 DEF vars, History, Ended, Imsi
<1>2. ASSUME NEW r \in Request, Does(r) PROVE History'
  <2>1. Local(r)
    BY <1>2, DoesLocal
  <2>2. \A q \in Request : Ended(q) => Ended(q)'
    BY <2>1 DEF Local, Ended
  <2>3. \A q \in Request : Imsi(q)' = Imsi(q)
    BY <2>1 DEF Local, Imsi
  <2>4. ASSUME NEW q \in Request, pc'[q] = "insert"
        PROVE  \E d \in Doc : got'[q] = {d} /\ d.imsi = Imsi(q)
    <3>1. CASE q # r
      BY <2>1, <2>4, <3>1 DEF Local, History
    <3>2. CASE q = r /\ FindRaw(r)
      <4>1. PICK d \in Matching(From(r), Imsi(r)) :
              got' = [got EXCEPT ![r] = {[d EXCEPT !.status = Stamp(r)]}]
        BY <2>4, <3>2 DEF FindRaw, Goto, TypeInv, TypeOK
      <4>2. d \in Doc /\ d.imsi = Imsi(r)
        BY DEF From, Matching, TypeInv, TypeOK
      <4>3. LET e == [d EXCEPT !.status = Stamp(r)] IN e \in Doc /\ e.imsi = Imsi(r)
        BY <4>2 DEF Doc, Stamp
      <4> QED  BY <3>2, <4>1, <4>3 DEF TypeInv, TypeOK
    <3>3. CASE q = r /\ ~FindRaw(r)
      BY <1>2, <2>4, <3>3, ReachesInsert DEF History
    <3> QED  BY <3>1, <3>2, <3>3
  <2>5. aborted' \in SUBSET Request
    BY NextType DEF TypeInv, TypeOK
  <2>6. \A q \in aborted' : pc'[q] \in Call
    BY <2>1, <2>5 DEF Local, History
  <2>7. \A q \in Request : pc'[q] = "idle" => before'[q] = {}
    BY <2>1 DEF Local, History
  <2>8. \A q \in Request : \A p \in before'[q] : Ended(p)'
    <3> SUFFICES ASSUME NEW q \in Request, NEW p \in before'[q] PROVE Ended(p)'
      OBVIOUS
    <3>1. before[q] \in SUBSET Request
      BY DEF TypeInv, TypeOK
    <3>2. CASE q = r /\ pc[r] = "idle"
      BY <2>1, <2>2, <3>2 DEF Local
    <3>3. CASE ~(q = r /\ pc[r] = "idle")
      BY <2>1, <2>2, <3>1, <3>3 DEF Local, History
    <3> QED  BY <3>2, <3>3
  <2> QED  BY <2>3, <2>4, <2>6, <2>7, <2>8 DEF History
<1> QED  BY <1>1, <1>2 DEF Next, Does

LEMMA InitHistory == Init => History
BY DEF Init, History

LEMMA HistoryHolds == Spec => [](TypeInv /\ History)
<1>1. Init => TypeInv /\ History
  BY InitType, InitHistory
<1>2. (TypeInv /\ History) /\ [Next]_vars => (TypeInv /\ History)'
  BY NextType, NextHistory
<1> QED  BY <1>1, <1>2, PTL DEF Spec

-----------------------------------------------------------------------------
(* What a step writes to the two collections and takes out of them.              *)

\* Request r is the one that writes document e to `subscribers`.
WritesSubs(r, e) ==
  \/ pc[r] = "flag" /\ \E d \in Matching(subs, Imsi(r)) : e = Barred(d)
  \/ pc[r] = "clear" /\ \E d \in Matching(subs, Imsi(r)) : e = Cleared(d)
  \/ pc[r] = "setSubs" /\ \E d \in Matching(subs, Imsi(r)) : e = Fields(r, d)
  \/ pc[r] = "unsetSubs" /\ \E d \in Matching(subs, Imsi(r)) : e = WithoutIp(d)
  \/ pc[r] = "mirrorSubs" /\ \E d \in Matching(subs, Imsi(r)) : e = Mirrored(r, d)
  \/ /\ pc[r] = "insert" /\ body[r].op = "resume"
     /\ e \in got[r] /\ ~HasId(subs, e.id)
  \/ pc[r] = "insertNew" /\ e = NewDoc(r, Imsi(r))

WritesSuspended(r, e) ==
  \/ pc[r] = "setSuspended" /\ \E d \in Matching(suspended, Imsi(r)) : e = Fields(r, d)
  \/ pc[r] = "unsetSuspended" /\ \E d \in Matching(suspended, Imsi(r)) : e = WithoutIp(d)
  \/ pc[r] = "mirrorSuspended" /\ \E d \in Matching(suspended, Imsi(r)) : e = Mirrored(r, d)
  \/ /\ pc[r] = "insert" /\ body[r].op = "suspend"
     /\ e \in got[r] /\ ~HasId(suspended, e.id)

DeletesSubs(r) ==
  pc[r] = "purgeSubs" \/ (pc[r] = "delete" /\ body[r].op = "suspend")

DeletesSuspended(r) ==
  pc[r] = "purgeSuspended" \/ (pc[r] = "delete" /\ body[r].op = "resume")

\* Document d of `coll` is in c, or another in its place is.
KeptAs(d, c) == \E e \in c : e.id = d.id /\ e.imsi = d.imsi

\* Every document but those r writes was there before; one that is no longer
\* there is of r's subscriber, and r deletes it or has written another in its place.
SubsWritten(r) ==
  /\ \A e \in subs' : e \in subs \/ WritesSubs(r, e)
  /\ \A d \in subs :
       \/ d \in subs'
       \/ d.imsi = Imsi(r) /\ (DeletesSubs(r) \/ KeptAs(d, subs'))

SuspendedWritten(r) ==
  /\ \A e \in suspended' : e \in suspended \/ WritesSuspended(r, e)
  /\ \A d \in suspended :
       \/ d \in suspended'
       \/ d.imsi = Imsi(r) /\ (DeletesSuspended(r) \/ KeptAs(d, suspended'))

LEMMA SameSubs ==
  ASSUME NEW r \in Request, subs' = subs
  PROVE  SubsWritten(r)
BY DEF SubsWritten

LEMMA SameSuspended ==
  ASSUME NEW r \in Request, suspended' = suspended
  PROVE  SuspendedWritten(r)
BY DEF SuspendedWritten

LEMMA MoveStepWritten ==
  ASSUME TypeInv, NEW r \in Request, MoveStep(r)
  PROVE  SubsWritten(r) /\ SuspendedWritten(r)
<1> USE DEF TypeInv, TypeOK, At
<1>1. CASE Flag(r)
  <2>1. \A d \in Doc : Barred(d).id = d.id /\ Barred(d).imsi = d.imsi
    BY DEF Barred, Doc
  <2>2. SubsWritten(r)
    BY <1>1, <2>1 DEF Flag, UpdateOne, SubsWritten, WritesSubs, KeptAs, Matching
  <2> QED  BY <1>1, <2>2, SameSuspended DEF Flag
<1>2. CASE FindRaw(r) \/ CountTarget(r)
  BY <1>2, SameSubs, SameSuspended DEF FindRaw, CountTarget, collections
<1>3. CASE InsertRaw(r)
  <2>1. CASE body[r].op = "suspend"
    BY <1>3, <2>1, SameSubs DEF InsertRaw, InsertInto, SuspendedWritten, WritesSuspended
  <2>2. CASE body[r].op = "resume"
    BY <1>3, <2>2, SameSuspended DEF InsertRaw, InsertInto, SubsWritten, WritesSubs
  <2> QED  BY <1>3, <2>1, <2>2 DEF InsertRaw
<1>4. CASE DeleteRaw(r)
  <2>1. CASE body[r].op = "suspend"
    BY <1>4, <2>1, SameSuspended DEF DeleteRaw, DeleteOne, Matching, SubsWritten, DeletesSubs
  <2>2. CASE body[r].op = "resume"
    BY <1>4, <2>2, SameSubs
       DEF DeleteRaw, DeleteOne, Matching, SuspendedWritten, DeletesSuspended
  <2> QED  BY <1>4, <2>1, <2>2 DEF DeleteRaw
<1>5. CASE ClearFlags(r)
  <2>1. \A d \in Doc : Cleared(d).id = d.id /\ Cleared(d).imsi = d.imsi
    BY DEF Cleared, Doc
  <2>2. SubsWritten(r)
    BY <1>5, <2>1 DEF ClearFlags, UpdateOne, SubsWritten, WritesSubs, KeptAs, Matching
  <2> QED  BY <1>5, <2>2, SameSuspended DEF ClearFlags
<1> QED  BY <1>1, <1>2, <1>3, <1>4, <1>5 DEF MoveStep

LEMMA FieldStepWritten ==
  ASSUME TypeInv, NEW r \in Request, FieldStep(r)
  PROVE  SubsWritten(r) /\ SuspendedWritten(r)
<1> USE DEF TypeInv, TypeOK, At
<1>1. \A d \in Doc : /\ Fields(r, d).id = d.id /\ Fields(r, d).imsi = d.imsi
                     /\ WithoutIp(d).id = d.id /\ WithoutIp(d).imsi = d.imsi
  BY DEF Fields, WithoutIp, Doc
<1>2. CASE SetSubs(r)
  BY <1>1, <1>2, SameSuspended
     DEF SetSubs, UpdateOne, SubsWritten, WritesSubs, KeptAs, Matching
<1>3. CASE SetSuspended(r)
  BY <1>1, <1>3, SameSubs
     DEF SetSuspended, UpdateOne, SuspendedWritten, WritesSuspended, KeptAs, Matching
<1>4. CASE UnsetSubs(r)
  BY <1>1, <1>4, SameSuspended
     DEF UnsetSubs, UpdateOne, SubsWritten, WritesSubs, KeptAs, Matching
<1>5. CASE UnsetSuspended(r)
  BY <1>1, <1>5, SameSubs
     DEF UnsetSuspended, UpdateOne, SuspendedWritten, WritesSuspended, KeptAs, Matching
<1> QED  BY <1>2, <1>3, <1>4, <1>5 DEF FieldStep

LEMMA OtherStepWritten ==
  ASSUME TypeInv, NEW r \in Request, ReplaceStep(r) \/ ReadStep(r) \/ AuditStep(r)
  PROVE  SubsWritten(r) /\ SuspendedWritten(r)
<1> USE DEF TypeInv, TypeOK, At
<1>1. CASE PurgeSubs(r)
  BY <1>1, SameSuspended DEF PurgeSubs, DeleteOne, Matching, SubsWritten, DeletesSubs
<1>2. CASE PurgeSuspended(r)
  BY <1>2, SameSubs
     DEF PurgeSuspended, DeleteOne, Matching, SuspendedWritten, DeletesSuspended
<1>3. CASE InsertNew(r)
  BY <1>3, SameSuspended DEF InsertNew, SubsWritten, WritesSubs
<1>4. CASE ReadStep(r) \/ AppendAudit(r) \/ AuditFails(r)
  BY <1>4, SameSubs, SameSuspended
     DEF ReadStep, ReadSubs, ReadSuspended, AppendAudit, AuditFails, collections
<1>5. \A d \in Doc : Mirrored(r, d).id = d.id /\ Mirrored(r, d).imsi = d.imsi
  BY DEF Mirrored, Doc
<1>6. CASE MirrorSubs(r)
  BY <1>5, <1>6, SameSuspended
     DEF MirrorSubs, UpdateOne, SubsWritten, WritesSubs, KeptAs, Matching
<1>7. CASE MirrorSuspended(r)
  BY <1>5, <1>7, SameSubs
     DEF MirrorSuspended, UpdateOne, SuspendedWritten, WritesSuspended, KeptAs, Matching
<1> QED  BY <1>1, <1>2, <1>3, <1>4, <1>6, <1>7 DEF ReplaceStep, AuditStep

LEMMA DoesWritten ==
  ASSUME TypeInv, NEW r \in Request, Does(r)
  PROVE  SubsWritten(r) /\ SuspendedWritten(r)
<1>1. CASE Accept(r) \/ Abort(r)
  BY <1>1, SameSubs, SameSuspended DEF Accept, Abort, collections
<1>2. CASE Step(r)
  BY <1>2, MoveStepWritten, FieldStepWritten, OtherStepWritten DEF Step
<1> QED  BY <1>1, <1>2 DEF Does

\* Which requests can give a collection its first document of subscriber i, or take
\* the last one.
LEMMA HoldsSubs ==
  ASSUME TypeInv, History, NEW p \in Request, Does(p), NEW i
  PROVE  /\ Holds(subs, i)' /\ ~Holds(subs, i) =>
              /\ Imsi(p) = i
              /\ \/ pc[p] = "insert" /\ body[p].op = "resume"
                 \/ pc[p] = "insertNew"
         /\ Holds(subs, i) /\ ~Holds(subs, i)' => Imsi(p) = i /\ DeletesSubs(p)
<1>1. SubsWritten(p)
  BY DoesWritten
<1>2. ASSUME Holds(subs, i)', ~Holds(subs, i)
      PROVE  /\ Imsi(p) = i
             /\ \/ pc[p] = "insert" /\ body[p].op = "resume"
                \/ pc[p] = "insertNew"
  <2>1. PICK e \in subs' : e.imsi = i
    BY <1>2 DEF Holds, Matching
  <2>2. WritesSubs(p, e)
    BY <1>1, <1>2, <2>1 DEF SubsWritten, Holds, Matching
  <2>3. \A d \in Matching(subs, Imsi(p)) :
          /\ Barred(d).imsi = d.imsi /\ Cleared(d).imsi = d.imsi
          /\ Fields(p, d).imsi = d.imsi /\ WithoutIp(d).imsi = d.imsi
          /\ Mirrored(p, d).imsi = d.imsi
    BY DEF TypeInv, TypeOK, Matching, Doc, Barred, Cleared, Fields, WithoutIp, Mirrored
  <2>4. ~(\E d \in Matching(subs, Imsi(p)) : d.imsi = e.imsi)
    BY <1>2, <2>1 DEF Holds, Matching
  <2>5. pc[p] = "insert" => e.imsi = Imsi(p)
    BY <2>2 DEF WritesSubs, History
  <2>6. pc[p] = "insertNew" => e.imsi = Imsi(p)
    BY <2>2 DEF WritesSubs, NewDoc
  <2> QED  BY <2>1, <2>2, <2>3, <2>4, <2>5, <2>6 DEF WritesSubs
<1>3. ASSUME Holds(subs, i), ~Holds(subs, i)'
      PROVE  Imsi(p) = i /\ DeletesSubs(p)
  <2>1. PICK d \in subs : d.imsi = i
    BY <1>3 DEF Holds, Matching
  <2>2. d \notin subs' /\ ~KeptAs(d, subs')
    BY <1>3, <2>1 DEF Holds, Matching, KeptAs
  <2> QED  BY <1>1, <2>1, <2>2 DEF SubsWritten
<1> QED  BY <1>2, <1>3

LEMMA HoldsSuspended ==
  ASSUME TypeInv, History, NEW p \in Request, Does(p), NEW i
  PROVE  /\ Holds(suspended, i)' /\ ~Holds(suspended, i) =>
              Imsi(p) = i /\ pc[p] = "insert" /\ body[p].op = "suspend"
         /\ Holds(suspended, i) /\ ~Holds(suspended, i)' =>
              Imsi(p) = i /\ DeletesSuspended(p)
<1>1. SuspendedWritten(p)
  BY DoesWritten
<1>2. ASSUME Holds(suspended, i)', ~Holds(suspended, i)
      PROVE  Imsi(p) = i /\ pc[p] = "insert" /\ body[p].op = "suspend"
  <2>1. PICK e \in suspended' : e.imsi = i
    BY <1>2 DEF Holds, Matching
  <2>2. WritesSuspended(p, e)
    BY <1>1, <1>2, <2>1 DEF SuspendedWritten, Holds, Matching
  <2>3. \A d \in Matching(suspended, Imsi(p)) :
          /\ Fields(p, d).imsi = d.imsi /\ WithoutIp(d).imsi = d.imsi
          /\ Mirrored(p, d).imsi = d.imsi
    BY DEF TypeInv, TypeOK, Matching, Doc, Fields, WithoutIp, Mirrored
  <2>4. ~(\E d \in Matching(suspended, Imsi(p)) : d.imsi = e.imsi)
    BY <1>2, <2>1 DEF Holds, Matching
  <2>5. pc[p] = "insert" => e.imsi = Imsi(p)
    BY <2>2 DEF WritesSuspended, History
  <2> QED  BY <2>1, <2>2, <2>3, <2>4, <2>5 DEF WritesSuspended
<1>3. ASSUME Holds(suspended, i), ~Holds(suspended, i)'
      PROVE  Imsi(p) = i /\ DeletesSuspended(p)
  <2>1. PICK d \in suspended : d.imsi = i
    BY <1>3 DEF Holds, Matching
  <2>2. d \notin suspended' /\ ~KeptAs(d, suspended')
    BY <1>3, <2>1 DEF Holds, Matching, KeptAs
  <2> QED  BY <1>1, <2>1, <2>2 DEF SuspendedWritten
<1> QED  BY <1>2, <1>3

-----------------------------------------------------------------------------
(* What one request knows of another from `before`.                              *)

\* q has ended before r began, or has not begun.
Past(q, r) == EndedBefore(q, r) \/ pc[q] = "idle"

\* Once r has begun, what is past has been past, and takes no step any more without
\* following r.
LEMMA PastStays ==
  ASSUME TypeInv, History, NEW p \in Request, Does(p),
         NEW q \in Request, NEW r \in Request, pc[r] # "idle", Past(q, r)'
  PROVE  Past(q, r) /\ (p = q => p = r)
<1>1. Local(p)
  BY DoesLocal
<1>2. before'[r] = before[r]
  BY <1>1 DEF Local
<1>3. Past(q, r)
  BY <1>1, <1>2 DEF Past, EndedBefore, Local
<1>4. p = q => p = r
  <2> SUFFICES ASSUME p = q PROVE FALSE
    OBVIOUS
  <2> QED  BY <1>1, <1>2 DEF Past, EndedBefore, Local, History
<1> QED  BY <1>3, <1>4

\* Requests that overlap will have overlapped.
LEMMA OverlapStays ==
  ASSUME TypeInv, History, NEW p \in Request, Does(p),
         NEW q \in Request, NEW r \in Request, Overlap(q, r)
  PROVE  Overlap(q, r)'
<1>1. Local(p)
  BY DoesLocal
<1>2. pc[q] # "idle" /\ pc[r] # "idle"
  BY DEF Overlap, NotYet
<1>3. /\ pc'[q] # "idle" /\ pc'[r] # "idle"
      /\ before'[q] = before[q] /\ before'[r] = before[r]
  BY <1>1, <1>2 DEF Local
<1> QED  BY <1>1, <1>3 DEF Overlap, Same, NotYet, EndedBefore, Imsi, Local

\* A request of the same subscriber that takes a step beside r without overlapping it
\* has begun after r ended.
LEMMA StepsAfter ==
  ASSUME TypeInv, History, NEW p \in Request, Does(p), NEW r \in Request, Same(p, r),
         pc[r] # "idle", ~Overlap(p, r)'
  PROVE  Ended(r) /\ Ended(r)' /\ EndedBefore(r, p)'
<1>1. Local(p)
  BY DoesLocal
<1>2. p \notin before[r]
  BY <1>1 DEF Local, History
<1>3. p \notin before'[r] /\ pc'[p] # "idle" /\ pc'[r] # "idle" /\ Same(p, r)'
  BY <1>1, <1>2 DEF Local, Same, Imsi
<1>4. r \in before'[p]
  BY <1>3 DEF Overlap, NotYet, EndedBefore
<1>5. Ended(r)
  BY <1>1, <1>4 DEF Local, History
<1> QED  BY <1>1, <1>4, <1>5 DEF Local, Ended, EndedBefore, Same

\* And one that has begun and does not overlap r, while r is in progress, is over.
LEMMA OverBeside ==
  ASSUME TypeInv, History, NEW r \in Request, NEW q \in Request, Same(q, r),
         pc[q] # "idle", pc[r] # "idle", ~Ended(r), ~Overlap(q, r)
  PROVE  EndedBefore(q, r) /\ Ended(q)
<1>1. r \notin before[q]
  BY DEF History
<1> QED  BY <1>1 DEF Overlap, NotYet, EndedBefore, History
==============================================================================
