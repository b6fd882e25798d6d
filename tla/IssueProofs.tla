------------------------------ MODULE IssueProofs ------------------------------
(***************************************************************************)
(* Proofs about IssueSim: which MSINs issue-sim gives out, and what becomes *)
(* of the SIMs.  For any batches of any length, beside any other requests,  *)
(* wherever requests die.                                                   *)
(***************************************************************************)
EXTENDS IssueSim, ReplaceProofs, WellFoundedInduction

\* A bounded set of numbers has a largest member.
LEMMA LargestExists ==
  ASSUME NEW last \in Nat, NEW S, S \subseteq 0..last, S # {}
  PROVE  Max(S) \in S /\ \A u \in S : u <= Max(S)
<1> DEFINE R == OpToRel(<, Nat)
           T == {last - u : u \in S}
<1>1. IsWellFoundedOn(R, Nat)
  BY NatLessThanWellFounded
<1>2. T \subseteq Nat /\ T # {}
  <2>1. \A u \in S : u \in 0..last
    OBVIOUS
  <2>2. \A u \in S : last - u \in Nat
    BY <2>1
  <2> QED  BY <2>2
<1> HIDE DEF R, T
<1>3. PICK t \in T : \A y \in T : <<y, t>> \notin R
  BY <1>1, <1>2, WFMin
<1> USE DEF T
<1>4. \A y \in T : ~(y < t)
  BY <1>2, <1>3 DEF R, OpToRel
<1>5. PICK m \in S : t = last - m
  OBVIOUS
<1>6. \A u \in S : m >= u
  BY <1>4, <1>5
<1>7. Max(S) \in S /\ \A u \in S : Max(S) >= u
  BY <1>6 DEF Max
<1> QED  BY <1>7

LEMMA MsinNat == \A i \in IMSI : i \in Nat
<1>1. PICK last \in IMSI : IMSI \subseteq 0..last
  BY IssueAssumption
<1>2. last \in Nat
  BY <1>1
<1> QED  BY <1>1, <1>2

\* What MaxMSIN finds in a collection.
LEMMA LargestIs ==
  ASSUME NEW coll, NEW n \in IMSI, \A d \in coll : d.imsi \in IMSI
  PROVE  /\ Largest(coll, n) \in IMSI /\ n <= Largest(coll, n)
         /\ \A d \in coll : d.imsi <= Largest(coll, n)
         /\ \A u \in Nat : n <= u /\ (\A d \in coll : d.imsi <= u) => Largest(coll, n) <= u
<1>1. PICK last \in IMSI : IMSI \subseteq 0..last
  BY IssueAssumption
<1>2. last \in Nat
  BY <1>1
<1> DEFINE S == {n} \cup {d.imsi : d \in coll}
<1>3. S \subseteq 0..last /\ S # {} /\ S \subseteq IMSI
  BY <1>1
<1>4. Largest(coll, n) = Max(S)
  BY DEF Largest
<1> HIDE DEF S
<1>5. Max(S) \in S /\ \A u \in S : u <= Max(S)
  BY <1>2, <1>3, LargestExists
<1> QED  BY <1>1, <1>3, <1>4, <1>5 DEF S

-----------------------------------------------------------------------------
(* The SIMs of a batch take their turns, and what they store has an IMSI.          *)

Picked(s) == Imsi(s) # NotPicked

BatchInv ==
  /\ max \in [Sim -> IMSI] /\ Sim \subseteq Request
  /\ \A s \in Sim : body[s].op = "add" /\ \E b \in Issued : s \in Sims(b)
  /\ \A b \in Batch : \A s \in Sims(b) : s \in Sim => Sims(b) \subseteq Sim
  /\ \A r \in Request : ~Picked(r) <=> r \in Sim /\ pc[r] \in {"idle", "maxSuspended"}
  /\ \A r \in Request : pc[r] = "maxSuspended" => r \in Sim
  /\ \A d : AtHand(d) => d.imsi # NotPicked
  /\ \A b \in Issued : \A j, k \in DOMAIN b :
       /\ j < k /\ pc[b[k]] # "idle" => pc[b[j]] = "ok" /\ b[j] \in before[b[k]]
       /\ b[j] \in before[b[k]] => j < k

StoreInv == TypeInv /\ History /\ KeysInv /\ BatchInv

\* The steps of SubscriberStore, as far as issue-sim takes them too: a SIM is not
\* accepted by itself.
Plain(p) == Does(p) /\ max' = max /\ (pc[p] = "idle" => p \notin Sim)

\* What every step, of SubscriberStore or of MaxMSIN, leaves as it was.
Ahead(p) ==
  /\ Sim' = Sim
  /\ ~Ended(p)
  /\ \A q \in Request :
       /\ body'[q].op = body[q].op
       /\ Picked(q) => Imsi(q)' = Imsi(q)
       /\ pc[q] # "idle" => pc'[q] # "idle" /\ before'[q] = before[q]
       /\ Ended(q) => Ended(q)' /\ pc'[q] = pc[q]
       /\ Done(q) => Done(q)'
       /\ q # p => /\ pc'[q] = pc[q] /\ before'[q] = before[q] /\ body'[q] = body[q]
                   /\ q \in aborted' <=> q \in aborted

LEMMA IssueSteps ==
  ASSUME [IssueNext]_issueVars, Sim \subseteq Request
  PROVE  \/ UNCHANGED issueVars
         \/ \E p \in Request : Plain(p)
         \/ \E s \in Sim : MaxInSubs(s) \/ MaxInSuspended(s)
<1>1. ASSUME NEW r \in Request \ Sim, Accept(r), UNCHANGED max PROVE Plain(r)
  BY <1>1 DEF Plain, Does
<1>2. ASSUME NEW r \in Request, Abort(r) \/ Step(r), UNCHANGED max PROVE Plain(r)
  <2>1. pc[r] # "idle"
    BY <1>2 DEF Abort, Call, Step, MoveStep, Flag, FindRaw, CountTarget,
           InsertRaw, DeleteRaw, ClearFlags, FieldStep, SetSubs, SetSuspended, UnsetSubs,
           UnsetSuspended, ReplaceStep, PurgeSubs, PurgeSuspended, InsertNew, ReadStep, ReadSubs,
           ReadSuspended, AuditStep, AppendAudit, AuditFails, MirrorSubs, MirrorSuspended, At
  <2> QED  BY <1>2, <2>1 DEF Plain, Does
<1> QED  BY <1>1, <1>2 DEF IssueNext

\* No step of SubscriberStore reaches MaxMSIN, and none but a death leaves it.
LEMMA MaxIsApart ==
  ASSUME TypeInv, NEW p \in Request, Does(p), pc[p] = "maxSuspended" \/ pc'[p] = "maxSuspended"
  PROVE  Abort(p) /\ pc'[p] = pc[p]
<1> USE DEF TypeInv, TypeOK, At, Goto
<1>1. CASE Accept(p)
  <2>1. body[p].op \in Reads \cup Changes
    BY StoreAssumption DEF Body
  <2>2. FirstCall(body[p]) # "maxSuspended"
    BY <2>1 DEF FirstCall, Reads, Changes
  <2> QED  BY <1>1, <2>2 DEF Accept
<1>2. CASE Abort(p)
  BY <1>2 DEF Abort
<1>3. CASE MoveStep(p)
  BY <1>3 DEF MoveStep, Flag, FindRaw, CountTarget, AfterMove, InsertRaw, InsertInto,
              DeleteRaw, ClearFlags
<1>4. CASE FieldStep(p) \/ ReplaceStep(p)
  BY <1>4 DEF FieldStep, SetSubs, SetSuspended, UnsetSubs, UnsetSuspended, ReplaceStep,
              PurgeSubs, PurgeSuspended, InsertNew
<1>5. CASE ReadStep(p) \/ AuditStep(p)
  BY <1>5 DEF ReadStep, ReadSubs, ReadSuspended, AuditStep, AppendAudit, AuditFails,
              MirrorSubs, MirrorSuspended
<1> QED  BY <1>1, <1>2, <1>3, <1>4, <1>5 DEF Does, Step

LEMMA PlainAhead ==
  ASSUME StoreInv, NEW p \in Request, Plain(p)
  PROVE  /\ Ahead(p) /\ Does(p) /\ body' = body
         /\ pc'[p] = "maxSuspended" => pc[p] = "maxSuspended"
<1> USE DEF StoreInv
<1>1. Local(p) /\ Does(p) /\ max' = max
  BY DoesLocal DEF Plain
<1>2. Sim' = Sim
  BY <1>1 DEF Sim
<1>3. \A q \in Request : Ended(q) => Ended(q)' /\ pc'[q] = pc[q]
  BY <1>1 DEF Local, Ended
<1>4. \A q \in Request : Done(q) => Done(q)'
  BY <1>1, DoneStays DEF Local, Done
<1> QED  BY <1>1, <1>2, <1>3, <1>4, MaxIsApart DEF Ahead, Local, Imsi

\* The two reads of MaxMSIN touch nothing stored.
LEMMA LooksAhead ==
  ASSUME StoreInv, NEW s \in Sim, MaxInSubs(s)
  PROVE  /\ Ahead(s) /\ UNCHANGED <<collections, audit, body, got, aborted>>
         /\ s \in Request /\ pc[s] = "idle" /\ pc'[s] = "maxSuspended"
         /\ before'[s] = {q \in Request : Ended(q)}
         /\ max' = [max EXCEPT ![s] = Largest(subs, 0)]
         /\ \A d : AtHand(d)' <=> AtHand(d)
<1> USE DEF StoreInv, TypeInv, TypeOK
<1>1. s \in Request
  BY DEF BatchInv
<1>2. pc' = [pc EXCEPT ![s] = "maxSuspended"]
      /\ before' = [before EXCEPT ![s] = {q \in Request : Ended(q)}]
  BY DEF MaxInSubs
<1>3. Sim' = Sim
  BY DEF MaxInSubs, Sim
<1>4. pc[s] = "idle" /\ s \notin aborted
  BY DEF MaxInSubs, History, Call
<1>5. \A q \in Request : Ended(q)' <=> Ended(q)
  BY <1>1, <1>2, <1>4 DEF MaxInSubs, Ended, Answer
<1>6. \A q \in Request : Done(q)' <=> Done(q)
  BY <1>1, <1>2, <1>4 DEF Done
<1>7. \A d : AtHand(d)' <=> AtHand(d)
  BY <1>1, <1>2, <1>4 DEF AtHand, MaxInSubs, collections
<1> QED  BY <1>1, <1>2, <1>3, <1>4, <1>5, <1>6, <1>7 DEF Ahead, MaxInSubs, Imsi, Ended, Answer

LEMMA TakesAhead ==
  ASSUME StoreInv, NEW s \in Sim, MaxInSuspended(s)
  PROVE  /\ Ahead(s) /\ UNCHANGED <<collections, audit, got, aborted, before>>
         /\ s \in Request /\ pc[s] = "maxSuspended" /\ pc'[s] = "purgeSubs"
         /\ s \notin aborted /\ ~Picked(s)
         /\ Imsi(s)' = Largest(suspended, max[s]) + 1 /\ Imsi(s)' \in IMSI
         /\ body' = [body EXCEPT ![s].imsi = Imsi(s)']
         /\ max' = [max EXCEPT ![s] = Largest(suspended, max[s])]
         /\ \A d : AtHand(d)' <=> AtHand(d)
<1> USE DEF StoreInv, TypeInv, TypeOK
<1>1. s \in Request
  BY DEF BatchInv
<1> DEFINE i == Largest(suspended, max[s]) + 1
<1>2. /\ pc' = [pc EXCEPT ![s] = "purgeSubs"]
      /\ body' = [body EXCEPT ![s].imsi = i]
      /\ UNCHANGED <<collections, audit, got, aborted, before>>
      /\ max' = [max EXCEPT ![s] = Largest(suspended, max[s])]
  BY DEF MaxInSuspended
<1>3. pc[s] = "maxSuspended" /\ s \notin aborted /\ i \in IMSI
  BY DEF MaxInSuspended, At
<1> HIDE DEF i
<1>4. ~Picked(s)
  BY <1>1, <1>3 DEF BatchInv
<1>5. Sim' = Sim
  BY <1>2 DEF Sim
<1>6. \A q \in Request : Ended(q)' <=> Ended(q)
  BY <1>1, <1>2, <1>3 DEF Ended, Answer
<1>7. \A q \in Request : Done(q)' <=> Done(q)
  BY <1>1, <1>2, <1>3 DEF Done
<1>8. \A d : AtHand(d)' <=> AtHand(d)
  BY <1>1, <1>2, <1>3 DEF AtHand, collections
<1>9. body'[s] = [body[s] EXCEPT !.imsi = i]
  BY <1>1, <1>2
<1>10. body'[s].op = body[s].op /\ Imsi(s)' = i
  BY <1>1, <1>9 DEF Imsi, Body
<1>11. ~Ended(s)
  BY <1>3 DEF Ended, Answer
<1>12. \A q \in Request : q # s => body'[q] = body[q] /\ pc'[q] = pc[q] /\ before'[q] = before[q]
  BY <1>1, <1>2
<1>13. Ahead(s)
  BY <1>1, <1>2, <1>3, <1>4, <1>5, <1>6, <1>7, <1>10, <1>11, <1>12
     DEF Ahead, Imsi, Ended
<1> QED  BY <1>1, <1>2, <1>3, <1>4, <1>8, <1>10, <1>13 DEF i

LEMMA InitStore == IssueInit => StoreInv
<1> SUFFICES ASSUME IssueInit PROVE StoreInv
  OBVIOUS
<1>1. Init
  BY DEF IssueInit
<1>2. PICK sent \in SUBSET Batch : max = [s \in UNION {Sims(b) : b \in sent} |-> 0]
  BY DEF IssueInit
<1>3. Sim = UNION {Sims(b) : b \in sent}
  BY <1>2 DEF Sim
<1>4. \A b \in Batch : Sims(b) \subseteq Request
  BY IssueAssumption DEF Sims
<1>5. \A b \in sent : b \in Issued
  BY <1>3 DEF Issued
<1>6. \A b \in Batch : \A s \in Sims(b) : s \in Sim => Sims(b) \subseteq Sim
  BY <1>3, IssueAssumption
<1>7. max \in [Sim -> IMSI] /\ Sim \subseteq Request
  BY <1>2, <1>3, <1>4, IssueAssumption DEF NotPicked
<1>8. \A r \in Request : pc[r] = "idle"
  BY <1>1 DEF Init
<1>9. \A s \in Sim : body[s].op = "add" /\ \E b \in Issued : s \in Sims(b)
  BY <1>3, <1>5, <1>7 DEF IssueInit
<1>10. \A r \in Request : ~Picked(r) <=> r \in Sim
  BY DEF IssueInit, Picked, Imsi
<1>11. ASSUME NEW d, AtHand(d) PROVE d.imsi # NotPicked
  <2>1. d \in subs \cup suspended
    BY <1>8, <1>11 DEF AtHand
  <2>2. \A i : NewDoc(i, i).imsi = i /\ Barred(NewDoc(i, i)).imsi = i
    BY DEF NewDoc, Barred
  <2>3. d.imsi \in Seeded
    BY <1>1, <2>1, <2>2 DEF Init
  <2> QED  BY <2>3, IssueAssumption
<1>12. \A b \in Issued : \A k \in DOMAIN b : before[b[k]] = {}
  BY <1>1, IssueAssumption DEF Init, Issued
<1>13. BatchInv
  BY <1>6, <1>7, <1>8, <1>9, <1>10, <1>11, <1>12, IssueAssumption
     DEF BatchInv, Issued, Sims
<1> QED  BY <1>1, <1>13, InitType, InitHistory, InitKeys DEF StoreInv

\* Where SIM s stands in its batch.
LEMMA OneBatch ==
  ASSUME BatchInv, NEW b \in Issued, NEW k \in DOMAIN b, Turn(b[k])
  PROVE  k > 1 => pc[b[k - 1]] = "ok"
<1>1. PICK c \in Batch :
        \E l \in DOMAIN c : c[l] = b[k] /\ (l > 1 => pc[c[l - 1]] = "ok")
  BY DEF Turn
<1>2. PICK l \in DOMAIN c : c[l] = b[k] /\ (l > 1 => pc[c[l - 1]] = "ok")
  BY <1>1
<1>3. c = b
  BY <1>2, IssueAssumption DEF Issued, Sims
<1>4. l = k
  BY <1>2, <1>3, IssueAssumption DEF Issued
<1> QED  BY <1>2, <1>3, <1>4

LEMMA LooksStore ==
  ASSUME StoreInv, NEW s \in Sim, MaxInSubs(s)
  PROVE  StoreInv'
<1> USE DEF StoreInv
<1>1. /\ Ahead(s) /\ UNCHANGED <<collections, audit, body, got, aborted>>
      /\ s \in Request /\ pc[s] = "idle" /\ pc'[s] = "maxSuspended"
      /\ before'[s] = {q \in Request : Ended(q)}
      /\ max' = [max EXCEPT ![s] = Largest(subs, 0)]
      /\ \A d : AtHand(d)' <=> AtHand(d)
  BY LooksAhead
<1>2. /\ pc' = [pc EXCEPT ![s] = "maxSuspended"]
      /\ before' = [before EXCEPT ![s] = {q \in Request : Ended(q)}]
  BY DEF MaxInSubs
<1>3. TypeInv'
  <2>1. TypeOK'
    BY <1>1, <1>2 DEF TypeInv, TypeOK, collections, Call
  <2>2. Routed'
    BY <1>1, <1>2 DEF TypeInv, TypeOK, Routed
  <2> QED  BY <2>1, <2>2 DEF TypeInv
<1>4. \A q \in Request : Ended(q) => Ended(q)'
  BY <1>1 DEF Ahead
<1>5. History'
  <2>1. \A r \in Request : pc'[r] = "idle" => before'[r] = {}
    BY <1>1, <1>2 DEF History, Ahead, TypeInv, TypeOK
  <2>2. \A r \in Request : \A q \in before'[r] : q \in Request /\ Ended(q)'
    BY <1>1, <1>2, <1>4 DEF History, Ahead, TypeInv, TypeOK
  <2>3. \A r \in aborted' : pc'[r] \in Call
    BY <1>1, <1>2 DEF History, TypeInv, TypeOK, Call
  <2>4. \A r \in Request :
          pc'[r] = "insert" => \E d \in Doc : got'[r] = {d} /\ d.imsi = Imsi(r)'
    BY <1>1, <1>2 DEF History, TypeInv, TypeOK, Imsi
  <2> QED  BY <2>1, <2>2, <2>3, <2>4 DEF History
<1>6. KeysInv'
  <2>1. \A d : AtHand(d)' /\ d.id \in Request => body'[d.id].op = "add" /\ Done(d.id)'
    BY <1>1 DEF KeysInv, IdsGivenOut, Ahead
  <2> QED  BY <1>1, <2>1 DEF KeysInv, IdUnique, IdsGivenOut, collections
<1>7. Sim' = Sim /\ Issued' = Issued
  BY <1>1 DEF Ahead, Issued
<1>8. max' \in [Sim -> IMSI]
  <2>1. \A d \in subs : d.imsi \in IMSI
    BY DEF TypeInv, TypeOK, Doc
  <2>2. Largest(subs, 0) \in IMSI
    BY <2>1, LargestIs, IssueAssumption DEF NotPicked
  <2> QED  BY <1>1, <2>2 DEF BatchInv
<1>9. ASSUME NEW b \in Issued, NEW j \in DOMAIN b, NEW k \in DOMAIN b, j < k,
             pc'[b[k]] # "idle"
      PROVE  pc'[b[j]] = "ok" /\ b[j] \in before'[b[k]]
  <2>1. b[j] \in Request /\ b[k] \in Request /\ j \in Nat /\ k \in Nat /\ k - 1 \in DOMAIN b
    BY <1>9, IssueAssumption DEF Issued
  <2>2. CASE b[k] # s
    BY <1>1, <1>9, <2>1, <2>2 DEF Ahead, BatchInv, Ended, Answer
  <2>3. CASE b[k] = s
    <3> Turn(b[k])
      BY <2>3 DEF MaxInSubs
    <3> j >= 1
      BY IssueAssumption DEF Issued
    <3>1. pc[b[k - 1]] = "ok"
      BY <1>9, <2>1, OneBatch
    <3>2. pc[b[j]] = "ok"
      BY <1>9, <2>1, <3>1 DEF BatchInv
    <3> QED  BY <1>1, <2>1, <2>3, <3>2 DEF Ahead, Ended, Answer
  <2> QED  BY <2>2, <2>3
<1>10. \A r \in Request : Imsi(r)' = Imsi(r)
  BY <1>1 DEF Imsi
<1>11. \A r \in Request : ~Picked(r)' <=> r \in Sim /\ pc'[r] \in {"idle", "maxSuspended"}
  BY <1>1, <1>10 DEF BatchInv, Picked, Ahead
<1>12. ASSUME NEW b \in Issued, NEW j \in DOMAIN b, NEW k \in DOMAIN b,
              b[j] \in before'[b[k]]
       PROVE  j < k
  <2>1. b[j] \in Request /\ b[k] \in Request /\ j \in Nat /\ k \in Nat
    BY IssueAssumption DEF Issued
  <2>2. CASE b[k] # s
    BY <1>1, <1>12, <2>1, <2>2 DEF Ahead, BatchInv
  <2>3. CASE b[k] = s
    <3>1. pc[b[j]] # "idle"
      BY <1>1, <1>12, <2>1, <2>3 DEF Ended, Answer, History, Call
    <3> QED  BY <1>1, <2>1, <2>3, <3>1 DEF BatchInv
  <2> QED  BY <2>2, <2>3
<1>13. BatchInv'
  BY <1>1, <1>7, <1>8, <1>9, <1>11, <1>12 DEF BatchInv, Ahead
<1> QED  BY <1>3, <1>5, <1>6, <1>13

LEMMA TakesStore ==
  ASSUME StoreInv, NEW s \in Sim, MaxInSuspended(s)
  PROVE  StoreInv'
<1> USE DEF StoreInv
<1> DEFINE i == Imsi(s)'
<1>1. /\ Ahead(s) /\ UNCHANGED <<collections, audit, got, aborted, before>>
      /\ s \in Request /\ pc[s] = "maxSuspended" /\ pc'[s] = "purgeSubs"
      /\ s \notin aborted
      /\ i = Largest(suspended, max[s]) + 1 /\ i \in IMSI
      /\ body' = [body EXCEPT ![s].imsi = i]
      /\ max' = [max EXCEPT ![s] = Largest(suspended, max[s])]
      /\ \A d : AtHand(d)' <=> AtHand(d)
  BY TakesAhead
<1>2. pc' = [pc EXCEPT ![s] = "purgeSubs"]
  BY DEF MaxInSuspended
<1>3. body[s].op = "add" /\ \A q \in Request : body'[q].op = body[q].op
  BY <1>1 DEF BatchInv, Ahead
<1> HIDE DEF i
<1>4. TypeInv'
  <2>1. body' \in [Request -> Body]
    <3>1. [body[s] EXCEPT !.imsi = i] \in Body
      BY <1>1 DEF TypeInv, TypeOK, Body
    <3> QED  BY <1>1, <3>1 DEF TypeInv, TypeOK
  <2>2. TypeOK'
    BY <1>1, <1>2, <2>1 DEF TypeInv, TypeOK, collections, Call
  <2>3. Routed'
    BY <1>1, <1>2, <1>3 DEF TypeInv, TypeOK, Routed
  <2> QED  BY <2>2, <2>3 DEF TypeInv
<1>5. History'
  <2>1. \A r \in Request : pc'[r] = "idle" => before'[r] = {}
    BY <1>1, <1>2 DEF History, TypeInv, TypeOK
  <2>2. \A r \in Request : \A q \in before'[r] : q \in Request /\ Ended(q)'
    BY <1>1 DEF History, Ahead, TypeInv, TypeOK
  <2>3. \A r \in aborted' : pc'[r] \in Call
    BY <1>1, <1>2 DEF History, TypeInv, TypeOK
  <2>4. \A r \in Request :
          pc'[r] = "insert" => \E d \in Doc : got'[r] = {d} /\ d.imsi = Imsi(r)'
    BY <1>1, <1>2 DEF History, TypeInv, TypeOK, Imsi, Ahead
  <2> QED  BY <2>1, <2>2, <2>3, <2>4 DEF History
<1>6. KeysInv'
  <2>1. \A d : AtHand(d)' /\ d.id \in Request => body'[d.id].op = "add" /\ Done(d.id)'
    BY <1>1 DEF KeysInv, IdsGivenOut, Ahead
  <2> QED  BY <1>1, <2>1 DEF KeysInv, IdUnique, IdsGivenOut, collections
<1>7. Sim' = Sim /\ Issued' = Issued
  BY <1>1 DEF Ahead, Issued
<1>8. i # NotPicked /\ max' \in [Sim -> IMSI]
  <2>1. \A d \in suspended : d.imsi \in IMSI
    BY DEF TypeInv, TypeOK, Doc
  <2>2. max[s] \in IMSI
    BY DEF BatchInv
  <2>3. Largest(suspended, max[s]) \in IMSI
    BY <2>1, <2>2, LargestIs
  <2>4. \A n \in IMSI : n \in Nat
    BY IssueAssumption
  <2> QED  BY <1>1, <2>3, <2>4 DEF BatchInv, NotPicked
<1>9. ASSUME NEW b \in Issued, NEW j \in DOMAIN b, NEW k \in DOMAIN b, j < k,
             pc'[b[k]] # "idle"
      PROVE  pc'[b[j]] = "ok" /\ b[j] \in before'[b[k]]
  <2>1. b[j] \in Request /\ b[k] \in Request
    BY IssueAssumption DEF Issued
  <2> QED  BY <1>1, <1>2, <1>9, <2>1 DEF BatchInv, TypeInv, TypeOK
<1>10. \A r \in Request : ~Picked(r)' <=> r \in Sim /\ pc'[r] \in {"idle", "maxSuspended"}
  <2>1. Picked(s)'
    BY <1>8 DEF Picked, i
  <2>2. \A r \in Request : r # s => (Picked(r)' <=> Picked(r)) /\ pc'[r] = pc[r]
    BY <1>1 DEF Ahead, Picked, Imsi
  <2> QED  BY <1>1, <2>1, <2>2 DEF BatchInv
<1>11. BatchInv'
  BY <1>1, <1>3, <1>7, <1>8, <1>9, <1>10 DEF BatchInv, Ahead
<1> QED  BY <1>4, <1>5, <1>6, <1>11

LEMMA PlainStore ==
  ASSUME StoreInv, NEW p \in Request, Plain(p)
  PROVE  StoreInv'
<1> USE DEF StoreInv
<1>1. /\ Ahead(p) /\ Does(p) /\ body' = body /\ max' = max
      /\ pc'[p] = "maxSuspended" => pc[p] = "maxSuspended"
  BY PlainAhead DEF Plain
<1>2. TypeInv' /\ History' /\ KeysInv'
  BY <1>1, NextType, NextHistory, NextKeys DEF Next, Does
<1>3. Sim' = Sim /\ Issued' = Issued
  BY <1>1 DEF Ahead, Issued
<1>4. \A r \in Request : Imsi(r)' = Imsi(r)
  BY <1>1 DEF Imsi
<1>5. p \in Sim => (pc'[p] \in {"idle", "maxSuspended"} <=> pc[p] \in {"idle", "maxSuspended"})
  BY <1>1, MaxIsApart DEF Ahead, Plain
<1>6. \A r \in Request : ~Picked(r)' <=> r \in Sim /\ pc'[r] \in {"idle", "maxSuspended"}
  BY <1>1, <1>4, <1>5 DEF BatchInv, Picked, Ahead
<1>7. ASSUME NEW d, AtHand(d)' PROVE d.imsi # NotPicked
  <2>1. CASE InsertNew(p) /\ d = NewDoc(p, Imsi(p))
    <3>1. Picked(p)
      BY <2>1 DEF BatchInv, InsertNew, At
    <3> QED  BY <2>1, <3>1 DEF NewDoc, Picked
  <2> QED  BY <1>1, <1>7, <2>1, AtHandFrom DEF BatchInv
<1>8. ASSUME NEW b \in Issued, NEW j \in DOMAIN b, NEW k \in DOMAIN b, j < k,
             pc'[b[k]] # "idle"
      PROVE  pc'[b[j]] = "ok" /\ b[j] \in before'[b[k]]
  <2>1. b[j] \in Request /\ b[k] \in Request /\ b[k] \in Sim
    BY IssueAssumption DEF Issued, Sims
  <2>2. pc[b[k]] # "idle"
    BY <1>1, <1>8, <2>1 DEF Ahead, Plain
  <2> QED  BY <1>1, <1>8, <2>1, <2>2 DEF BatchInv, Ahead, Ended, Answer
<1>9. ASSUME NEW b \in Issued, NEW j \in DOMAIN b, NEW k \in DOMAIN b,
             b[j] \in before'[b[k]]
      PROVE  j < k
  <2>1. b[k] \in Request /\ b[k] \in Sim
    BY IssueAssumption DEF Issued, Sims
  <2>2. before'[b[k]] = before[b[k]]
    BY <1>1, <2>1 DEF Ahead, Plain
  <2> QED  BY <1>9, <2>2 DEF BatchInv
<1>10. BatchInv'
  BY <1>1, <1>3, <1>6, <1>7, <1>8, <1>9 DEF BatchInv, Ahead
<1> QED  BY <1>2, <1>10

-----------------------------------------------------------------------------
(* What runs beside a SIM.                                                        *)

\* Two SIMs of a batch are never in progress together.
LEMMA MateOrder ==
  ASSUME StoreInv, NEW b \in Issued, NEW s \in Sims(b), NEW q \in Sims(b), s # q,
         pc[s] # "idle"
  PROVE  \/ pc[q] = "idle"
         \/ pc[q] = "ok" /\ q \in before[s]
         \/ pc[s] = "ok" /\ s \in before[q]
<1>1. PICK k \in DOMAIN b : s = b[k]
  BY DEF Sims
<1>2. PICK j \in DOMAIN b : q = b[j]
  BY DEF Sims
<1>3. j < k \/ k < j
  BY <1>1, <1>2, IssueAssumption DEF Issued
<1> QED  BY <1>1, <1>2, <1>3 DEF StoreInv, BatchInv

\* Whatever runs beside a SIM remains so.
LEMMA BesideStays ==
  ASSUME StoreInv, NEW p \in Request, Ahead(p), NEW s \in Sim, Picked(s), NEW ops,
         Beside(s, ops)
  PROVE  Beside(s, ops)'
<1>1. s \in Request /\ pc[s] # "idle"
  BY DEF StoreInv, BatchInv
<1>2. PICK q \in Request : /\ \A b \in Issued : s \in Sims(b) => q \notin Sims(b)
                           /\ body[q].op \in ops /\ Imsi(q) = Imsi(s)
                           /\ pc[q] # "idle" /\ ~EndedBefore(q, s)
  BY DEF Beside
<1>3. Picked(q)
  BY <1>2 DEF Picked
<1>4. Issued' = Issued
  BY DEF Ahead, Issued
<1> QED  BY <1>1, <1>2, <1>3, <1>4 DEF Ahead, Beside, EndedBefore

LEMMA UndisturbedBefore ==
  ASSUME StoreInv, NEW p \in Request, Ahead(p), NEW s \in Sim, Picked(s), Undisturbed(s)'
  PROVE  Undisturbed(s)
<1>1. s \in Request /\ pc[s] # "idle"
  BY DEF StoreInv, BatchInv
<1>2. ~Beside(s, {"resume", "add", "remove"})
  BY BesideStays DEF Undisturbed
<1>3. ASSUME NEW q \in Request, Overlap(q, s) PROVE Overlap(q, s)'
  <2>1. pc[q] # "idle" /\ Imsi(q) = Imsi(s) /\ Picked(q)
    BY <1>3 DEF Overlap, NotYet, Same, Picked
  <2> QED  BY <1>1, <1>3, <2>1 DEF Ahead, Overlap, NotYet, Same, EndedBefore
<1>4. ASSUME NEW q \in before[s], Imsi(q) = Imsi(s) PROVE q \in before'[s] /\ Imsi(q)' = Imsi(s)'
  <2>1. q \in Request /\ Picked(q)
    BY <1>1, <1>4 DEF StoreInv, TypeInv, TypeOK, Picked
  <2> QED  BY <1>1, <1>4, <2>1 DEF Ahead
<1>5. before[s] \subseteq Request
  BY <1>1 DEF StoreInv, TypeInv, TypeOK
<1> QED  BY <1>1, <1>2, <1>3, <1>4, <1>5 DEF Undisturbed, Ahead

\* What a request makes of the MSIN that SIM s picks when it runs beside s.
LEMMA BesidePick ==
  ASSUME StoreInv, NEW s \in Sim, MaxInSuspended(s), NEW q \in Request, q # s, NEW ops,
         body[q].op \in ops, Imsi(q) = Imsi(s)', pc[q] # "idle", q \notin before[s]
  PROVE  Beside(s, ops)'
<1>1. /\ Ahead(s) /\ s \in Request /\ pc[s] = "maxSuspended" /\ before' = before
  BY TakesAhead
<1>2. ASSUME NEW b \in Issued, s \in Sims(b) PROVE q \notin Sims(b)
  BY <1>1, <1>2, MateOrder
<1>3. Issued' = Issued
  BY <1>1 DEF Ahead, Issued
<1>4. Imsi(q)' = Imsi(s)' /\ body'[q].op \in ops /\ pc'[q] # "idle"
  BY <1>1 DEF Ahead, Imsi
<1> QED  BY <1>1, <1>2, <1>3, <1>4 DEF Beside, EndedBefore

\* MaxMSIN changes nothing of what is known of a subscriber.
LEMMA LookingKeeps ==
  ASSUME StoreInv, NEW s \in Sim, MaxInSubs(s) \/ MaxInSuspended(s), NEW i, i # NotPicked
  PROVE  /\ Holds(subs, i)' <=> Holds(subs, i)
         /\ Holds(suspended, i)' <=> Holds(suspended, i)
         /\ \A old : Clean(i, old)' <=> Clean(i, old)
         /\ \A k, old : Whole(i, k, old)' <=> Whole(i, k, old)
<1>1. /\ Ahead(s) /\ UNCHANGED <<subs, suspended>> /\ s \in Request
      /\ \A d : AtHand(d)' <=> AtHand(d)
      /\ pc[s] # "delete" /\ pc'[s] # "delete"
  BY LooksAhead, TakesAhead DEF collections
<1>2. \A q \in Request : Midway(q, i)' <=> Midway(q, i)
  BY <1>1 DEF Ahead, Midway, Imsi
<1>3. /\ Holds(subs, i)' <=> Holds(subs, i)
      /\ Holds(suspended, i)' <=> Holds(suspended, i)
  BY <1>1 DEF Holds, Matching
<1> QED  BY <1>1, <1>2, <1>3 DEF Clean, NoneLeft, Whole

-----------------------------------------------------------------------------
(* What the two reads of MaxMSIN have missed.                                     *)

\* A live subscriber beyond what the first read has seen came back beside it.
LookInv ==
  \A s \in Sim : pc[s] = "maxSuspended" =>
    \A i \in IMSI : i > max[s] /\ Holds(subs, i) =>
      \E q \in Request : /\ body[q].op \in {"resume", "add"} /\ Imsi(q) = i
                         /\ pc[q] # "idle" /\ q \notin before[s]

LEMMA NextLook ==
  ASSUME StoreInv, LookInv, [IssueNext]_issueVars
  PROVE  LookInv'
<1> USE DEF StoreInv
<1>1. CASE UNCHANGED issueVars
  BY <1>1 DEF issueVars, vars, collections, LookInv, Sim, Holds, Matching, Imsi
<1>2. ASSUME NEW p \in Request, Ahead(p), NEW s \in Sim, pc'[s] = "maxSuspended",
             pc[s] = "maxSuspended", max'[s] = max[s], NEW i \in IMSI, i > max[s],
             \/ Holds(subs, i)
             \/ /\ Imsi(p) = i /\ pc[p] # "idle" /\ body[p].op \in {"resume", "add"}
      PROVE  \E q \in Request : /\ body'[q].op \in {"resume", "add"} /\ Imsi(q)' = i
                                /\ pc'[q] # "idle" /\ q \notin before'[s]
  <2>1. s \in Request /\ max[s] \in Nat
    BY MsinNat DEF BatchInv
  <2>2. p \notin before[s]
    BY <1>2, <2>1 DEF Ahead, History
  <2>3. PICK q \in Request : /\ body[q].op \in {"resume", "add"} /\ Imsi(q) = i
                             /\ pc[q] # "idle" /\ q \notin before[s]
    BY <1>2, <2>2 DEF LookInv
  <2>4. i # NotPicked
    BY <1>2, <2>1 DEF NotPicked
  <2> QED  BY <1>2, <2>1, <2>3, <2>4 DEF Ahead, Picked
<1>3. ASSUME NEW p \in Request, Plain(p) PROVE LookInv'
  <2>1. /\ Ahead(p) /\ Does(p) /\ body' = body /\ max' = max
        /\ pc'[p] = "maxSuspended" => pc[p] = "maxSuspended"
    BY <1>3, PlainAhead DEF Plain
  <2>2. ASSUME NEW i, Holds(subs, i)', ~Holds(subs, i)
        PROVE  Imsi(p) = i /\ pc[p] # "idle" /\ body[p].op \in {"resume", "add"}
    <3>1. /\ Imsi(p) = i
          /\ \/ pc[p] = "insert" /\ body[p].op = "resume"
             \/ pc[p] = "insertNew"
      BY <2>1, <2>2, HoldsSubs
    <3> QED  BY <3>1 DEF TypeInv, Routed
  <2>3. \A s \in Sim : pc'[s] = "maxSuspended" => pc[s] = "maxSuspended"
    BY <2>1 DEF Ahead, BatchInv
  <2> QED  BY <1>2, <2>1, <2>2, <2>3 DEF LookInv, Ahead
<1>4. ASSUME NEW t \in Sim, MaxInSubs(t) PROVE LookInv'
  <2>1. /\ Ahead(t) /\ t \in Request /\ subs' = subs
        /\ max' = [max EXCEPT ![t] = Largest(subs, 0)]
    BY <1>4, LooksAhead DEF collections
  <2>2. ASSUME NEW i \in IMSI, i > max'[t] PROVE ~Holds(subs, i)
    <3>1. \A d \in subs : d.imsi \in IMSI
      BY DEF TypeInv, TypeOK, Doc
    <3>2. 0 \in IMSI
      BY IssueAssumption DEF NotPicked
    <3>3. /\ Largest(subs, 0) \in IMSI
          /\ \A d \in subs : d.imsi <= Largest(subs, 0)
      BY <3>1, <3>2, LargestIs
    <3>4. max'[t] = Largest(subs, 0)
      BY <2>1 DEF BatchInv
    <3>5. ~(i <= Largest(subs, 0))
      BY <2>2, <3>3, <3>4, MsinNat
    <3> QED  BY <3>3, <3>5 DEF Holds, Matching
  <2>3. \A s \in Sim : s # t => pc'[s] = pc[s] /\ max'[s] = max[s]
    BY <2>1 DEF Ahead, BatchInv
  <2>4. \A i : Holds(subs, i)' <=> Holds(subs, i)
    BY <2>1 DEF Holds, Matching
  <2> QED  BY <1>2, <2>1, <2>2, <2>3, <2>4 DEF LookInv, Ahead
<1>5. ASSUME NEW t \in Sim, MaxInSuspended(t) PROVE LookInv'
  <2>1. /\ Ahead(t) /\ t \in Request /\ subs' = subs /\ pc'[t] = "purgeSubs"
        /\ max' = [max EXCEPT ![t] = Largest(suspended, max[t])]
    BY <1>5, TakesAhead DEF collections
  <2>2. \A s \in Sim : s # t => pc'[s] = pc[s] /\ max'[s] = max[s]
    BY <2>1 DEF Ahead, BatchInv
  <2>3. \A i : Holds(subs, i)' <=> Holds(subs, i)
    BY <2>1 DEF Holds, Matching
  <2> QED  BY <1>2, <2>1, <2>2, <2>3 DEF LookInv, Ahead
<1> QED  BY <1>1, <1>3, <1>4, <1>5, IssueSteps DEF BatchInv

\* Of the subscriber whose MSIN a SIM picks there is no stored document, unless he came
\* back beside it.
LEMMA PickIsFree ==
  ASSUME StoreInv, LookInv, NEW s \in Sim, MaxInSuspended(s)
  PROVE  /\ Imsi(s)' \in IMSI /\ Imsi(s)' # NotPicked
         /\ ~Holds(suspended, Imsi(s)')
         /\ Holds(subs, Imsi(s)') =>
              \E q \in Request : /\ q # s /\ q \notin before[s] /\ pc[q] # "idle"
                                 /\ body[q].op \in {"resume", "add"} /\ Imsi(q) = Imsi(s)'
<1> USE DEF StoreInv
<1> DEFINE i == Imsi(s)'
<1>1. /\ s \in Request /\ pc[s] = "maxSuspended" /\ ~Picked(s)
      /\ i = Largest(suspended, max[s]) + 1 /\ i \in IMSI
  BY TakesAhead
<1>2. max[s] \in IMSI /\ max[s] \in Nat
  BY MsinNat DEF BatchInv
<1>3. \A d \in suspended : d.imsi \in IMSI
  BY DEF TypeInv, TypeOK, Doc
<1>4. /\ Largest(suspended, max[s]) \in Nat /\ max[s] <= Largest(suspended, max[s])
      /\ \A d \in suspended : d.imsi <= Largest(suspended, max[s])
  BY <1>2, <1>3, LargestIs, MsinNat
<1> HIDE DEF i
<1>5. i > max[s] /\ i # NotPicked
  BY <1>1, <1>2, <1>4 DEF NotPicked
<1>6. ~Holds(suspended, i)
  BY <1>1, <1>2, <1>3, <1>4 DEF Holds, Matching
<1>7. Holds(subs, i) =>
        \E q \in Request : /\ body[q].op \in {"resume", "add"} /\ Imsi(q) = i
                           /\ pc[q] # "idle" /\ q \notin before[s]
  BY <1>1, <1>5 DEF LookInv
<1> QED  BY <1>1, <1>5, <1>6, <1>7 DEF i, Picked

-----------------------------------------------------------------------------
(* Each subscriber's life, as long as at most one request has touched him: one of    *)
(* those provisioned at the start is stored until the first add or remove; of any    *)
(* other nothing exists before an add has inserted him, and if that add is all that   *)
(* ever touches him he is stored from then on.                                      *)

Touches(i) == {q \in Request : /\ body[q].op \in {"add", "remove"} /\ Imsi(q) = i
                               /\ pc[q] # "idle"}

Inserted(q) == body[q].op = "add" /\ Done(q)

Life(i) ==
  /\ i \in Seeded /\ Touches(i) = {} => Whole(i, i, {})
  /\ i \notin Seeded /\ (\A q \in Touches(i) : ~Inserted(q)) => Clean(i, {})
  /\ \A s \in Request :
       i \notin Seeded /\ Touches(i) = {s} /\ Inserted(s) => Whole(i, s, {})

LifeInv == \A i \in IMSI \ {NotPicked} : Life(i)

LEMMA InitLife == IssueInit => LifeInv
<1> SUFFICES ASSUME IssueInit, NEW i \in IMSI \ {NotPicked} PROVE Life(i)
  BY DEF LifeInv
<1>1. PICK stashed \in SUBSET Seeded :
        /\ subs = {NewDoc(n, n) : n \in Seeded \ stashed}
        /\ suspended = {Barred(NewDoc(n, n)) : n \in stashed}
  BY DEF IssueInit, Init
<1>2. \A r \in Request : pc[r] = "idle"
  BY DEF IssueInit, Init
<1>3. \A n : /\ NewDoc(n, n).id = n /\ Barred(NewDoc(n, n)).id = n
             /\ NewDoc(n, n).imsi = n /\ Barred(NewDoc(n, n)).imsi = n
  BY DEF NewDoc, Barred
<1>4. \A d : AtHand(d) => d.imsi \in Seeded /\ d.id = d.imsi
  BY <1>1, <1>2, <1>3 DEF AtHand
<1>5. \A q \in Request : ~Midway(q, i)
  BY <1>2 DEF Midway
<1>6. i \in Seeded => Holds(subs, i) \/ Holds(suspended, i)
  BY <1>1, <1>3 DEF Holds, Matching
<1>7. \A s \in Request : ~Inserted(s)
  BY <1>2 DEF Inserted, Done
<1> QED  BY <1>4, <1>5, <1>6, <1>7 DEF Life, Whole, Clean, NoneLeft

LEMMA PlainLife ==
  ASSUME StoreInv, NEW p \in Request, Plain(p), NEW i \in IMSI \ {NotPicked}, Life(i)
  PROVE  Life(i)'
<1> USE DEF StoreInv
<1>1. Ahead(p) /\ Does(p) /\ body' = body
  BY PlainAhead
<1>2. ASSUME NEW q \in Touches(i) PROVE q \in Touches(i)'
  BY <1>1, <1>2 DEF Touches, Ahead, Imsi
<1>3. ASSUME NEW q \in Touches(i)', q # p PROVE q \in Touches(i)
  BY <1>1, <1>3 DEF Touches, Ahead, Imsi
<1>4. \A q \in Request : Inserted(q) => Inserted(q)'
  BY <1>1 DEF Inserted, Ahead
<1>5. Imsi(p) = i /\ pc[p] \in {"purgeSubs", "purgeSuspended", "insertNew"} =>
        p \in Touches(i) /\ ~Inserted(p)
  BY DEF TypeInv, Routed, Touches, Inserted, Done
<1>6. InsertNew(p) /\ Imsi(p) = i => p \in Touches(i)' /\ Inserted(p)' /\ ~Inserted(p)
  <2> SUFFICES ASSUME InsertNew(p), Imsi(p) = i
               PROVE  p \in Touches(i)' /\ Inserted(p)' /\ ~Inserted(p)
    OBVIOUS
  <2>1. pc[p] = "insertNew" /\ body[p].op = "add"
    BY DEF InsertNew, At, TypeInv, Routed
  <2>2. pc'[p] = "audit"
    BY DEF InsertNew, Goto, TypeInv, TypeOK
  <2> QED  BY <1>1, <2>1, <2>2 DEF Touches, Inserted, Done, Imsi
<1>7. ASSUME i \in Seeded, Touches(i)' = {} PROVE Whole(i, i, {})'
  <2>1. Touches(i) = {}
    BY <1>2, <1>7
  <2> QED  BY <1>1, <1>5, <1>7, <2>1, WholeStays DEF Life
<1>8. ASSUME i \notin Seeded, \A q \in Touches(i)' : ~Inserted(q)' PROVE Clean(i, {})'
  <2>1. \A q \in Touches(i) : q \in Request
    BY DEF Touches
  <2>2. Clean(i, {})
    BY <1>2, <1>4, <1>8, <2>1 DEF Life
  <2> QED  BY <1>1, <1>6, <1>8, <2>2, CleanStays
<1>9. ASSUME NEW s \in Request, i \notin Seeded, Touches(i)' = {s}, Inserted(s)'
      PROVE  Whole(i, s, {})'
  <2>1. CASE Inserted(s)
    <3>1. s \in Touches(i)
      BY <1>1, <1>9, <2>1 DEF Touches, Inserted, Done, Imsi
    <3>2. Touches(i) = {s}
      BY <1>2, <1>9, <3>1
    <3> QED  BY <1>1, <1>5, <1>9, <2>1, <3>2, WholeStays DEF Life
  <2>2. CASE ~Inserted(s)
    <3>1. s = p
      BY <1>1, <1>9, <2>2 DEF Inserted, Done, Ahead
    <3>2. InsertNew(s)
      BY <1>1, <1>9, <2>2, <3>1, DoneStays DEF Inserted
    <3>3. \A q \in Touches(i) : ~Inserted(q)
      BY <1>2, <1>9, <2>2
    <3>4. Clean(i, {}) /\ Imsi(s) = i
      BY <1>1, <1>9, <3>3 DEF Life, Touches, Imsi
    <3> QED  BY <3>2, <3>4, CleanStarts
  <2> QED  BY <2>1, <2>2
<1> QED  BY <1>7, <1>8, <1>9 DEF Life

LEMMA LookingLife ==
  ASSUME StoreInv, NEW t \in Sim, MaxInSubs(t) \/ MaxInSuspended(t),
         NEW i \in IMSI \ {NotPicked}, Life(i)
  PROVE  Life(i)'
<1>1. /\ Ahead(t) /\ t \in Request /\ pc[t] \in {"idle", "maxSuspended"}
      /\ pc'[t] \in {"maxSuspended", "purgeSubs"}
  BY LooksAhead, TakesAhead
<1>2. ~Picked(t)
  BY <1>1 DEF StoreInv, BatchInv
<1>3. ASSUME NEW q \in Touches(i) PROVE q \in Touches(i)'
  BY <1>1, <1>2, <1>3 DEF Touches, Ahead, Picked
<1>4. ASSUME NEW q \in Touches(i)', q # t PROVE q \in Touches(i)
  BY <1>1, <1>4 DEF Touches, Ahead, Imsi
<1>5. \A q \in Request : Inserted(q)' <=> Inserted(q)
  BY <1>1 DEF Inserted, Ahead, Done
<1>6. ~Inserted(t)'
  BY <1>1 DEF Inserted, Done
<1>7. Touches(i) \subseteq Request
  BY DEF Touches
<1>8. /\ Touches(i)' = {} => Touches(i) = {}
      /\ (\A q \in Touches(i)' : ~Inserted(q)') => \A q \in Touches(i) : ~Inserted(q)
      /\ \A s \in Request : Touches(i)' = {s} /\ Inserted(s)' => Touches(i) = {s} /\ Inserted(s)
  BY <1>3, <1>4, <1>5, <1>6, <1>7
<1>9. /\ Clean(i, {})' <=> Clean(i, {})
      /\ \A k : Whole(i, k, {})' <=> Whole(i, k, {})
  BY LookingKeeps
<1> QED  BY <1>8, <1>9 DEF Life

LEMMA NextLife ==
  ASSUME StoreInv, LifeInv, [IssueNext]_issueVars
  PROVE  LifeInv'
<1>1. CASE UNCHANGED issueVars
  BY <1>1 DEF issueVars, vars, collections, LifeInv, Life, Touches, Inserted, Done, Whole,
         Clean, NoneLeft, Midway, AtHand, Holds, Matching, Imsi
<1> QED  BY <1>1, PlainLife, LookingLife, IssueSteps DEF LifeInv, StoreInv, BatchInv

-----------------------------------------------------------------------------
(* nextIMSI and the subscribers there are.                                        *)

\* Only a SIM that picks its MSIN has one that it had not.
LEMMA PickedBefore ==
  ASSUME StoreInv, NEW s \in Sim, Picked(s)',
         \/ UNCHANGED issueVars
         \/ \E p \in Request : Plain(p)
         \/ \E t \in Sim : MaxInSubs(t) \/ MaxInSuspended(t)
  PROVE  Picked(s) \/ MaxInSuspended(s)
<1>1. s \in Request
  BY DEF StoreInv, BatchInv
<1>2. CASE UNCHANGED issueVars
  BY <1>2 DEF issueVars, vars, Picked, Imsi
<1>3. ASSUME NEW p \in Request, Plain(p) PROVE Picked(s)
  BY <1>3, PlainAhead DEF Picked, Imsi
<1>4. ASSUME NEW t \in Sim, MaxInSubs(t) PROVE Picked(s)
  BY <1>4, LooksAhead DEF Picked, Imsi
<1>5. ASSUME NEW t \in Sim, MaxInSuspended(t), t # s PROVE Picked(s)
  BY <1>1, <1>5, TakesAhead DEF Picked, Imsi, Ahead
<1> QED  BY <1>2, <1>3, <1>4, <1>5

LEMMA StepAhead ==
  ASSUME StoreInv,
         \/ \E p \in Request : Plain(p)
         \/ \E t \in Sim : MaxInSubs(t) \/ MaxInSuspended(t)
  PROVE  \E p \in Request : Ahead(p)
BY PlainAhead, LooksAhead, TakesAhead

LEMMA NextFresh ==
  ASSUME StoreInv, LookInv, LifeInv, IssueTakesFreshImsi, [IssueNext]_issueVars
  PROVE  IssueTakesFreshImsi'
<1>1. CASE UNCHANGED issueVars
  BY <1>1 DEF issueVars, vars, IssueTakesFreshImsi, Beside, Issued, Sim, EndedBefore, Imsi
<1>2. CASE ~UNCHANGED issueVars
  <2>1. \/ \E p \in Request : Plain(p)
        \/ \E t \in Sim : MaxInSubs(t) \/ MaxInSuspended(t)
    BY <1>2, IssueSteps DEF StoreInv, BatchInv
  <2>2. PICK p \in Request : Ahead(p)
    BY <2>1, StepAhead
  <2> SUFFICES ASSUME NEW s \in Sim, Imsi(s)' \in Seeded,
                      ~(\E q \in before'[s] : /\ body'[q].op \in {"add", "remove"}
                                              /\ Imsi(q)' = Imsi(s)')
               PROVE  Beside(s, {"resume", "add", "remove"})'
    BY <2>2 DEF IssueTakesFreshImsi, Ahead
  <2>3. s \in Request /\ Picked(s)' /\ before[s] \subseteq Request
    BY IssueAssumption DEF StoreInv, BatchInv, Picked, TypeInv, TypeOK
  <2>4. CASE Picked(s)
    <3>1. pc[s] # "idle"
      BY <2>3, <2>4 DEF StoreInv, BatchInv
    <3>2. Imsi(s)' = Imsi(s) /\ before'[s] = before[s]
      BY <2>2, <2>3, <2>4, <3>1 DEF Ahead
    <3>3. ASSUME NEW q \in before[s], body[q].op \in {"add", "remove"}, Imsi(q) = Imsi(s)
          PROVE  FALSE
      <4>1. q \in Request /\ Picked(q)
        BY <2>3, <2>4, <3>3 DEF Picked
      <4> QED  BY <2>2, <3>2, <3>3, <4>1 DEF Ahead
    <3>4. Beside(s, {"resume", "add", "remove"})
      BY <3>2, <3>3 DEF IssueTakesFreshImsi
    <3> QED  BY <2>2, <2>4, <3>4, BesideStays
  <2>5. CASE MaxInSuspended(s)
    <3>1. PICK i : i = Imsi(s)'
      OBVIOUS
    <3>2. before' = before /\ pc[s] = "maxSuspended" /\ Ahead(s) /\ ~Picked(s)
      BY <2>5, TakesAhead
    <3>3. /\ i \in IMSI \ {NotPicked} /\ ~Holds(suspended, i)
          /\ Holds(subs, i) =>
              \E q \in Request : /\ q # s /\ q \notin before[s] /\ pc[q] # "idle"
                                 /\ body[q].op \in {"resume", "add"} /\ Imsi(q) = i
      BY <2>5, <3>1, PickIsFree
    <3>4. CASE Touches(i) = {}
      <4>1. Whole(i, i, {})
        BY <3>1, <3>3, <3>4 DEF LifeInv, Life
      <4>2. PICK q \in Request : /\ q # s /\ q \notin before[s] /\ pc[q] # "idle"
                                 /\ body[q].op \in {"resume", "add"} /\ Imsi(q) = i
        BY <3>3, <4>1 DEF Whole
      <4> QED  BY <2>5, <3>1, <4>2, BesidePick
    <3>5. ASSUME NEW q \in Touches(i)
          PROVE  Beside(s, {"resume", "add", "remove"})'
      <4>1. q \in Request /\ body[q].op \in {"add", "remove"} /\ Imsi(q) = i /\ pc[q] # "idle"
        BY DEF Touches
      <4>2. q # s /\ Picked(q)
        BY <3>2, <3>3, <4>1 DEF Picked
      <4>3. Imsi(q)' = i /\ body'[q].op = body[q].op
        BY <3>2, <4>1, <4>2 DEF Ahead
      <4>4. q \notin before[s]
        BY <3>1, <3>2, <4>1, <4>3
      <4> QED  BY <2>5, <3>1, <4>1, <4>2, <4>4, BesidePick
    <3> QED  BY <3>4, <3>5
  <2> QED  BY <2>1, <2>3, <2>4, <2>5, PickedBefore
<1> QED  BY <1>1, <1>2

\* An issue that picks the IMSI of a SIM stored before it began.
LEMMA PickSeesStored ==
  ASSUME StoreInv, LookInv, LifeInv, IssueTakesFreshImsi, NEW t \in Sim, MaxInSuspended(t),
         NEW s \in Sim, s # t, s \in before[t], Done(s), Imsi(s) = Imsi(t)'
  PROVE  \E q \in Request \ {s, t} : /\ body[q].op \in {"resume", "add", "remove"}
                                     /\ Imsi(q) = Imsi(s) /\ pc[q] # "idle"
<1> USE DEF StoreInv
<1>1. PICK i : i = Imsi(s)
  OBVIOUS
<1>2. s \in Request /\ t \in Request /\ pc[t] = "maxSuspended" /\ ~Picked(t) /\ Inserted(s)
  BY TakesAhead DEF BatchInv, Inserted
<1>3. /\ i \in IMSI \ {NotPicked} /\ ~Holds(suspended, i)
      /\ Holds(subs, i) =>
          \E q \in Request : /\ q # t /\ q \notin before[t] /\ pc[q] # "idle"
                             /\ body[q].op \in {"resume", "add"} /\ Imsi(q) = i
  BY <1>1, PickIsFree
<1>4. s \in Touches(i) /\ t \notin Touches(i)
  BY <1>1, <1>2, <1>3 DEF Touches, Inserted, Done, Picked
<1>5. CASE i \in Seeded /\ Beside(s, {"resume", "add", "remove"})
  <2>1. PICK b \in Issued : s \in Sims(b)
    BY DEF BatchInv
  <2>2. PICK q \in Request : /\ q # s /\ Imsi(q) = i /\ pc[q] # "idle"
                             /\ body[q].op \in {"resume", "add", "remove"}
    BY <1>1, <1>5, <2>1 DEF Beside
  <2>3. q # t
    BY <1>2, <1>3, <2>2 DEF Picked
  <2> QED  BY <1>1, <2>2, <2>3
<1>6. CASE i \in Seeded /\ ~Beside(s, {"resume", "add", "remove"})
  <2>1. PICK q \in before[s] : body[q].op \in {"add", "remove"} /\ Imsi(q) = i
    BY <1>1, <1>6 DEF IssueTakesFreshImsi
  <2>2. q \in Request /\ Ended(q)
    BY <1>2 DEF TypeInv, TypeOK, History
  <2>3. q # s
    <3>1. PICK b \in Issued : s \in Sims(b)
      BY DEF BatchInv
    <3>2. PICK k \in DOMAIN b : s = b[k]
      BY <3>1 DEF Sims
    <3>3. ~(k < k)
      BY IssueAssumption DEF Issued
    <3> QED  BY <2>1, <3>2, <3>3 DEF BatchInv
  <2>4. q # t /\ pc[q] # "idle"
    BY <1>2, <1>3, <2>1, <2>2 DEF Picked, Ended, Answer, History, Call
  <2> QED  BY <1>1, <2>1, <2>2, <2>3, <2>4
<1>7. CASE i \notin Seeded /\ Touches(i) = {s}
  <2>1. Whole(i, s, {})
    BY <1>2, <1>3, <1>7 DEF LifeInv, Life
  <2>2. PICK q \in Request : /\ q # t /\ q \notin before[t] /\ pc[q] # "idle"
                             /\ body[q].op \in {"resume", "add"} /\ Imsi(q) = i
    BY <1>3, <2>1 DEF Whole
  <2> QED  BY <1>1, <2>2
<1>8. CASE \E q \in Touches(i) : q # s
  BY <1>1, <1>4, <1>8 DEF Touches
<1> QED  BY <1>4, <1>5, <1>6, <1>7, <1>8

LEMMA NextStored ==
  ASSUME StoreInv, LookInv, LifeInv, IssueTakesFreshImsi, StoredSimIsSeen,
         [IssueNext]_issueVars
  PROVE  StoredSimIsSeen'
<1> USE DEF StoreInv
<1>1. CASE UNCHANGED issueVars
  BY <1>1 DEF issueVars, vars, StoredSimIsSeen, Same, Sim, EndedBefore, Imsi
<1>2. CASE ~UNCHANGED issueVars
  <2>1. \/ \E p \in Request : Plain(p)
        \/ \E t \in Sim : MaxInSubs(t) \/ MaxInSuspended(t)
    BY <1>2, IssueSteps DEF BatchInv
  <2>2. PICK p \in Request : Ahead(p)
    BY <2>1, StepAhead
  <2> SUFFICES ASSUME NEW s \in Sim, NEW t \in Sim, s # t, Imsi(s)' = Imsi(t)',
                      s \in before'[t], Picked(s)', Done(s)'
               PROVE  \E q \in Request \ {s, t} :
                        /\ body'[q].op \in {"resume", "add", "remove"}
                        /\ Imsi(q)' = Imsi(s)' /\ q # s /\ pc'[q] # "idle"
    BY <2>2 DEF StoredSimIsSeen, Ahead, Same, EndedBefore, Picked, Done
  <2>3. s \in Request /\ t \in Request /\ Picked(t)'
    BY DEF BatchInv, Picked
  <2>4. ASSUME NEW q \in Request \ {s, t}, body[q].op \in {"resume", "add", "remove"},
               Imsi(q) = Imsi(s), pc[q] # "idle", Picked(s)
        PROVE  \E r \in Request \ {s, t} :
                 /\ body'[r].op \in {"resume", "add", "remove"}
                 /\ Imsi(r)' = Imsi(s)' /\ r # s /\ pc'[r] # "idle"
    <3>1. Picked(q)
      BY <2>4 DEF Picked
    <3> QED  BY <2>2, <2>3, <2>4, <3>1 DEF Ahead
  <2>5. Picked(t) \/ MaxInSuspended(t)
    BY <2>1, <2>3, PickedBefore
  <2>6. pc[t] # "idle" /\ before'[t] = before[t]
    <3>1. pc[t] # "idle"
      BY <2>3, <2>5, TakesAhead DEF BatchInv
    <3> QED  BY <2>2, <2>3, <3>1 DEF Ahead
  <2>7. Ended(s) /\ Done(s) /\ Picked(s)
    <3>1. Ended(s)
      BY <2>3, <2>6 DEF History
    <3>2. pc'[s] = pc[s]
      BY <2>2, <2>3, <3>1 DEF Ahead
    <3> QED  BY <2>3, <3>1, <3>2 DEF Done, BatchInv
  <2>8. Imsi(s)' = Imsi(s)
    BY <2>2, <2>3, <2>7 DEF Ahead
  <2>9. CASE Picked(t)
    <3>1. Imsi(t)' = Imsi(t)
      BY <2>2, <2>3, <2>9 DEF Ahead
    <3>2. \E q \in Request \ {s, t} : /\ body[q].op \in {"resume", "add", "remove"}
                                      /\ Same(q, s) /\ pc[q] # "idle"
      BY <2>6, <2>7, <2>8, <2>9, <3>1 DEF StoredSimIsSeen, Same, EndedBefore, Picked, Done
    <3> QED  BY <2>4, <2>7, <3>2 DEF Same
  <2>10. CASE MaxInSuspended(t)
    <3>1. \E q \in Request \ {s, t} : /\ body[q].op \in {"resume", "add", "remove"}
                                      /\ Imsi(q) = Imsi(s) /\ pc[q] # "idle"
      BY <2>6, <2>7, <2>8, <2>10, PickSeesStored
    <3> QED  BY <2>4, <2>7, <3>1
  <2> QED  BY <2>5, <2>9, <2>10
<1> QED  BY <1>1, <1>2

-----------------------------------------------------------------------------
(* The SIMs that nothing disturbs.  Until its insert nothing of such a SIM's IMSI is  *)
(* left by others; from then on it is stored with its keys.  The SIMs behind it in    *)
(* the batch see it, in one collection or the other, and pick a higher IMSI.          *)

SimInv ==
  \A s \in Sim : Picked(s) /\ Undisturbed(s) =>
    /\ ~Done(s) => Clean(Imsi(s), before[s])
    /\ Done(s) => Whole(Imsi(s), s, before[s])

AscendInv ==
  \A b \in Issued : \A j, k \in DOMAIN b :
    j < k /\ Picked(b[j]) /\ Undisturbed(b[j]) =>
      /\ pc[b[k]] = "maxSuspended" =>
           Imsi(b[j]) <= max[b[k]] \/ Holds(suspended, Imsi(b[j]))
      /\ Picked(b[k]) => Imsi(b[j]) < Imsi(b[k])

\* Whoever takes a step is not about to add, remove or resume that IMSI.
LEMMA NobodyElse ==
  ASSUME StoreInv, AscendInv, NEW s \in Sim, Picked(s), Undisturbed(s),
         NEW p \in Request, p # s, ~Ended(p), pc[p] # "idle",
         body[p].op \in {"resume", "add", "remove"}
  PROVE  Imsi(p) # Imsi(s)
<1> SUFFICES ASSUME Imsi(p) = Imsi(s) PROVE FALSE
  OBVIOUS
<1> USE DEF StoreInv
<1>1. s \in Request /\ pc[s] # "idle" /\ Picked(p)
  BY DEF BatchInv, Picked
<1>2. p \notin before[s]
  BY <1>1 DEF History
<1>3. PICK b \in Issued : s \in Sims(b) /\ p \in Sims(b)
  BY <1>2 DEF Undisturbed, Beside, EndedBefore
<1>4. s \in before[p]
  BY <1>1, <1>2, <1>3, MateOrder
<1>5. PICK j \in DOMAIN b : s = b[j]
  BY <1>3 DEF Sims
<1>6. PICK k \in DOMAIN b : p = b[k]
  BY <1>3 DEF Sims
<1>7. j < k
  BY <1>4, <1>5, <1>6 DEF BatchInv
<1>8. Imsi(s) < Imsi(p)
  BY <1>1, <1>5, <1>6, <1>7 DEF AscendInv
<1>9. Imsi(s) \in Nat
  BY <1>1, MsinNat DEF TypeInv, TypeOK, Body, Imsi
<1> QED  BY <1>8, <1>9

\* When it picks its MSIN nobody has a document of that subscriber.
LEMMA PickIsClean ==
  ASSUME StoreInv, LookInv, LifeInv, NEW s \in Sim, MaxInSuspended(s), Undisturbed(s)'
  PROVE  Clean(Imsi(s), before[s])'
<1> USE DEF StoreInv
<1>1. PICK i, old : i = Imsi(s)' /\ old = before[s]
  OBVIOUS
<1>2. /\ before' = before /\ pc[s] = "maxSuspended" /\ Ahead(s) /\ ~Picked(s)
      /\ s \in Request /\ s \notin aborted
  BY TakesAhead
<1>3. /\ i \in IMSI \ {NotPicked} /\ ~Holds(suspended, i)
      /\ Holds(subs, i) =>
           \E q \in Request : /\ q # s /\ q \notin before[s] /\ pc[q] # "idle"
                              /\ body[q].op \in {"resume", "add"} /\ Imsi(q) = i
  BY <1>1, PickIsFree
<1>4. ASSUME NEW q \in Request, q # s, q \notin before[s], pc[q] # "idle", Imsi(q) = i
      PROVE  body[q].op \notin {"resume", "add", "remove"}
  BY <1>1, <1>4, BesidePick DEF Undisturbed
<1>5. ~Holds(subs, i)
  BY <1>3, <1>4
<1>6. CASE \A q \in before'[s] : body'[q].op \in {"add", "remove"} => Imsi(q)' # Imsi(s)'
  <2>1. ASSUME NEW q \in Touches(i) PROVE FALSE
    <3>1. q \in Request /\ body[q].op \in {"add", "remove"} /\ Imsi(q) = i /\ pc[q] # "idle"
      BY DEF Touches
    <3>2. q # s /\ Picked(q)
      BY <1>2, <1>3, <3>1 DEF Picked
    <3>3. Imsi(q)' = i /\ body'[q].op = body[q].op
      BY <1>2, <3>1, <3>2 DEF Ahead
    <3> QED  BY <1>1, <1>2, <1>4, <1>6, <3>1, <3>2, <3>3
  <2>2. Touches(i) = {}
    BY <2>1
  <2>3. Clean(i, {})
    BY <1>3, <1>5, <2>2 DEF LifeInv, Life, Whole
  <2> QED  BY <1>1, <1>2, <1>3, <2>3, LookingKeeps DEF Clean, Midway
<1>7. CASE \A q \in Request : body'[q].op = "suspend" => ~Overlap(q, s)'
  <2>1. ASSUME NEW q \in Request, pc[q] \in {"insert", "delete"}, Imsi(q) = i,
               q \notin before[s]
        PROVE  FALSE
    <3>1. q # s /\ pc[q] # "idle" /\ Picked(q)
      BY <1>2, <1>3, <2>1 DEF Picked
    <3>2. body[q].op = "suspend"
      BY <1>4, <2>1, <3>1 DEF TypeInv, Routed
    <3>3. /\ body'[q].op = "suspend" /\ Imsi(q)' = i /\ pc'[q] # "idle"
          /\ pc'[s] # "idle"
      BY <1>2, <2>1, <3>1, <3>2 DEF Ahead
    <3>4. s \notin before[q]
      BY <1>2 DEF History, Ahead
    <3>5. Overlap(q, s)'
      BY <1>1, <1>2, <2>1, <3>1, <3>3, <3>4 DEF Overlap, Same, NotYet, EndedBefore
    <3> QED  BY <1>7, <3>3, <3>5
  <2>2. ASSUME NEW q \in Request, pc[q] = "insert", q \notin aborted, NEW d \in got[q]
        PROVE  d.imsi # i
    <3>1. q \notin before[s]
      BY <1>2, <2>2 DEF History, Ended, Answer
    <3> QED  BY <2>1, <2>2, <3>1 DEF History
  <2>3. Clean(i, old)
    BY <1>1, <1>3, <1>5, <2>1, <2>2 DEF Clean, NoneLeft, AtHand, Midway, Holds, Matching
  <2> QED  BY <1>1, <1>2, <1>3, <2>3, LookingKeeps
<1> QED  BY <1>6, <1>7 DEF Undisturbed

LEMMA PlainSim ==
  ASSUME StoreInv, SimInv, AscendInv, NEW p \in Request, Plain(p),
         NEW s \in Sim, Picked(s), Undisturbed(s)
  PROVE  /\ ~Done(s)' => Clean(Imsi(s), before[s])'
         /\ Done(s)' => Whole(Imsi(s), s, before[s])'
<1> USE DEF StoreInv
<1>1. Ahead(p) /\ Does(p) /\ body' = body
  BY PlainAhead
<1>2. PICK i, old : i = Imsi(s) /\ old = before[s]
  OBVIOUS
<1>3. /\ s \in Request /\ pc[s] # "idle" /\ Imsi(s)' = i /\ before'[s] = old
      /\ body[s].op = "add"
  BY <1>1, <1>2 DEF BatchInv, Ahead, Imsi
<1>4. p \notin old
  BY <1>1, <1>2, <1>3 DEF Ahead, History
<1>5. ASSUME p # s, Imsi(p) = i PROVE pc[p] \notin {"purgeSubs", "purgeSuspended", "insertNew"}
  <2>1. pc[p] # "idle" => body[p].op \notin {"resume", "add", "remove"}
    BY <1>1, <1>2, <1>5, NobodyElse DEF Ahead
  <2> QED  BY <2>1 DEF TypeInv, Routed
<1>6. ASSUME ~Done(s)' PROVE Clean(i, old)'
  <2>1. Clean(i, old)
    BY <1>1, <1>2, <1>3, <1>6 DEF SimInv, Ahead
  <2>2. ~(InsertNew(p) /\ Imsi(p) = i)
    <3> SUFFICES ASSUME InsertNew(p), Imsi(p) = i PROVE FALSE
      OBVIOUS
    <3>1. p = s
      BY <1>5 DEF InsertNew, At
    <3>2. pc'[s] = "audit"
      BY <3>1 DEF InsertNew, Goto, TypeInv, TypeOK
    <3> QED  BY <1>6, <3>2 DEF Done
  <2> QED  BY <1>1, <2>1, <2>2, CleanStays
<1>7. ASSUME Done(s)' PROVE Whole(i, s, old)'
  <2>1. CASE Done(s)
    <3>1. Whole(i, s, old)
      BY <1>2, <2>1 DEF SimInv
    <3>2. Imsi(p) = i => pc[p] \notin {"purgeSubs", "purgeSuspended", "insertNew"}
      BY <1>5, <2>1 DEF Done
    <3> QED  BY <1>1, <1>4, <3>1, <3>2, WholeStays
  <2>2. CASE ~Done(s)
    <3>1. p = s
      BY <1>1, <1>3, <1>7, <2>2 DEF Ahead, Done
    <3>2. InsertNew(s)
      BY <1>1, <1>3, <1>7, <2>2, <3>1, DoneStays
    <3>3. Clean(i, old)
      BY <1>2, <2>2 DEF SimInv
    <3> QED  BY <1>2, <1>3, <3>2, <3>3, CleanStarts
  <2> QED  BY <2>1, <2>2
<1> QED  BY <1>3, <1>6, <1>7

LEMMA LookingSim ==
  ASSUME StoreInv, SimInv, NEW t \in Sim, MaxInSubs(t) \/ MaxInSuspended(t),
         NEW s \in Sim, Picked(s), Undisturbed(s)
  PROVE  /\ ~Done(s)' => Clean(Imsi(s), before[s])'
         /\ Done(s)' => Whole(Imsi(s), s, before[s])'
<1>1. /\ Ahead(t) /\ t \in Request /\ pc[t] \in {"idle", "maxSuspended"}
  BY LooksAhead, TakesAhead
<1>2. s \in Request /\ pc[s] # "idle" /\ ~Picked(t)
  BY <1>1 DEF StoreInv, BatchInv
<1>3. PICK i, old : i = Imsi(s) /\ old = before[s]
  OBVIOUS
<1>4. Imsi(s)' = i /\ before'[s] = old /\ (Done(s)' <=> Done(s))
  BY <1>1, <1>2, <1>3 DEF Ahead, Done
<1>5. i # NotPicked
  BY <1>3 DEF Picked
<1> QED  BY <1>3, <1>4, <1>5, LookingKeeps DEF SimInv

LEMMA NextSim ==
  ASSUME StoreInv, LookInv, LifeInv, SimInv, AscendInv, [IssueNext]_issueVars
  PROVE  SimInv'
<1>1. CASE UNCHANGED issueVars
  BY <1>1 DEF issueVars, vars, collections, SimInv, Picked, Undisturbed, Beside, Issued, Sim,
         Overlap, NotYet, Same, EndedBefore, Done, Whole, Clean, NoneLeft, Midway,
         AtHand, Holds, Matching, Imsi
<1>2. CASE ~UNCHANGED issueVars
  <2>1. \/ \E p \in Request : Plain(p)
        \/ \E t \in Sim : MaxInSubs(t) \/ MaxInSuspended(t)
    BY <1>2, IssueSteps DEF StoreInv, BatchInv
  <2>2. PICK p \in Request : Ahead(p)
    BY <2>1, StepAhead
  <2> SUFFICES ASSUME NEW s \in Sim, Picked(s)', Undisturbed(s)'
               PROVE  /\ ~Done(s)' => Clean(Imsi(s), before[s])'
                      /\ Done(s)' => Whole(Imsi(s), s, before[s])'
    BY <2>2 DEF SimInv, Ahead
  <2>3. CASE Picked(s)
    <3>1. Undisturbed(s)
      BY <2>2, <2>3, UndisturbedBefore
    <3> QED  BY <2>1, <2>3, <3>1, PlainSim, LookingSim
  <2>4. CASE MaxInSuspended(s)
    <3>1. ~Done(s)'
      BY <2>4, TakesAhead DEF Done
    <3> QED  BY <2>4, <3>1, PickIsClean
  <2> QED  BY <2>1, <2>3, <2>4, PickedBefore
<1> QED  BY <1>1, <1>2

\* A SIM picks a higher MSIN than those before it in the batch.
LEMMA PickAscends ==
  ASSUME StoreInv, AscendInv, NEW b \in Issued, NEW j \in DOMAIN b, NEW k \in DOMAIN b, j < k,
         MaxInSuspended(b[k]), Undisturbed(b[j])
  PROVE  Imsi(b[j]) < Imsi(b[k])' /\ Imsi(b[j])' = Imsi(b[j])
<1> USE DEF StoreInv
<1>1. b[j] \in Sim /\ b[k] \in Sim /\ b[j] \in Request /\ b[k] \in Request /\ b[j] # b[k]
  BY IssueAssumption DEF Issued, Sims
<1>2. /\ pc[b[k]] = "maxSuspended" /\ Ahead(b[k])
      /\ Imsi(b[k])' = Largest(suspended, max[b[k]]) + 1
  BY <1>1, TakesAhead
<1>3. pc[b[j]] = "ok" /\ Picked(b[j])
  BY <1>1, <1>2 DEF BatchInv
<1>4. Imsi(b[j]) <= max[b[k]] \/ Holds(suspended, Imsi(b[j]))
  BY <1>2, <1>3 DEF AscendInv
<1>5. max[b[k]] \in IMSI /\ \A d \in suspended : d.imsi \in IMSI
  BY <1>1 DEF BatchInv, TypeInv, TypeOK, Doc
<1>6. /\ Largest(suspended, max[b[k]]) \in IMSI /\ max[b[k]] <= Largest(suspended, max[b[k]])
      /\ \A d \in suspended : d.imsi <= Largest(suspended, max[b[k]])
  BY <1>5, LargestIs
<1>7. Imsi(b[j]) \in IMSI
  BY <1>1 DEF TypeInv, TypeOK, Body, Imsi
<1>8. Holds(suspended, Imsi(b[j])) => Imsi(b[j]) <= Largest(suspended, max[b[k]])
  BY <1>6 DEF Holds, Matching
<1>9. Imsi(b[j]) \in Nat /\ max[b[k]] \in Nat /\ Largest(suspended, max[b[k]]) \in Nat
  BY <1>5, <1>6, <1>7, MsinNat
<1>10. Imsi(b[j]) <= Largest(suspended, max[b[k]])
  BY <1>4, <1>6, <1>8, <1>9
<1> QED  BY <1>1, <1>2, <1>3, <1>9, <1>10 DEF Ahead

\* What a SIM that looks for its MSIN sees of an earlier one of the batch stays there.
LEMMA LookAscends ==
  ASSUME StoreInv, SimInv, AscendInv, NEW b \in Issued, NEW j \in DOMAIN b,
         NEW k \in DOMAIN b, j < k, Undisturbed(b[j]), pc'[b[k]] = "maxSuspended",
         \/ \E p \in Request : Plain(p)
         \/ \E t \in Sim : MaxInSubs(t) \/ MaxInSuspended(t)
  PROVE  Imsi(b[j])' <= max'[b[k]] \/ Holds(suspended, Imsi(b[j]))'
<1> USE DEF StoreInv
<1> DEFINE s == b[j]
           t == b[k]
<1>1. s \in Sim /\ t \in Sim /\ s \in Request /\ t \in Request /\ s # t
  BY IssueAssumption DEF Issued, Sims
<1>2. PICK i : i = Imsi(s)
  OBVIOUS
<1>3. pc[t] # "idle" => pc[s] = "ok" /\ Picked(s) /\ s \in before[t]
  BY <1>1 DEF BatchInv
<1>4. pc[t] = "maxSuspended" => i <= max[t] \/ Holds(suspended, i)
  BY <1>2, <1>3 DEF AscendInv
<1> HIDE DEF s, t
<1>5. ASSUME NEW p \in Request, Plain(p)
      PROVE  Imsi(s)' <= max'[t] \/ Holds(suspended, Imsi(s))'
  <2>1. /\ Ahead(p) /\ Does(p) /\ body' = body /\ max' = max
        /\ pc'[p] = "maxSuspended" => pc[p] = "maxSuspended"
    BY <1>5, PlainAhead DEF Plain
  <2>2. pc[t] = "maxSuspended"
    BY <1>1, <2>1 DEF Ahead, t
  <2>3. Imsi(s)' = i
    BY <1>2, <2>1 DEF Imsi
  <2>4. ASSUME Holds(suspended, i), ~Holds(suspended, i)' PROVE FALSE
    <3>1. Imsi(p) = i /\ DeletesSuspended(p)
      BY <2>1, <2>4, HoldsSuspended
    <3>2. pc[p] # "idle" /\ body[p].op \in {"resume", "add", "remove"}
      BY <3>1 DEF DeletesSuspended, TypeInv, Routed
    <3>3. p # s
      BY <1>3, <2>2, <3>1 DEF DeletesSuspended
    <3>4. Undisturbed(s)
      BY DEF s
    <3> QED  BY <1>1, <1>2, <1>3, <2>1, <2>2, <3>1, <3>2, <3>3, <3>4, NobodyElse DEF Ahead
  <2> QED  BY <1>4, <2>1, <2>2, <2>3, <2>4 DEF Holds, Matching
<1>6. ASSUME NEW p \in Sim, MaxInSubs(p) \/ MaxInSuspended(p), p # t
      PROVE  Imsi(s)' <= max'[t] \/ Holds(suspended, Imsi(s))'
  <2>1. /\ Ahead(p) /\ p \in Request /\ suspended' = suspended
        /\ max'[t] = max[t]
    BY <1>1, <1>6, LooksAhead, TakesAhead DEF collections, BatchInv
  <2>2. pc[t] = "maxSuspended"
    BY <1>1, <1>6, <2>1 DEF Ahead, t
  <2>3. Imsi(s)' = i
    BY <1>1, <1>2, <1>3, <2>1, <2>2 DEF Ahead
  <2> QED  BY <1>4, <2>1, <2>2, <2>3 DEF Holds, Matching
<1>7. ASSUME MaxInSubs(t)
      PROVE  Imsi(s)' <= max'[t] \/ Holds(suspended, Imsi(s))'
  <2>1. /\ Ahead(t) /\ subs' = subs /\ suspended' = suspended /\ body' = body
        /\ max'[t] = Largest(subs, 0)
    BY <1>1, <1>7, LooksAhead DEF collections, BatchInv
  <2>2. pc[s] = "ok"
    <3>1. StoreInv'
      BY <1>1, <1>7, LooksStore
    <3>2. Issued' = Issued
      BY <2>1 DEF Ahead, Issued
    <3>3. pc'[s] = "ok"
      BY <3>1, <3>2 DEF BatchInv, s, t
    <3> QED  BY <1>1, <2>1, <3>3 DEF Ahead
  <2>3. Whole(i, s, before[s])
    <3>1. Picked(s) /\ Done(s) /\ Undisturbed(s)
      BY <1>1, <2>2 DEF Done, BatchInv, s
    <3> QED  BY <1>1, <1>2, <3>1 DEF SimInv
  <2>4. Imsi(s)' = i
    BY <1>2, <2>1 DEF Imsi
  <2>5. \A d \in subs : d.imsi <= Largest(subs, 0)
    <3>1. 0 \in IMSI /\ \A d \in subs : d.imsi \in IMSI
      BY IssueAssumption DEF TypeInv, TypeOK, Doc, NotPicked
    <3> QED  BY <3>1, LargestIs
  <2>6. Holds(subs, i) => i <= Largest(subs, 0)
    BY <2>5 DEF Holds, Matching
  <2> QED  BY <2>1, <2>3, <2>4, <2>6 DEF Whole, Holds, Matching
<1>8. ~MaxInSuspended(t)
  BY <1>1, TakesAhead DEF t
<1> QED  BY <1>1, <1>5, <1>6, <1>7, <1>8 DEF s, t

LEMMA NextAscend ==
  ASSUME StoreInv, SimInv, AscendInv, [IssueNext]_issueVars
  PROVE  AscendInv'
<1> USE DEF StoreInv
<1>1. CASE UNCHANGED issueVars
  BY <1>1 DEF issueVars, vars, collections, AscendInv, Picked, Undisturbed, Beside, Issued,
         Sim, Overlap, NotYet, Same, EndedBefore, Holds, Matching, Imsi
<1>2. CASE ~UNCHANGED issueVars
  <2>1. \/ \E p \in Request : Plain(p)
        \/ \E t \in Sim : MaxInSubs(t) \/ MaxInSuspended(t)
    BY <1>2, IssueSteps DEF BatchInv
  <2>2. PICK p \in Request : Ahead(p)
    BY <2>1, StepAhead
  <2>3. Issued' = Issued
    BY <2>2 DEF Ahead, Issued
  <2> SUFFICES ASSUME NEW b \in Issued, NEW j \in DOMAIN b, NEW k \in DOMAIN b, j < k,
                      Picked(b[j])', Undisturbed(b[j])'
               PROVE  /\ pc'[b[k]] = "maxSuspended" =>
                           Imsi(b[j])' <= max'[b[k]] \/ Holds(suspended, Imsi(b[j]))'
                      /\ Picked(b[k])' => Imsi(b[j])' < Imsi(b[k])'
    BY <2>3 DEF AscendInv
  <2>4. b[j] \in Sim /\ b[k] \in Sim /\ b[j] \in Request /\ b[k] \in Request /\ b[j] # b[k]
    BY IssueAssumption DEF Issued, Sims
  <2>5. CASE Picked(b[j])
    <3>1. Undisturbed(b[j])
      BY <2>2, <2>4, <2>5, UndisturbedBefore
    <3>2. CASE Picked(b[k])
      <4>1. Imsi(b[j]) < Imsi(b[k])
        BY <2>5, <3>1, <3>2 DEF AscendInv
      <4> QED  BY <2>1, <2>2, <2>4, <2>5, <3>1, <3>2, <4>1, LookAscends DEF Ahead
    <3>3. CASE ~Picked(b[k])
      <4>1. Picked(b[k])' => MaxInSuspended(b[k])
        BY <2>1, <2>4, <3>3, PickedBefore
      <4> QED  BY <2>1, <3>1, <4>1, LookAscends, PickAscends
    <3> QED  BY <3>2, <3>3
  <2>6. CASE MaxInSuspended(b[j])
    <3>1. pc[b[j]] = "maxSuspended" /\ Ahead(b[j])
      BY <2>4, <2>6, TakesAhead
    <3>2. pc[b[k]] = "idle" /\ pc'[b[k]] = "idle"
      BY <2>4, <3>1 DEF Ahead, BatchInv
    <3>3. ~Picked(b[k])'
      BY <2>4, <3>1, <3>2 DEF BatchInv, Ahead, Picked, Imsi
    <3> QED  BY <3>2, <3>3
  <2> QED  BY <2>1, <2>4, <2>5, <2>6, PickedBefore
<1> QED  BY <1>1, <1>2

-----------------------------------------------------------------------------
(* A batch beside which there are only suspends.  No document lies beyond the SIM that *)
(* it has stored last, and none is out of the sight of MaxMSIN, so each SIM takes the   *)
(* MSIN after that of the SIM before.                                                *)

Quiet(b) == \A r \in Request \ Sims(b) : body[r].op = "suspend" \/ pc[r] = "idle"

\* SIM b[k] is the last that batch b has stored.
Last(b, k) == Done(b[k]) /\ \A l \in DOMAIN b : l > k => ~Done(b[l])

BlockInv ==
  \A b \in Issued : Quiet(b) => \A k \in DOMAIN b :
    /\ \A j \in DOMAIN b : j < k /\ Picked(b[k]) => Imsi(b[j]) < Imsi(b[k])
    /\ \A d : AtHand(d) =>
         /\ Picked(b[k]) /\ ~Done(b[k]) => d.imsi < Imsi(b[k])
         /\ Last(b, k) => d.imsi <= Imsi(b[k])
    /\ k > 1 /\ pc[b[k]] = "maxSuspended" => max[b[k]] <= Imsi(b[k - 1])
    /\ k > 1 /\ Picked(b[k]) => Imsi(b[k]) = Imsi(b[k - 1]) + 1

\* The SIMs of a batch and their order.
LEMMA Members ==
  ASSUME StoreInv, NEW b \in Issued, NEW k \in DOMAIN b
  PROVE  /\ b[k] \in Sim /\ b[k] \in Sims(b) /\ b[k] \in Request /\ k \in Nat /\ k >= 1
         /\ k > 1 => k - 1 \in DOMAIN b /\ k - 1 < k
         /\ Imsi(b[k]) \in Nat /\ max[b[k]] \in Nat
         /\ Picked(b[k]) <=> pc[b[k]] \notin {"idle", "maxSuspended"}
<1>1. b[k] \in Sim /\ b[k] \in Sims(b) /\ b[k] \in Request /\ k \in Nat /\ k >= 1
  BY IssueAssumption DEF Issued, Sims
<1>2. k > 1 => k - 1 \in DOMAIN b /\ k - 1 < k
  BY <1>1, IssueAssumption DEF Issued
<1>3. Imsi(b[k]) \in IMSI /\ max[b[k]] \in IMSI
  BY <1>1 DEF StoreInv, TypeInv, TypeOK, Body, Imsi, BatchInv
<1> QED  BY <1>1, <1>2, <1>3, MsinNat DEF StoreInv, BatchInv

\* Whoever adds, removes or resumes beside a quiet batch is one of its SIMs.
LEMMA QuietSims ==
  ASSUME NEW b \in Issued, Quiet(b), NEW q \in Request, pc[q] # "idle",
         body[q].op \in {"resume", "add", "remove"}
  PROVE  \E k \in DOMAIN b : q = b[k]
BY DEF Quiet, Sims

LEMMA QuietUndisturbed ==
  ASSUME StoreInv, BlockInv, NEW b \in Issued, Quiet(b), NEW j \in DOMAIN b, Picked(b[j])
  PROVE  /\ ~Beside(b[j], {"resume", "add", "remove"})
         /\ \A q \in before[b[j]] : body[q].op \in {"add", "remove"} => Imsi(q) # Imsi(b[j])
<1>1. ~Beside(b[j], {"resume", "add", "remove"})
  BY Members, QuietSims DEF Beside, Sims
<1>2. ASSUME NEW q \in before[b[j]], body[q].op \in {"add", "remove"}
      PROVE  Imsi(q) # Imsi(b[j])
  <2>1. q \in Request /\ Ended(q)
    BY Members DEF StoreInv, TypeInv, TypeOK, History
  <2>2. pc[q] # "idle"
    BY <2>1 DEF Ended, Answer, StoreInv, History, Call
  <2>3. PICK i \in DOMAIN b : q = b[i]
    BY <1>2, <2>1, <2>2, QuietSims
  <2>4. i < j
    BY <2>3 DEF StoreInv, BatchInv
  <2>5. Imsi(b[i]) < Imsi(b[j])
    BY <2>4 DEF BlockInv
  <2> QED  BY <2>3, <2>5, Members
<1> QED  BY <1>1, <1>2

\* All that is stored or held is within what a SIM of such a batch sees.
LEMMA StockSeen ==
  ASSUME StoreInv, LookInv, LifeInv, IssueTakesFreshImsi, BlockInv,
         NEW b \in Issued, Quiet(b), NEW k \in DOMAIN b, MaxInSuspended(b[k]),
         NEW d, AtHand(d)
  PROVE  d.imsi < Imsi(b[k])'
<1> USE DEF StoreInv
<1> DEFINE s == b[k]
<1>1. s \in Sim /\ s \in Request
  BY Members
<1>2. PICK i : i = d.imsi
  OBVIOUS
<1>3. d \in Doc
  BY DEF AtHand, TypeInv, TypeOK
<1>4. i \in IMSI \ {NotPicked}
  BY <1>2, <1>3 DEF Doc, BatchInv
<1>5. /\ pc[s] = "maxSuspended" /\ ~Picked(s) /\ ~Ended(s)
      /\ Imsi(s)' = Largest(suspended, max[s]) + 1
  BY <1>1, TakesAhead DEF Ahead
<1>6. Holds(subs, i) \/ Holds(suspended, i)
  <2>1. ~Clean(i, {})
    BY <1>2 DEF Clean, NoneLeft
  <2>2. CASE Touches(i) = {}
    BY <1>4, <2>1, <2>2 DEF LifeInv, Life, Whole
  <2>3. CASE \E q \in Touches(i) : TRUE
    <3>1. \A q \in Touches(i) : /\ q \in Request /\ Imsi(q) = i /\ Picked(q)
                                /\ \E j \in DOMAIN b : q = b[j]
      BY <1>4, QuietSims DEF Touches, Picked
    <3>2. PICK j \in DOMAIN b : b[j] \in Touches(i)
      BY <2>3, <3>1
    <3>3. Touches(i) = {b[j]}
      <4>1. ASSUME NEW q \in Touches(i) PROVE q = b[j]
        <5>1. PICK l \in DOMAIN b : q = b[l]
          BY <3>1
        <5>2. Imsi(b[l]) = i /\ Imsi(b[j]) = i /\ Picked(b[l]) /\ Picked(b[j])
          BY <3>1, <3>2, <5>1
        <5>3. ~(l < j) /\ ~(j < l)
          BY <5>2, Members DEF BlockInv
        <5>4. l \in Nat /\ j \in Nat
          BY Members
        <5> QED  BY <5>1, <5>3, <5>4
      <4> QED  BY <3>2, <4>1
    <3>4. i \notin Seeded
      <4>1. b[j] \in Sim /\ Imsi(b[j]) = i /\ Picked(b[j])
        BY <3>1, <3>2, Members
      <4> QED  BY <4>1, QuietUndisturbed DEF IssueTakesFreshImsi
    <3>5. Inserted(b[j])
      BY <1>4, <2>1, <3>3, <3>4 DEF LifeInv, Life
    <3>6. Whole(i, b[j], {})
      BY <1>4, <3>1, <3>2, <3>3, <3>4, <3>5 DEF LifeInv, Life
    <3> QED  BY <3>6 DEF Whole
  <2> QED  BY <2>2, <2>3
<1>7. max[s] \in IMSI /\ \A e \in suspended : e.imsi \in IMSI
  BY <1>1 DEF BatchInv, TypeInv, TypeOK, Doc
<1>8. /\ Largest(suspended, max[s]) \in IMSI /\ max[s] <= Largest(suspended, max[s])
      /\ \A e \in suspended : e.imsi <= Largest(suspended, max[s])
  BY <1>7, LargestIs
<1>9. ASSUME ~(i <= max[s]), Holds(subs, i) PROVE FALSE
  <2>1. i > max[s]
    BY <1>4, <1>7, <1>9, MsinNat
  <2>2. PICK q \in Request : /\ body[q].op \in {"resume", "add"} /\ Imsi(q) = i
                             /\ pc[q] # "idle" /\ q \notin before[s]
    BY <1>1, <1>4, <1>5, <1>9, <2>1 DEF LookInv
  <2>3. q \in Sims(b) /\ q # s
    BY <1>4, <1>5, <2>2, QuietSims DEF Sims, Picked
  <2>4. s \in Sims(b)
    BY Members
  <2> QED  BY <1>1, <1>5, <2>2, <2>3, <2>4, MateOrder
<1>10. i <= Largest(suspended, max[s])
  <2>1. Holds(suspended, i) => i <= Largest(suspended, max[s])
    BY <1>8 DEF Holds, Matching
  <2>2. i \in Nat /\ max[s] \in Nat /\ Largest(suspended, max[s]) \in Nat
    BY <1>4, <1>7, <1>8, MsinNat
  <2> QED  BY <1>6, <1>8, <1>9, <2>1, <2>2
<1>11. i \in Nat /\ Largest(suspended, max[s]) \in Nat
  BY <1>4, <1>8, MsinNat
<1> QED  BY <1>2, <1>5, <1>10, <1>11

\* The bound on the documents, in a step of SubscriberStore.
LEMMA PlainBound ==
  ASSUME StoreInv, BlockInv, NEW p \in Request, Plain(p), NEW b \in Issued, Quiet(b),
         NEW k \in DOMAIN b, Picked(b[k]), NEW d, AtHand(d)'
  PROVE  /\ ~Done(b[k])' => d.imsi < Imsi(b[k])
         /\ Last(b, k)' => d.imsi <= Imsi(b[k])
<1> USE DEF StoreInv
<1> DEFINE s == b[k]
<1>1. Ahead(p) /\ Does(p) /\ body' = body
  BY PlainAhead
<1>2. /\ s \in Request /\ s \in Sims(b) /\ pc[s] # "idle" /\ Imsi(s) \in Nat /\ k \in Nat
      /\ \A l \in DOMAIN b : b[l] \in Request
  BY Members
<1>3. \A l \in DOMAIN b : Done(b[l]) => Done(b[l])'
  BY <1>1, <1>2 DEF Ahead
<1>4. ASSUME InsertNew(p)
      PROVE  \E l \in DOMAIN b : p = b[l]
  <2>1. pc[p] = "insertNew" /\ body[p].op = "add"
    BY <1>4 DEF InsertNew, At, TypeInv, Routed
  <2> QED  BY <2>1, QuietSims
<1>5. InsertNew(p) => Done(p)' /\ ~Done(p) /\ pc[p] \notin {"idle", "ok"}
  BY DEF InsertNew, At, Goto, TypeInv, TypeOK, Done
<1>6. (\E e : AtHand(e) /\ e.imsi = d.imsi) \/ (InsertNew(p) /\ d.imsi = Imsi(p))
  BY <1>1, AtHandFrom DEF NewDoc
<1>7. ASSUME ~Done(s)' PROVE d.imsi < Imsi(s)
  <2>1. ~InsertNew(p)
    <3> SUFFICES ASSUME InsertNew(p) PROVE FALSE
      OBVIOUS
    <3>1. p # s /\ p \in Sims(b)
      BY <1>4, <1>5, <1>7 DEF Sims
    <3> QED  BY <1>1, <1>2, <1>3, <1>5, <1>7, <3>1, MateOrder DEF Done, Ahead
  <2> QED  BY <1>3, <1>6, <1>7, <2>1 DEF BlockInv
<1>8. ASSUME Last(b, k)' PROVE d.imsi <= Imsi(s)
  <2>1. Done(s)' /\ \A l \in DOMAIN b : l > k => ~Done(b[l])'
    BY <1>8 DEF Last
  <2>2. CASE Done(s)
    <3>1. Last(b, k)
      BY <1>3, <2>1, <2>2 DEF Last
    <3>2. ~InsertNew(p)
      <4> SUFFICES ASSUME InsertNew(p) PROVE FALSE
        OBVIOUS
      <4>1. PICK l \in DOMAIN b : p = b[l]
        BY <1>4
      <4>2. l < k
        BY <1>2, <1>5, <2>1, <2>2, <4>1, Members
      <4> QED  BY <1>2, <1>5, <4>1, <4>2 DEF BatchInv
    <3> QED  BY <1>6, <3>1, <3>2 DEF BlockInv
  <2>3. CASE ~Done(s)
    <3>1. p = s
      BY <1>1, <1>2, <2>1, <2>3 DEF Done, Ahead
    <3>2. \A e : AtHand(e) => e.imsi < Imsi(s)
      BY <2>3 DEF BlockInv
    <3>3. \A e : AtHand(e) => e.imsi \in Nat
      <4>1. \A e : AtHand(e) => e \in Doc
        BY DEF AtHand, TypeInv, TypeOK
      <4> QED  BY <4>1, MsinNat DEF Doc
    <3> QED  BY <1>2, <1>6, <3>1, <3>2, <3>3
  <2> QED  BY <2>2, <2>3
<1> QED  BY <1>7, <1>8

\* A SIM that picks its MSIN takes the one after the SIM before it.
LEMMA PickFollows ==
  ASSUME StoreInv, AscendInv, BlockInv, NEW b \in Issued, Quiet(b),
         NEW k \in DOMAIN b, MaxInSuspended(b[k])
  PROVE  /\ \A j \in DOMAIN b : j < k => Imsi(b[j])' < Imsi(b[k])'
         /\ k > 1 => Imsi(b[k])' = Imsi(b[k - 1])' + 1
<1> USE DEF StoreInv
<1> DEFINE s == b[k]
<1>1. /\ pc[s] = "maxSuspended" /\ Imsi(s)' = Largest(suspended, max[s]) + 1
  BY Members, TakesAhead
<1>2. ASSUME NEW j \in DOMAIN b, j < k
      PROVE  Imsi(b[j]) < Imsi(s)' /\ Imsi(b[j])' = Imsi(b[j])
  <2>1. Picked(b[j])
    BY <1>1, <1>2, Members DEF BatchInv
  <2>2. Undisturbed(b[j])
    BY <2>1, QuietUndisturbed DEF Undisturbed
  <2> QED  BY <1>2, <2>2, PickAscends
<1>3. ASSUME k > 1 PROVE Imsi(s)' = Imsi(b[k - 1])' + 1
  <2>1. k - 1 \in DOMAIN b /\ k - 1 < k
    BY <1>3, Members
  <2>2. pc[b[k - 1]] = "ok"
    BY <1>1, <2>1 DEF BatchInv
  <2>3. ASSUME NEW l \in DOMAIN b, l > k - 1, Done(b[l]) PROVE FALSE
    <3>1. l \in Nat /\ k \in Nat
      BY Members
    <3>2. l = k \/ k < l
      BY <2>3, <3>1
    <3> QED  BY <1>1, <2>3, <3>2, Members DEF BatchInv, Done
  <2>4. Last(b, k - 1)
    BY <2>2, <2>3 DEF Last, Done
  <2>5. \A d \in suspended : d.imsi <= Imsi(b[k - 1])
    BY <2>1, <2>4 DEF BlockInv, AtHand
  <2>6. max[s] <= Imsi(b[k - 1])
    BY <1>1, <1>3 DEF BlockInv
  <2>7. max[s] \in IMSI /\ \A d \in suspended : d.imsi \in IMSI
    BY Members DEF BatchInv, TypeInv, TypeOK, Doc
  <2>8. Imsi(b[k - 1]) \in Nat
    BY <2>1, Members
  <2>9. Largest(suspended, max[s]) <= Imsi(b[k - 1]) /\ Largest(suspended, max[s]) \in Nat
    BY <2>5, <2>6, <2>7, <2>8, LargestIs, MsinNat
  <2>10. Imsi(b[k - 1]) < Imsi(s)' /\ Imsi(b[k - 1])' = Imsi(b[k - 1])
    BY <1>2, <2>1
  <2> QED  BY <1>1, <2>8, <2>9, <2>10
<1> QED  BY <1>2, <1>3

\* The first read of MaxMSIN sees no MSIN beyond the SIM before.
LEMMA LookFollows ==
  ASSUME StoreInv, BlockInv, NEW b \in Issued, Quiet(b), NEW k \in DOMAIN b, k > 1,
         MaxInSubs(b[k])
  PROVE  max'[b[k]] <= Imsi(b[k - 1])
<1> USE DEF StoreInv
<1> DEFINE s == b[k]
<1>1. pc[s] = "idle" /\ max'[s] = Largest(subs, 0) /\ Turn(s)
  BY Members, LooksAhead DEF BatchInv, MaxInSubs
<1>2. pc[b[k - 1]] = "ok"
  BY <1>1, OneBatch
<1>3. k - 1 \in DOMAIN b /\ Imsi(b[k - 1]) \in Nat
  BY Members
<1>4. ASSUME NEW l \in DOMAIN b, l > k - 1, Done(b[l]) PROVE FALSE
  <2>1. l \in Nat /\ k \in Nat
    BY Members
  <2>2. l = k \/ k < l
    BY <1>4, <2>1
  <2> QED  BY <1>1, <1>4, <2>2, Members DEF BatchInv, Done
<1>5. Last(b, k - 1)
  BY <1>2, <1>4 DEF Last, Done
<1>6. \A d \in subs : d.imsi <= Imsi(b[k - 1])
  BY <1>3, <1>5 DEF BlockInv, AtHand
<1>7. 0 \in IMSI /\ \A d \in subs : d.imsi \in IMSI
  BY IssueAssumption DEF TypeInv, TypeOK, Doc, NotPicked
<1> QED  BY <1>1, <1>3, <1>6, <1>7, LargestIs

LEMMA NextBlock ==
  ASSUME StoreInv, LookInv, LifeInv, IssueTakesFreshImsi, AscendInv, BlockInv,
         [IssueNext]_issueVars
  PROVE  BlockInv'
<1> USE DEF StoreInv
<1>1. CASE UNCHANGED issueVars
  BY <1>1 DEF issueVars, vars, collections, BlockInv, Quiet, Last, Picked, Issued, Sim, Done,
         AtHand, Imsi
<1>2. CASE ~UNCHANGED issueVars
  <2>1. \/ \E p \in Request : Plain(p)
        \/ \E t \in Sim : MaxInSubs(t) \/ MaxInSuspended(t)
    BY <1>2, IssueSteps DEF BatchInv
  <2>2. PICK p \in Request : Ahead(p)
    BY <2>1, StepAhead
  <2>3. Issued' = Issued
    BY <2>2 DEF Ahead, Issued
  <2> SUFFICES ASSUME NEW b \in Issued, Quiet(b)', NEW k \in DOMAIN b
               PROVE  /\ \A j \in DOMAIN b : j < k /\ Picked(b[k])' =>
                           Imsi(b[j])' < Imsi(b[k])'
                      /\ \A d : AtHand(d)' =>
                           /\ Picked(b[k])' /\ ~Done(b[k])' => d.imsi < Imsi(b[k])'
                           /\ Last(b, k)' => d.imsi <= Imsi(b[k])'
                      /\ k > 1 /\ pc'[b[k]] = "maxSuspended" => max'[b[k]] <= Imsi(b[k - 1])'
                      /\ k > 1 /\ Picked(b[k])' => Imsi(b[k])' = Imsi(b[k - 1])' + 1
    BY <2>3 DEF BlockInv
  <2> DEFINE s == b[k]
  <2>4. Quiet(b)
    BY <2>2 DEF Quiet, Ahead
  <2>5. s \in Sim /\ s \in Request
    BY Members
  <2>6. \A j \in DOMAIN b : /\ b[j] \in Sim /\ b[j] \in Request
                            /\ Picked(b[j]) => Imsi(b[j])' = Imsi(b[j])
                            /\ j < k /\ pc[s] # "idle" => pc[b[j]] = "ok" /\ Picked(b[j])
    BY <2>2, Members DEF Ahead, BatchInv
  <2>7. Picked(s)' => Picked(s) \/ MaxInSuspended(s)
    BY <2>1, <2>5, PickedBefore
  <2>8. Picked(s) => pc[s] # "idle"
    BY <2>5 DEF BatchInv
  <2>9. k > 1 => k - 1 \in DOMAIN b /\ k - 1 < k
    BY Members
  <2>10. Picked(s)' =>
           /\ \A j \in DOMAIN b : j < k => Imsi(b[j])' < Imsi(s)'
           /\ k > 1 => Imsi(s)' = Imsi(b[k - 1])' + 1
    <3>1. CASE Picked(s)
      <4>1. Imsi(s)' = Imsi(s) /\ \A j \in DOMAIN b : j < k => Imsi(b[j])' = Imsi(b[j])
        BY <2>6, <2>8, <3>1
      <4>2. /\ \A j \in DOMAIN b : j < k => Imsi(b[j]) < Imsi(s)
            /\ k > 1 => Imsi(s) = Imsi(b[k - 1]) + 1
        BY <2>4, <3>1 DEF BlockInv
      <4> QED  BY <2>9, <4>1, <4>2
    <3>2. CASE MaxInSuspended(s)
      BY <2>4, <3>2, PickFollows
    <3> QED  BY <2>7, <3>1, <3>2
  <2>11. ASSUME k > 1, pc'[s] = "maxSuspended" PROVE max'[s] <= Imsi(b[k - 1])'
    <3>1. CASE MaxInSubs(s)
      <4>1. body' = body
        BY <2>5, <3>1, LooksAhead
      <4> QED  BY <2>4, <3>1, <4>1, <1>2, <2>11, LookFollows DEF Imsi
    <3>2. CASE ~MaxInSubs(s)
      <4>1. pc[s] = "maxSuspended" /\ max'[s] = max[s]
        <5>1. ASSUME NEW q \in Request, Plain(q) PROVE pc[s] = "maxSuspended" /\ max'[s] = max[s]
          BY <2>5, <2>11, <5>1, PlainAhead DEF Plain, Ahead
        <5>2. ASSUME NEW t \in Sim, MaxInSubs(t) PROVE pc[s] = "maxSuspended" /\ max'[s] = max[s]
          BY <2>5, <2>11, <3>2, <5>2, LooksAhead DEF Ahead, BatchInv
        <5>3. ASSUME NEW t \in Sim, MaxInSuspended(t)
              PROVE  pc[s] = "maxSuspended" /\ max'[s] = max[s]
          BY <2>5, <2>11, <5>3, TakesAhead DEF Ahead, BatchInv
        <5> QED  BY <2>1, <5>1, <5>2, <5>3
      <4>2. max[s] <= Imsi(b[k - 1])
        BY <2>4, <2>11, <4>1 DEF BlockInv
      <4> QED  BY <2>6, <2>9, <2>11, <4>1, <4>2
    <3> QED  BY <3>1, <3>2
  <2>12. ASSUME NEW d, AtHand(d)'
         PROVE  /\ Picked(s)' /\ ~Done(s)' => d.imsi < Imsi(s)'
                /\ Last(b, k)' => d.imsi <= Imsi(s)'
    <3>1. ASSUME NEW q \in Request, Plain(q)
          PROVE  /\ Picked(s)' /\ ~Done(s)' => d.imsi < Imsi(s)'
                 /\ Last(b, k)' => d.imsi <= Imsi(s)'
      <4>1. body' = body /\ Ahead(q) /\ StoreInv'
        BY <3>1, PlainAhead, PlainStore
      <4>2. (Picked(s)' <=> Picked(s)) /\ Imsi(s)' = Imsi(s)
        BY <4>1 DEF Picked, Imsi
      <4>3. Last(b, k)' => Picked(s)'
        BY <2>5, <4>1 DEF Last, Done, BatchInv
      <4> QED  BY <2>4, <2>12, <3>1, <4>2, <4>3, PlainBound
    <3>2. ASSUME NEW t \in Sim, MaxInSubs(t) \/ MaxInSuspended(t)
          PROVE  /\ Picked(s)' /\ ~Done(s)' => d.imsi < Imsi(s)'
                 /\ Last(b, k)' => d.imsi <= Imsi(s)'
      <4>1. /\ Ahead(t) /\ t \in Request /\ AtHand(d)
            /\ pc[t] \in {"idle", "maxSuspended"} /\ pc'[t] \in {"maxSuspended", "purgeSubs"}
        BY <2>12, <3>2, LooksAhead, TakesAhead
      <4>2. \A l \in DOMAIN b : Done(b[l])' <=> Done(b[l])
        BY <2>6, <4>1 DEF Ahead, Done
      <4>3. Last(b, k)' <=> Last(b, k)
        BY <4>2 DEF Last
      <4>4. Last(b, k) => Picked(s)
        BY <2>5 DEF Last, Done, BatchInv
      <4>5. Picked(s) => /\ ~Done(s) => d.imsi < Imsi(s)
                         /\ Last(b, k) => d.imsi <= Imsi(s)
        BY <2>4, <4>1 DEF BlockInv
      <4>6. MaxInSuspended(s) => d.imsi < Imsi(s)'
        BY <2>4, <4>1, StockSeen
      <4> QED  BY <2>6, <2>7, <4>2, <4>3, <4>4, <4>5, <4>6
    <3> QED  BY <2>1, <3>1, <3>2
  <2> QED  BY <2>10, <2>11, <2>12
<1> QED  BY <1>1, <1>2

-----------------------------------------------------------------------------
IssueInv ==
  /\ StoreInv /\ LookInv /\ LifeInv /\ IssueTakesFreshImsi /\ StoredSimIsSeen
  /\ SimInv /\ AscendInv /\ BlockInv

LEMMA IssueHolds == IssueSpec => []IssueInv
<1>1. IssueInit => IssueInv
  <2> SUFFICES ASSUME IssueInit PROVE IssueInv
    OBVIOUS
  <2>1. StoreInv /\ LifeInv
    BY InitStore, InitLife
  <2>2. \A r \in Request : pc[r] = "idle" /\ before[r] = {}
    BY DEF IssueInit, Init
  <2>3. \A s \in Sim : s \in Request /\ pc[s] = "idle" /\ ~Picked(s) /\ ~Done(s)
    BY <2>1, <2>2 DEF StoreInv, BatchInv, Done
  <2>4. \A b \in Issued : \A k \in DOMAIN b : b[k] \in Sim
    BY DEF Issued, Sims
  <2>5. LookInv /\ SimInv /\ AscendInv
    BY <2>3, <2>4 DEF LookInv, SimInv, AscendInv
  <2>6. IssueTakesFreshImsi
    BY <2>3, IssueAssumption DEF IssueTakesFreshImsi, Picked
  <2>7. StoredSimIsSeen
    BY <2>3 DEF StoredSimIsSeen, Picked
  <2>8. BlockInv
    BY <2>3, <2>4 DEF BlockInv, Last
  <2> QED  BY <2>1, <2>5, <2>6, <2>7, <2>8 DEF IssueInv
<1>2. IssueInv /\ [IssueNext]_issueVars => IssueInv'
  <2> SUFFICES ASSUME IssueInv, [IssueNext]_issueVars PROVE IssueInv'
    OBVIOUS
  <2>1. /\ StoreInv /\ LookInv /\ LifeInv /\ IssueTakesFreshImsi /\ StoredSimIsSeen
        /\ SimInv /\ AscendInv /\ BlockInv
    BY DEF IssueInv
  <2>2. StoreInv'
    <3>1. CASE UNCHANGED issueVars
      BY <2>1, <3>1 DEF issueVars, vars, collections, StoreInv, TypeInv, TypeOK, Routed,
             History, KeysInv, IdUnique, IdsGivenOut, AtHand, BatchInv, Picked, Done, Ended,
             Imsi, Sim, Issued
    <3>2. Sim \subseteq Request
      BY <2>1 DEF StoreInv, BatchInv
    <3> QED  BY <2>1, <3>1, <3>2, IssueSteps, PlainStore, LooksStore, TakesStore
  <2>3. LookInv'
    BY <2>1, NextLook
  <2>4. LifeInv'
    BY <2>1, NextLife
  <2>5. IssueTakesFreshImsi'
    BY <2>1, NextFresh
  <2>6. StoredSimIsSeen'
    BY <2>1, NextStored
  <2>7. SimInv'
    BY <2>1, NextSim
  <2>8. AscendInv'
    BY <2>1, NextAscend
  <2>9. BlockInv'
    BY <2>1, NextBlock
  <2> QED  BY <2>2, <2>3, <2>4, <2>5, <2>6, <2>7, <2>8, <2>9 DEF IssueInv
<1> QED  BY <1>1, <1>2, PTL DEF IssueSpec

\* Every SIM past nextIMSI has an MSIN that may be issued, and so has every document.
THEOREM IssueTypes == IssueSpec => []IssueTypeOK
<1>1. ASSUME IssueInv PROVE IssueTypeOK
  <2> USE <1>1 DEF IssueInv, StoreInv, TypeInv, TypeOK
  <2>1. \A d \in subs : d \in Doc /\ d.imsi # NotPicked
    BY DEF BatchInv, AtHand
  <2>2. subs \in SUBSET [id: DocId, imsi: IMSI \ {NotPicked}, status: {0, 1}, odb: {0, 1},
                         rcl: BOOLEAN, ambr: Ambr, ip: Ip \cup {NoIp},
                         last: Changes \cup {"none"}]
    BY <2>1 DEF Doc
  <2>3. \A s \in Sim : max[s] \in IMSI /\ s \in Request
    BY DEF BatchInv
  <2>4. \A s \in Sim : Imsi(s) = NotPicked <=> pc[s] \in {"idle", "maxSuspended"}
    BY <2>3 DEF BatchInv, Picked
  <2> QED  BY <2>2, <2>3, <2>4 DEF IssueTypeOK
<1> QED  BY <1>1, IssueHolds, PTL

\* nextIMSI never picks the MSIN of a subscriber who has been there all along, unless a
\* resume or a replacement of that very subscriber runs beside it or has gone before.
THEOREM PicksFresh == IssueSpec => []IssueTakesFreshImsi
<1>1. IssueInv => IssueTakesFreshImsi
  BY DEF IssueInv
<1> QED  BY <1>1, IssueHolds, PTL

\* Once a SIM is stored, no issue that begins later picks its IMSI, unless somebody adds,
\* removes or resumes that subscriber.
THEOREM StoredIsSeen == IssueSpec => []StoredSimIsSeen
<1>1. IssueInv => StoredSimIsSeen
  BY DEF IssueInv
<1> QED  BY <1>1, IssueHolds, PTL

\* The SIMs of a batch ascend, however long it is, from every SIM that nothing disturbs.
THEOREM Ascends == IssueSpec => []BatchAscends
<1>1. ASSUME IssueInv PROVE BatchAscends
  <2> SUFFICES ASSUME NEW b \in Issued, NEW j \in DOMAIN b, NEW k \in DOMAIN b, j < k,
                      Picked(b[k]), Undisturbed(b[j])
               PROVE  Imsi(b[j]) < Imsi(b[k])
    BY DEF BatchAscends, Picked
  <2> USE <1>1 DEF IssueInv
  <2>1. Picked(b[j])
    BY Members DEF StoreInv, BatchInv
  <2> QED  BY <2>1 DEF AscendInv
<1> QED  BY <1>1, IssueHolds, PTL

\* A batch beside which nothing is stored or removed is a contiguous block, of any length.
THEOREM Contiguous == IssueSpec => []ContiguousAlone
<1>1. ASSUME IssueInv PROVE ContiguousAlone
  BY <1>1 DEF ContiguousAlone, IssueInv, BlockInv, Quiet, Picked
<1> QED  BY <1>1, IssueHolds, PTL

\* The store holds the keys that an answered batch has given out, for every SIM that
\* nothing disturbs.
THEOREM KeysKept == IssueSpec => []IssuedKeysKept
<1>1. ASSUME IssueInv PROVE IssuedKeysKept
  <2> SUFFICES ASSUME NEW b \in Issued, NEW s \in Sims(b), pc[s] = "ok", Undisturbed(s)
               PROVE  \E d \in Shown(Imsi(s)) : d.id = s
    BY DEF IssuedKeysKept, Answered
  <2> USE <1>1 DEF IssueInv
  <2>1. s \in Sim /\ Picked(s) /\ Done(s)
    BY DEF Issued, StoreInv, BatchInv, Done
  <2>2. Whole(Imsi(s), s, before[s])
    BY <2>1 DEF SimInv
  <2> QED  BY <2>2 DEF Whole, Shown, Holds, Matching, AtHand
<1> QED  BY <1>1, IssueHolds, PTL
==============================================================================
