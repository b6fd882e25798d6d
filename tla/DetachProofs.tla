------------------------------ MODULE DetachProofs ------------------------------
(***************************************************************************)
(* What a change of a document does to a live session, proved for any sets  *)
(* of subscribers, requests, plans and addresses: no signal is lost, late   *)
(* or wrong in an order of calls, polls, messages and attaches that no      *)
(* small instance has.                                                      *)
(***************************************************************************)
EXTENDS LiveDetach, AnswerProofs, ReplaceProofs

\* HSS, MME and UE only look at the store: with them beside it, it behaves as alone,
\* and all that is proved of it alone holds.
THEOREM DetachKeepsStore == DetachSafety => Spec
<1>1. DetachInit => Init
  BY DEF DetachInit
<1>2. [DetachNext]_detachVars => [Next]_vars
  BY DEF DetachNext, detachVars, StoreStep, Poll, CancelLocation, InsertSubscriberData,
         Attach, AttachAccept, AttachReject, Next
<1> QED  BY <1>1, <1>2, PTL DEF DetachSafety, Spec

-----------------------------------------------------------------------------
(* Queues.                                                                       *)

Has(s, x) == \E n \in DOMAIN s : s[n] = x

LEMMA AppendHas ==
  ASSUME NEW S, NEW s \in Seq(S), NEW x \in S
  PROVE  /\ Append(s, x) \in Seq(S)
         /\ \A y : Has(Append(s, x), y) <=> Has(s, y) \/ y = x
<1>1. Append(s, x) \in Seq(S) /\ Len(Append(s, x)) = Len(s) + 1
  OBVIOUS
<1>2. /\ \A n \in 1..Len(s) : Append(s, x)[n] = s[n]
      /\ Append(s, x)[Len(s) + 1] = x
  OBVIOUS
<1>3. DOMAIN s = 1..Len(s) /\ DOMAIN Append(s, x) = 1..(Len(s) + 1) /\ Len(s) \in Nat
  BY <1>1
<1> QED  BY <1>1, <1>2, <1>3 DEF Has

LEMMA TailHas ==
  ASSUME NEW S, NEW s \in Seq(S), s # <<>>
  PROVE  /\ Head(s) \in S /\ Tail(s) \in Seq(S)
         /\ \A y : Has(s, y) <=> y = Head(s) \/ Has(Tail(s), y)
<1>1. Head(s) \in S /\ Tail(s) \in Seq(S) /\ Head(s) = s[1]
  OBVIOUS
<1>2. Len(s) \in Nat /\ Len(s) > 0 /\ Len(Tail(s)) = Len(s) - 1
  OBVIOUS
<1>3. \A n \in 1..(Len(s) - 1) : Tail(s)[n] = s[n + 1]
  OBVIOUS
<1>4. DOMAIN s = 1..Len(s) /\ DOMAIN Tail(s) = 1..(Len(s) - 1)
  BY <1>1, <1>2
<1>5. ASSUME NEW y, Has(s, y) PROVE y = Head(s) \/ Has(Tail(s), y)
  <2>1. PICK n \in 1..Len(s) : s[n] = y
    BY <1>4, <1>5 DEF Has
  <2>2. CASE n = 1
    BY <1>1, <2>1, <2>2
  <2>3. CASE n # 1
    <3>1. n - 1 \in 1..(Len(s) - 1)
      BY <1>2, <2>3
    <3>2. Tail(s)[n - 1] = s[n]
      BY <1>3, <3>1
    <3> QED  BY <1>4, <2>1, <3>1, <3>2 DEF Has
  <2> QED  BY <2>2, <2>3
<1>6. ASSUME NEW y, Has(Tail(s), y) PROVE Has(s, y)
  <2>1. PICK n \in 1..(Len(s) - 1) : Tail(s)[n] = y
    BY <1>4, <1>6 DEF Has
  <2>2. n + 1 \in 1..Len(s) /\ s[n + 1] = y
    BY <1>2, <1>3, <2>1
  <2> QED  BY <1>4, <2>2 DEF Has
<1>7. Has(s, Head(s))
  BY <1>1, <1>2, <1>4 DEF Has
<1> QED  BY <1>1, <1>5, <1>6, <1>7

-----------------------------------------------------------------------------
(* Type correctness.                                                             *)

\* What an event says has changed.
LEMMA ChangedFields ==
  ASSUME NEW d \in Doc, NEW e \in Doc
  PROVE  /\ Changed(d, e) \in SUBSET HssField
         /\ "status" \in Changed(d, e) <=> d.status # e.status
         /\ "odb" \in Changed(d, e) <=> d.odb # e.odb
         /\ "rcl" \in Changed(d, e) <=> d.rcl # e.rcl
         /\ "ambr" \in Changed(d, e) <=> d.ambr # e.ambr
BY DEF Changed, HssField, Doc

LEMMA EventsType ==
  ASSUME TypeInv, NEW r \in Request, NEW ev \in Events(r)
  PROVE  ev \in Event /\ ev.by = r
<1>1. PICK d \in subs, e \in subs' :
        /\ d.id = e.id /\ Changed(d, e) # {}
        /\ ev = [id |-> d.id, fields |-> Changed(d, e), by |-> r]
  BY DEF Events, Updates
<1>2. d.id \in DocId /\ Changed(d, e) \in (SUBSET HssField) \ {{}}
  BY <1>1 DEF TypeInv, TypeOK, Doc, Changed
<1>3. PICK f : f = Changed(d, e)
  OBVIOUS
<1> QED  BY <1>1, <1>2, <1>3 DEF Event

\* A poll signals something of a live document, or nothing.
LEMMA PollSends ==
  ASSUME TypeInv, Poll
  PROVE  s6a' = s6a \/ \E m \in Message : s6a' = Append(s6a, m)
<1>1. s6a' = s6a \/ \E k \in {"CLR", "IDR"}, d \in subs : Send(k, d)
  BY Zenon DEF Poll
<1>2. \A k \in {"CLR", "IDR"}, d \in subs :
        [kind |-> k, imsi |-> d.imsi, ambr |-> d.ambr] \in Message
  BY DEF TypeInv, TypeOK, Doc, Message
<1> QED  BY <1>1, <1>2 DEF Send

LEMMA NextDetachType ==
  TypeInv /\ DetachTypeOK /\ [DetachNext]_detachVars => DetachTypeOK'
<1> SUFFICES ASSUME TypeInv, DetachTypeOK, [DetachNext]_detachVars PROVE DetachTypeOK'
  OBVIOUS
<1> USE DEF DetachTypeOK
<1>1. CASE UNCHANGED detachVars
  BY <1>1 DEF detachVars, network
<1>2. ASSUME NEW r \in Request, StoreStep(r) PROVE DetachTypeOK'
  <2>1. feed' \in Seq(Event)
    BY <1>2, EventsType DEF StoreStep
  <2> QED  BY <1>2, <2>1 DEF StoreStep
<1>3. \A d \in subs : d.imsi \in IMSI /\ d.ambr \in Ambr /\ d.rcl \in BOOLEAN
  BY DEF TypeInv, TypeOK, Doc
<1>4. CASE Poll
  <2>1. s6a' \in Seq(Message)
    BY <1>4, PollSends
  <2>2. feed' \in Seq(Event)
    BY <1>4 DEF Poll
  <2>3. UNCHANGED <<ue, sess, seen>>
    BY <1>4 DEF Poll
  <2> QED  BY <2>1, <2>2, <2>3
<1>5. NoSession \in Session
  BY StoreAssumption DEF NoSession, Session
<1>6. CASE CancelLocation
  <2>1. Head(s6a) \in Message /\ s6a' \in Seq(Message)
    BY <1>6 DEF CancelLocation
  <2>2. UNCHANGED <<feed, seen>>
    BY <1>6 DEF CancelLocation
  <2> QED  BY <1>5, <1>6, <2>1, <2>2 DEF CancelLocation, Message
<1>7. CASE InsertSubscriberData
  <2>1. Head(s6a) \in Message /\ Tail(s6a) \in Seq(Message)
    BY <1>7 DEF InsertSubscriberData
  <2> QED  BY <1>7, <2>1 DEF InsertSubscriberData, Message, Session
<1>8. ASSUME NEW i \in IMSI, AttachAccept(i) PROVE DetachTypeOK'
  BY <1>3, <1>8 DEF AttachAccept, Matching, Session
<1>9. ASSUME NEW i \in IMSI, AttachReject(i) PROVE DetachTypeOK'
  BY <1>9 DEF AttachReject
<1> QED  BY <1>1, <1>2, <1>4, <1>6, <1>7, <1>8, <1>9 DEF DetachNext, Attach

\* Type correctness of the network: every event names a document there was and a
\* change the HSS knows, and only an attached UE has a context in the MME.
THEOREM DetachTypeCorrect == DetachSafety => []DetachTypeOK
<1>1. DetachInit => DetachTypeOK
  BY StoreAssumption DEF DetachInit, DetachTypeOK, NoSession, Session
<1>2. TypeInv /\ DetachTypeOK /\ [DetachNext]_detachVars => DetachTypeOK'
  BY NextDetachType
<1>3. Spec => []TypeInv
  BY HistoryHolds, PTL
<1> QED  BY <1>1, <1>2, <1>3, DetachKeepsStore, PTL DEF DetachSafety

-----------------------------------------------------------------------------
(* A removed subscriber.                                                         *)

\* Only an attach that finds a live document makes a UE attached.
LEMMA AttachesLive ==
  ASSUME DetachTypeOK, DetachNext, NEW i \in IMSI, ue[i] # "attached", ue'[i] = "attached"
  PROVE  Holds(subs, i)
<1>1. CASE \E r \in Request : StoreStep(r)
  BY <1>1 DEF StoreStep
<1>2. CASE Poll \/ InsertSubscriberData
  BY <1>2 DEF Poll, InsertSubscriberData
<1>3. CASE CancelLocation
  BY <1>3 DEF CancelLocation, DetachTypeOK
<1>4. ASSUME NEW j \in IMSI, Attach(j) PROVE Holds(subs, i)
  BY <1>4 DEF Attach, AttachAccept, AttachReject, DetachTypeOK, Holds
<1> QED  BY <1>1, <1>2, <1>3, <1>4 DEF DetachNext

\* Once an acknowledged removal has left nothing of the subscriber, no UE of his gets
\* in again until he is added.
THEOREM RemovalKeepsOut == DetachSafety => RemovedStaysOut
<1>1. ASSUME ReplaceInv, DetachTypeOK, DetachNext PROVE OnlyTheAddedAttach
  <2> SUFFICES ASSUME NEW r \in Request, pc[r] = "ok", body[r].op = "remove",
                      AddsAlone(Imsi(r)), ue[Imsi(r)] # "attached",
                      ue'[Imsi(r)] = "attached",
                      \A q \in Request :
                        /\ body[q].op = "add" /\ Same(q, r) => Past(q, r)
                        /\ body[q].op \in {"suspend", "resume"} => ~Overlap(q, r)
               PROVE  FALSE
    BY DEF OnlyTheAddedAttach, Past
  <2>1. NoAddAfter(r) /\ Alone(r)
    BY DEF NoAddAfter, Past, Alone, Overlap, NotYet
  <2>2. r \notin aborted /\ Done(r)
    BY <1>1 DEF ReplaceInv, History, Call, Done
  <2>3. NoneLeft(Imsi(r))
    BY <1>1, <2>1, <2>2 DEF ReplaceInv, PurgeInv
  <2>4. Imsi(r) \in IMSI
    BY <1>1 DEF ReplaceInv, TypeInv, TypeOK, Body, Imsi
  <2>5. Holds(subs, Imsi(r))
    BY <1>1, <2>4, AttachesLive
  <2> QED  BY <2>3, <2>5 DEF NoneLeft, AtHand, Holds, Matching
<1>2. ReplaceInv /\ DetachTypeOK /\ [DetachNext]_detachVars => [OnlyTheAddedAttach]_detachVars
  BY <1>1
<1> QED
  BY <1>2, ReplaceHolds, DetachKeepsStore, DetachTypeCorrect, PTL
     DEF DetachSafety, RemovedStaysOut

-----------------------------------------------------------------------------
(* A suspended subscriber.  His documents disappear only in the delete of a       *)
(* suspend, and before it every session that an attach to an unflagged document   *)
(* has given him is over or will be: the event of the flag is in the feed, until  *)
(* it is polled and its CLR is with the MME, until that has detached the UE.  A   *)
(* suspend sleeps over the first half of this, so that the poll finds the          *)
(* document, and no resume beside it lowers the flag in between.                   *)

AllFlagged(i) == \A d \in Matching(subs, i) : d.rcl

\* The HSS has yet to see that a flag of i has changed.
Pend(i) == \E ev \in Event : Has(feed, ev) /\ ev.id = i /\ "rcl" \in ev.fields

\* The MME will detach the UE of i, or it is detached, or it has attached to a flagged
\* document.
Cut(i) ==
  \/ \E m \in Message : Has(s6a, m) /\ m.kind = "CLR" /\ m.imsi = i
  \/ ue[i] # "attached"
  \/ sess[i].flagged

\* A suspend of i that has flagged his document and not yet deleted it.
Suspending(r, i) ==
  /\ Imsi(r) = i /\ body[r].op = "suspend" /\ r \notin aborted
  /\ pc[r] \in {"find", "insert", "delete"}

\* No resume of subscriber i ran beside a suspend.
Calm(i) ==
  \A q, r \in Request :
    Imsi(q) = i /\ body[q].op = "resume" /\ body[r].op = "suspend" => ~Overlap(r, q)

CutInv ==
  \A i \in IMSI : Calm(i) =>
    /\ AllFlagged(i) => Pend(i) \/ Cut(i)
    /\ ~Holds(subs, i) => Cut(i)
    /\ \A r \in Request :
         Suspending(r, i) => AllFlagged(i) /\ (pc[r] # "find" => Cut(i))

LEMMA CalmStays ==
  ASSUME TypeInv, History, NEW p \in Request, Does(p), NEW i, Calm(i)'
  PROVE  Calm(i)
<1>1. body' = body /\ \A q \in Request : Imsi(q)' = Imsi(q)
  BY DoesLocal DEF Local, Imsi
<1> QED  BY <1>1, OverlapStays DEF Calm

\* No call but a resume's lowers a flag.
LEMMA FlaggedStays ==
  ASSUME NoReplace, Inv, NEW p \in Request, Does(p), NEW i,
         Imsi(p) = i => body[p].op # "resume", AllFlagged(i)
  PROVE  AllFlagged(i)'
<1> SUFFICES ASSUME NEW e \in subs', e.imsi = i PROVE e.rcl
  BY DEF AllFlagged, Matching
<1> USE DEF Inv, TypeInv, TypeOK
<1>1. e \in subs \/ WritesSubs(p, e)
  BY DoesWritten DEF SubsWritten
<1>2. CASE e \in subs
  BY <1>2 DEF AllFlagged, Matching
<1>3. CASE WritesSubs(p, e)
  <2>1. pc[p] # "insertNew"
    BY NoAdds
  <2>2. CASE pc[p] = "insert"
    BY <1>3, <2>2 DEF WritesSubs, MoveInv, RawIsOwn
  <2>3. CASE pc[p] # "insert"
    <3>1. PICK d \in Matching(subs, Imsi(p)) :
            \/ e = Barred(d) \/ (pc[p] = "clear" /\ e = Cleared(d))
            \/ e = Fields(p, d) \/ e = WithoutIp(d) \/ e = Mirrored(p, d)
      BY <1>3, <2>1, <2>3 DEF WritesSubs
    <3>2. d \in Doc /\ d.imsi = Imsi(p)
      BY DEF Matching
    <3>3. e.imsi = d.imsi
      BY <3>1, <3>2 DEF Doc, Barred, Cleared, Fields, WithoutIp, Mirrored
    <3>4. d.rcl /\ pc[p] # "clear"
      BY <3>2, <3>3 DEF AllFlagged, Matching, Routed
    <3> QED  BY <3>1, <3>2, <3>4 DEF Doc, Barred, Fields, WithoutIp, Mirrored
  <2> QED  BY <2>2, <2>3
<1> QED  BY <1>1, <1>2, <1>3

\* A step writes one document at most, so that all its events are of one update.
LEMMA OneUpdate ==
  ASSUME NoReplace, Inv, NEW p \in Request, Does(p), NEW ev \in Events(p)
  PROVE  \E d \in subs, e \in subs' :
           /\ d.id = e.id /\ d.imsi = Imsi(p) /\ e.imsi = Imsi(p) /\ e \notin subs
           /\ WritesSubs(p, e) /\ Changed(d, e) # {}
           /\ ev = [id |-> Imsi(p), fields |-> Changed(d, e), by |-> p]
<1>1. PICK d \in subs, e \in subs' :
        /\ d.id = e.id /\ Changed(d, e) # {}
        /\ ev = [id |-> d.id, fields |-> Changed(d, e), by |-> p]
  BY DEF Events, Updates
<1>2. Own(subs) /\ OneEach(subs) /\ Own(subs') /\ OneEach(subs')
  <2>1. MoveInv /\ MoveInv'
    BY NextMove DEF Inv, Next, Does
  <2> QED  BY <2>1 DEF MoveInv, Own, OneEach
<1>3. d.id = d.imsi /\ e.imsi = d.imsi
  BY <1>1, <1>2 DEF Own
<1>4. e \notin subs
  BY <1>1, <1>2, <1>3 DEF OneEach, Changed
<1>5. SubsWritten(p)
  BY DoesWritten DEF Inv
<1>6. d \notin subs'
  BY <1>1, <1>2, <1>3, <1>4 DEF OneEach
<1> QED  BY <1>1, <1>3, <1>4, <1>5, <1>6 DEF SubsWritten

\* An update that changes what the HSS looks at is in the feed.
LEMMA UpdateIsSeen ==
  ASSUME NoReplace, Inv, DetachTypeOK, NEW p \in Request, StoreStep(p), Does(p),
         NEW d \in subs, NEW e \in subs', d.imsi = e.imsi, Changed(d, e) # {}
  PROVE  \E ev \in Event : /\ feed' = Append(feed, ev)
                           /\ ev.id = d.imsi /\ ev.fields = Changed(d, e)
<1>1. Own(subs) /\ OneEach(subs) /\ Own(subs') /\ OneEach(subs')
  <2>1. MoveInv /\ MoveInv'
    BY NextMove DEF Inv, Next, Does
  <2> QED  BY <2>1 DEF MoveInv, Own, OneEach
<1>2. <<d, e>> \in Updates
  BY <1>1 DEF Updates, Own
<1>3. PICK ev \in Events(p) : feed' = Append(feed, ev)
  BY <1>2 DEF StoreStep, Events
<1>4. PICK x \in subs, y \in subs' :
        /\ x.id = y.id /\ x.imsi = Imsi(p) /\ y.imsi = Imsi(p) /\ y \notin subs
        /\ WritesSubs(p, y) /\ Changed(x, y) # {}
        /\ ev = [id |-> Imsi(p), fields |-> Changed(x, y), by |-> p]
  BY OneUpdate
<1>5. d \notin subs'
  BY <1>1 DEF OneEach, Changed
<1>6. d.imsi = Imsi(p)
  BY <1>5, DoesWritten DEF SubsWritten, Inv
<1>7. x = d /\ y = e
  BY <1>1, <1>4, <1>6 DEF OneEach
<1>8. ev \in Event
  BY EventsType DEF Inv
<1> QED  BY <1>3, <1>4, <1>6, <1>7, <1>8

\* The flag is raised by leg 1 of a suspend only, which leaves the event of it in the
\* feed; or the last unflagged document has been deleted.
LEMMA FlagIsSeen ==
  ASSUME NoReplace, Inv, DetachTypeOK, NEW p \in Request, StoreStep(p), Does(p), NEW i,
         ~AllFlagged(i), AllFlagged(i)', Holds(subs, i)'
  PROVE  Pend(i)'
<1>1. PICK d \in subs : d.imsi = i /\ ~d.rcl
  BY DEF AllFlagged, Matching
<1>2. PICK e \in subs' : e.imsi = i
  BY DEF Holds, Matching
<1>3. e.rcl
  BY <1>2 DEF AllFlagged, Matching
<1>4. d \in Doc /\ e \in Doc
  BY NextType DEF Inv, TypeInv, TypeOK, Next, Does
<1>5. "rcl" \in Changed(d, e)
  BY <1>1, <1>3, <1>4, ChangedFields
<1>6. PICK ev \in Event : feed' = Append(feed, ev) /\ ev.id = i /\ ev.fields = Changed(d, e)
  BY <1>1, <1>2, <1>5, UpdateIsSeen
<1>7. Has(feed, ev)'
  BY <1>6, AppendHas DEF DetachTypeOK
<1> QED  BY <1>5, <1>6, <1>7 DEF Pend

\* Signalling and attaching leave the store alone.
LEMMA NetworkOnly ==
  ASSUME DetachNext
  PROVE  \/ \E p \in Request : StoreStep(p) /\ Does(p)
         \/ Poll /\ UNCHANGED vars
         \/ (CancelLocation \/ InsertSubscriberData) /\ UNCHANGED <<vars, feed>>
         \/ \E j \in IMSI : Attach(j) /\ UNCHANGED <<vars, feed, s6a>>
BY DEF DetachNext, StoreStep, Does, Poll, CancelLocation, InsertSubscriberData, Attach,
       AttachAccept, AttachReject

\* What cuts a session goes on to, as long as a UE finds no unflagged document.
LEMMA CutStays ==
  ASSUME TypeInv, DetachTypeOK, DetachNext, NEW i \in IMSI, Cut(i),
         AllFlagged(i) \/ \E p \in Request : StoreStep(p)
  PROVE  Cut(i)'
<1> USE DEF DetachTypeOK
<1>1. CASE \E p \in Request : StoreStep(p)
  BY <1>1 DEF StoreStep, Cut
<1>2. CASE Poll
  <2>1. \A n, m \in Message : Has(s6a, m) => Has(Append(s6a, n), m)
    BY AppendHas
  <2>2. \A m \in Message : Has(s6a, m) => Has(s6a', m)
    BY <1>2, <2>1, PollSends
  <2> QED  BY <1>2, <2>2 DEF Poll, Cut
<1>3. CASE CancelLocation \/ InsertSubscriberData
  <2>1. s6a # <<>> /\ s6a' = Tail(s6a) /\ Head(s6a) \in Message
    BY <1>3 DEF CancelLocation, InsertSubscriberData
  <2>2. \A m \in Message : Has(s6a, m) => m = Head(s6a) \/ Has(s6a', m)
    BY <2>1, TailHas
  <2>3. CASE CancelLocation
    <3>1. Head(s6a).kind = "CLR" /\ Head(s6a).imsi \in IMSI
      BY <2>1, <2>3 DEF CancelLocation, Message
    <3>2. CASE Head(s6a).imsi = i
      BY <2>3, <3>2 DEF CancelLocation, Cut
    <3>3. CASE Head(s6a).imsi # i
      BY <2>2, <2>3, <3>1, <3>3 DEF CancelLocation, Cut
    <3> QED  BY <3>2, <3>3
  <2>4. CASE InsertSubscriberData
    <3>1. Head(s6a).kind = "IDR" /\ Head(s6a).imsi \in IMSI
      BY <2>1, <2>4 DEF InsertSubscriberData, Message
    <3>2. sess'[i].flagged = sess[i].flagged /\ ue' = ue
      BY <2>4, <3>1 DEF InsertSubscriberData, Session
    <3> QED  BY <2>2, <3>1, <3>2 DEF Cut
  <2> QED  BY <1>3, <2>3, <2>4
<1>4. ASSUME NEW j \in IMSI, AttachAccept(j), AllFlagged(i) PROVE Cut(i)'
  BY <1>4 DEF AttachAccept, AllFlagged, Cut
<1>5. ASSUME NEW j \in IMSI, AttachReject(j) PROVE Cut(i)'
  BY <1>5 DEF AttachReject, Cut
<1> QED  BY <1>1, <1>2, <1>3, <1>4, <1>5 DEF DetachNext, Attach

\* A suspend has slept over the event of its flag when it finds the document.
LEMMA FindIsLate ==
  ASSUME Timely, Inv, NEW r \in Request, StoreStep(r), FindRaw(r), body[r].op = "suspend",
         Holds(subs, Imsi(r))
  PROVE  ~Pend(Imsi(r))
<1>1. pc[r] = "find" /\ r \notin aborted
  BY DEF FindRaw, At
<1>2. ~Accept(r) /\ ~Abort(r)
  BY <1>1 DEF FindRaw, Goto, Accept, Abort, Inv, TypeInv, TypeOK
<1>3. Slept(r)
  BY <1>2 DEF StoreStep
<1>4. \A n \in DOMAIN feed : \A d \in Matching(subs, Imsi(r)) : feed[n].id # d.id
  BY <1>1, <1>3 DEF Slept
<1>5. PICK d \in Matching(subs, Imsi(r)) : TRUE
  BY DEF Holds
<1>6. d.id = Imsi(r)
  BY DEF Matching, Inv, MoveInv, Own
<1> QED  BY <1>4, <1>6 DEF Pend, Has

LEMMA PollCuts ==
  ASSUME Inv, DetachTypeOK, DetachNext, Poll, NEW i \in IMSI, AllFlagged(i), Pend(i),
         Holds(subs, i)
  PROVE  Pend(i)' \/ Cut(i)'
<1> USE DEF DetachTypeOK
<1>1. PICK ev \in Event : Has(feed, ev) /\ ev.id = i /\ "rcl" \in ev.fields
  BY DEF Pend
<1>2. feed # <<>> /\ feed' = Tail(feed)
  BY DEF Poll
<1>3. ev = Head(feed) \/ Has(feed', ev)
  BY <1>1, <1>2, TailHas
<1>4. CASE Has(feed', ev)
  BY <1>1, <1>4 DEF Pend
<1>5. CASE ev = Head(feed)
  <2>1. \A d \in subs : d.id = i <=> d.imsi = i
    BY DEF Inv, MoveInv, Own
  <2>2. {d \in subs : d.id = Head(feed).id} # {}
    BY <1>1, <1>5, <2>1 DEF Holds, Matching
  <2>3. PICK d \in subs :
          /\ d.id = Head(feed).id
          /\ IF "rcl" \in Head(feed).fields /\ d.rcl THEN Send("CLR", d)
             ELSE IF Head(feed).fields \cap {"status", "ambr"} # {} THEN Send("IDR", d)
             ELSE UNCHANGED s6a
    BY <2>2, Zenon DEF Poll
  <2>4. d.imsi = i /\ d.rcl
    BY <1>1, <1>5, <2>1, <2>3 DEF AllFlagged, Matching
  <2>5. Send("CLR", d)
    BY <1>1, <1>5, <2>3, <2>4
  <2>6. PICK m : m = [kind |-> "CLR", imsi |-> d.imsi, ambr |-> d.ambr]
    OBVIOUS
  <2>7. m \in Message /\ m.kind = "CLR" /\ m.imsi = i
    BY <2>4, <2>6 DEF Inv, TypeInv, TypeOK, Doc, Message
  <2>8. Has(s6a', m)
    BY <2>5, <2>6, <2>7, AppendHas DEF Send
  <2> QED  BY <2>7, <2>8 DEF Cut
<1> QED  BY <1>3, <1>4, <1>5

LEMMA PendStays ==
  ASSUME TypeInv, DetachTypeOK, DetachNext, ~Poll, NEW i, Pend(i)
  PROVE  Pend(i)'
<1>1. feed' = feed \/ \E ev \in Event : feed' = Append(feed, ev)
  BY EventsType DEF DetachNext, StoreStep, CancelLocation, InsertSubscriberData, Attach,
     AttachAccept, AttachReject
<1>2. \A n, ev \in Event : Has(feed, ev) => Has(Append(feed, n), ev)
  BY AppendHas DEF DetachTypeOK
<1>3. \A ev \in Event : Has(feed, ev) => Has(feed', ev)
  BY <1>1, <1>2
<1> QED  BY <1>3 DEF Pend

\* A suspend under way keeps its document flagged and the session cut.
LEMMA SuspendingStep ==
  ASSUME NoReplace, Timely, Inv, DetachTypeOK, CutInv, DetachNext,
         NEW p \in Request, StoreStep(p), Does(p),
         NEW i \in IMSI, Calm(i)', NEW r \in Request, Suspending(r, i)'
  PROVE  AllFlagged(i)' /\ (pc'[r] # "find" => Cut(i)')
<1> USE DEF Inv, TypeInv, TypeOK
<1>1. Local(p) /\ Calm(i)
  BY DoesLocal, CalmStays
<1>2. body' = body /\ Imsi(r) = i /\ body[r].op = "suspend" /\ r \notin aborted
  BY <1>1 DEF Local, Suspending, Imsi, Ended
<1>3. ASSUME Suspending(r, i), body[p].op = "resume" PROVE Imsi(p) # i
  <2> SUFFICES ASSUME Imsi(p) = i PROVE FALSE
    OBVIOUS
  <2>1. Same(p, r)
    BY <1>2, <1>3 DEF Same
  <2>2. ~Overlap(p, r)'
    <3>1. ~Overlap(r, p)'
      BY <1>1, <1>2, <1>3 DEF Calm, Local, Imsi
    <3> QED  BY <3>1 DEF Overlap, Same
  <2>3. pc[r] # "idle" /\ ~Ended(r)
    BY <1>3 DEF Suspending, Ended, Answer
  <2> QED  BY <2>1, <2>2, <2>3, StepsAfter
<1>4. ASSUME Suspending(r, i)
      PROVE  AllFlagged(i)' /\ (pc[r] # "find" => Cut(i)')
  <2>1. AllFlagged(i) /\ (pc[r] # "find" => Cut(i))
    BY <1>1, <1>4 DEF CutInv
  <2> QED  BY <1>3, <1>4, <2>1, FlaggedStays, CutStays
<1>5. CASE p # r
  <2>1. pc'[r] = pc[r]
    BY <1>1, <1>5 DEF Local
  <2>2. Suspending(r, i)
    BY <1>2, <2>1 DEF Suspending
  <2> QED  BY <1>4, <2>1, <2>2
<1>6. CASE p = r
  <2> USE DEF At, Goto, Suspending
  <2>1. CASE Accept(r)
    <3>1. FirstCall(body[r]) = "flag"
      BY <1>2 DEF FirstCall, Reads
    <3> QED  BY <2>1, <3>1 DEF Accept
  <2>2. CASE Abort(r)
    BY <2>2 DEF Abort
  <2>3. CASE Flag(r)
    <3>1. subs' \in UpdateOne(subs, i, Barred)
      BY <1>2, <2>3 DEF Flag
    <3>2. \A d \in Doc : Barred(d).rcl
      BY DEF Doc, Barred
    <3>3. \A d, e \in subs : d.imsi = e.imsi => d = e
      BY DEF MoveInv, OneEach
    <3>4. \A d \in Doc : Barred(d).imsi = d.imsi
      BY DEF Doc, Barred
    <3>5. AllFlagged(i)'
      BY <3>1, <3>2, <3>3, <3>4 DEF UpdateOne, Holds, Matching, AllFlagged
    <3> QED  BY <2>3, <3>5 DEF Flag
  <2>4. CASE FindRaw(r)
    <3>1. Suspending(r, i)
      BY <1>2, <2>4 DEF FindRaw
    <3>2. Holds(subs, i)
      BY <1>2, <2>4 DEF FindRaw, From
    <3>3. ~Pend(i)
      BY <1>2, <1>6, <2>4, <3>2, FindIsLate
    <3>4. Cut(i)
      BY <1>1, <3>1, <3>3 DEF CutInv
    <3>5. AllFlagged(i)'
      BY <1>4, <3>1
    <3> QED  BY <3>4, <3>5, CutStays
  <2>5. CASE InsertRaw(r)
    BY <1>2, <1>4, <2>5 DEF InsertRaw
  <2>6. CASE CountTarget(r) \/ DeleteRaw(r) \/ ClearFlags(r)
    BY <1>2, <2>6 DEF CountTarget, DeleteRaw, ClearFlags, AfterMove
  <2>7. CASE FieldStep(r) \/ ReplaceStep(r) \/ ReadStep(r) \/ AuditStep(r)
    BY <1>2, <2>7
       DEF FieldStep, SetSubs, SetSuspended, UnsetSubs, UnsetSuspended, ReplaceStep,
           PurgeSubs, PurgeSuspended, InsertNew, ReadStep, ReadSubs, ReadSuspended,
           AuditStep, AppendAudit, AuditFails, MirrorSubs, MirrorSuspended, Routed, Reads
  <2> QED  BY <1>6, <2>1, <2>2, <2>3, <2>4, <2>5, <2>6, <2>7 DEF Does, Step, MoveStep
<1> QED  BY <1>5, <1>6

LEMMA NextCut ==
  ASSUME NoReplace, Timely, Inv, DetachTypeOK, CutInv, DetachNext
  PROVE  CutInv'
<1> SUFFICES ASSUME NEW i \in IMSI, Calm(i)'
             PROVE  /\ AllFlagged(i)' => Pend(i)' \/ Cut(i)'
                    /\ ~Holds(subs, i)' => Cut(i)'
                    /\ \A r \in Request : Suspending(r, i)' =>
                         AllFlagged(i)' /\ (pc'[r] # "find" => Cut(i)')
  BY DEF CutInv
<1>1. ASSUME NEW p \in Request, StoreStep(p), Does(p)
      PROVE  /\ AllFlagged(i)' => Pend(i)' \/ Cut(i)'
             /\ ~Holds(subs, i)' => Cut(i)'
  <2>1. Calm(i)
    BY <1>1, CalmStays DEF Inv
  <2>2. ~Poll
    BY <1>1 DEF StoreStep, Accept, Abort, Step, Poll
  <2>3. Cut(i) => Cut(i)'
    BY <1>1, CutStays DEF Inv
  <2>4. ASSUME ~Holds(subs, i)' PROVE Cut(i)'
    <3>1. CASE ~Holds(subs, i)
      BY <2>1, <2>3, <3>1 DEF CutInv
    <3>2. CASE Holds(subs, i)
      <4>1. Imsi(p) = i /\ DeletesSubs(p)
        BY <1>1, <2>4, <3>2, HoldsSubs DEF Inv
      <4>2. pc[p] = "delete" /\ body[p].op = "suspend"
        BY <4>1, NoAdds DEF DeletesSubs, Inv
      <4>3. p \notin aborted
        BY <1>1, DoesLocal DEF Local, Ended, Inv
      <4>4. Suspending(p, i)
        BY <4>1, <4>2, <4>3 DEF Suspending
      <4> QED  BY <2>1, <2>3, <4>2, <4>4 DEF CutInv
    <3> QED  BY <3>1, <3>2
  <2>5. ASSUME AllFlagged(i)', Holds(subs, i)' PROVE Pend(i)' \/ Cut(i)'
    <3>1. CASE AllFlagged(i)
      <4>1. Pend(i) \/ Cut(i)
        BY <2>1, <3>1 DEF CutInv
      <4>2. Pend(i) => Pend(i)'
        BY <2>2, PendStays DEF Inv
      <4> QED  BY <2>3, <4>1, <4>2
    <3>2. CASE ~AllFlagged(i)
      BY <1>1, <2>5, <3>2, FlagIsSeen
    <3> QED  BY <3>1, <3>2
  <2> QED  BY <2>4, <2>5
<1>2. ASSUME UNCHANGED vars, Poll \/ UNCHANGED feed
      PROVE  /\ AllFlagged(i)' => Pend(i)' \/ Cut(i)'
             /\ ~Holds(subs, i)' => Cut(i)'
             /\ \A r \in Request : Suspending(r, i)' =>
                  AllFlagged(i)' /\ (pc'[r] # "find" => Cut(i)')
  <2>1. Calm(i)
    BY <1>2 DEF vars, Calm, Overlap, Same, NotYet, EndedBefore, Imsi
  <2>2. /\ AllFlagged(i)' <=> AllFlagged(i)
        /\ Holds(subs, i)' <=> Holds(subs, i)
        /\ \A r \in Request : (Suspending(r, i)' <=> Suspending(r, i)) /\ pc'[r] = pc[r]
    BY <1>2 DEF vars, AllFlagged, Holds, Matching, Suspending, Imsi
  <2>3. ~Holds(subs, i) => AllFlagged(i)
    BY DEF Holds, AllFlagged
  <2>4. AllFlagged(i) /\ Cut(i) => Cut(i)'
    BY CutStays DEF Inv
  <2>5. ASSUME AllFlagged(i), Pend(i), Holds(subs, i) PROVE Pend(i)' \/ Cut(i)'
    <3>1. CASE Poll
      BY <2>5, <3>1, PollCuts
    <3>2. CASE ~Poll
      BY <2>5, <3>2, PendStays DEF Inv
    <3> QED  BY <3>1, <3>2
  <2> QED  BY <2>1, <2>2, <2>3, <2>4, <2>5 DEF CutInv
<1> QED  BY <1>1, <1>2, NetworkOnly, SuspendingStep

LEMMA UnchangedCut ==
  ASSUME UNCHANGED detachVars, CutInv
  PROVE  CutInv'
BY DEF detachVars, network, vars, CutInv, Calm, Overlap, Same, NotYet, EndedBefore, Imsi,
       AllFlagged, Pend, Cut, Suspending, Holds, Matching, Has

LEMMA InitCut == DetachInit => CutInv
<1> SUFFICES ASSUME DetachInit PROVE CutInv
  OBVIOUS
<1>1. \A i \in IMSI : ~Holds(subs, i) => Cut(i)
  BY DEF DetachInit, Cut
<1>2. \A i : NewDoc(i, i).imsi = i /\ ~NewDoc(i, i).rcl
  BY DEF NewDoc
<1>3. \A d \in subs : ~d.rcl
  BY <1>2 DEF DetachInit, Init
<1>4. \A i : AllFlagged(i) => ~Holds(subs, i)
  BY <1>3 DEF AllFlagged, Holds, Matching
<1>5. \A i \in IMSI, r \in Request : ~Suspending(r, i)
  BY DEF DetachInit, Init, Suspending
<1> QED  BY <1>1, <1>4, <1>5 DEF CutInv

LEMMA CutHolds == NoReplace /\ Timely => (DetachSafety => [](Inv /\ GoneInv /\ CutInv))
<1> SUFFICES ASSUME NoReplace, Timely PROVE DetachSafety => [](Inv /\ GoneInv /\ CutInv)
  OBVIOUS
<1>1. DetachInit => CutInv
  BY InitCut
<1>2. Inv /\ DetachTypeOK /\ CutInv /\ [DetachNext]_detachVars => CutInv'
  BY NextCut, UnchangedCut
<1> QED  BY <1>1, <1>2, GoneHolds, DetachTypeCorrect, DetachKeepsStore, PTL DEF DetachSafety

\* An acknowledged suspend has ended every session but those granted between its legs,
\* provided that the HSS polls within its sleep.
THEOREM SuspendCuts == NoReplace /\ Timely => (DetachSafety => []SuspendCutsSession)
<1> SUFFICES ASSUME NoReplace, Timely PROVE DetachSafety => []SuspendCutsSession
  OBVIOUS
<1>1. ASSUME Inv, GoneInv, CutInv PROVE SuspendCutsSession
  <2> SUFFICES ASSUME NEW r \in Request, pc[r] = "ok", body[r].op = "suspend",
                      Settled(Imsi(r)), ue[Imsi(r)] = "attached",
                      \A q \in Request :
                        Same(q, r) /\ body[q].op = "resume" =>
                          /\ Past(q, r)
                          /\ \A p \in Request : body[p].op = "suspend" => ~Overlap(p, q)
               PROVE  sess[Imsi(r)].flagged
    BY DEF SuspendCutsSession, Past
  <2>1. Imsi(r) \in IMSI
    BY <1>1 DEF Inv, TypeInv, TypeOK, Body, Imsi
  <2>2. Calm(Imsi(r))
    BY DEF Calm, Same
  <2>3. ~Holds(subs, Imsi(r))
    BY <1>1 DEF GoneInv, PastFirst, Unmoved, Against, First
  <2>4. Cut(Imsi(r))
    BY <1>1, <2>1, <2>2, <2>3 DEF CutInv
  <2> QED  BY <2>4 DEF Cut, Settled, Has
<1> QED  BY <1>1, CutHolds, PTL

-----------------------------------------------------------------------------
(* A resumed subscriber.  The event of a resume tells of lowered flags only, so     *)
(* that nothing but a flag which is up again makes the HSS signal; and a flag is up   *)
(* only while a move has yet to lower it or to take the document away.              *)

\* A move of i that has raised the flag, or has put it back as it was.
Flagging(q, i) ==
  /\ Imsi(q) = i
  /\ \/ body[q].op = "suspend" /\ pc[q] \in {"find", "insert", "delete"}
     \/ body[q].op = "resume" /\ pc[q] \in {"delete", "clear"}

RclInv == \A d \in subs : d.rcl => \E q \in Request : Flagging(q, d.imsi)

ByInv ==
  \A ev \in Event :
    Has(feed, ev) /\ body[ev.by].op = "resume" =>
      Done(ev.by) /\ ev.id = Imsi(ev.by) /\ ev.fields \subseteq {"odb", "rcl"}

\* A flagged document was flagged before, or a move has just flagged it or put it back.
LEMMA RclFrom ==
  ASSUME NoReplace, Inv, NEW p \in Request, Does(p), NEW e \in subs', e.rcl
  PROVE  \/ \E d \in subs : d.imsi = e.imsi /\ d.rcl /\ pc[p] # "clear"
         \/ e \in subs
         \/ Imsi(p) = e.imsi /\ pc[p] = "flag" /\ subs' # subs
         \/ /\ Imsi(p) = e.imsi /\ pc[p] = "insert" /\ body[p].op = "resume"
            /\ subs' # subs
<1> SUFFICES ASSUME e \notin subs
             PROVE  \/ \E d \in subs : d.imsi = e.imsi /\ d.rcl /\ pc[p] # "clear"
                    \/ Imsi(p) = e.imsi /\ pc[p] = "flag"
                    \/ Imsi(p) = e.imsi /\ pc[p] = "insert" /\ body[p].op = "resume"
  OBVIOUS
<1> USE DEF Inv, TypeInv, TypeOK
<1>1. WritesSubs(p, e)
  BY DoesWritten DEF SubsWritten
<1>2. pc[p] # "insertNew"
  BY NoAdds
<1>3. CASE pc[p] = "insert"
  BY <1>1, <1>3 DEF WritesSubs, MoveInv, RawIsOwn
<1>4. CASE pc[p] # "insert"
  <2>1. PICK d \in Matching(subs, Imsi(p)) :
          \/ pc[p] = "flag" /\ e = Barred(d)
          \/ pc[p] = "clear" /\ e = Cleared(d)
          \/ pc[p] \notin {"flag", "clear"} /\
               (e = Fields(p, d) \/ e = WithoutIp(d) \/ e = Mirrored(p, d))
    BY <1>1, <1>2, <1>4 DEF WritesSubs
  <2>2. d \in Doc /\ d \in subs /\ d.imsi = Imsi(p)
    BY DEF Matching
  <2> QED  BY <2>1, <2>2 DEF Doc, Barred, Cleared, Fields, WithoutIp, Mirrored
<1> QED  BY <1>3, <1>4

\* The step of a request that is at one of these calls and does not die.
LEMMA MoveStepIs ==
  ASSUME TypeInv, NEW p \in Request, Does(p)
  PROVE  /\ pc[p] = "flag" => Flag(p) \/ Abort(p)
         /\ pc[p] = "find" => FindRaw(p) \/ Abort(p)
         /\ pc[p] = "insert" => InsertRaw(p) \/ Abort(p)
         /\ pc[p] = "delete" => DeleteRaw(p) \/ Abort(p)
         /\ pc[p] = "clear" => ClearFlags(p) \/ Abort(p)
<1> USE DEF At
<1>1. CASE Accept(p) \/ Abort(p) \/ MoveStep(p)
  BY <1>1 DEF Accept, MoveStep, Flag, FindRaw, CountTarget, InsertRaw, DeleteRaw, ClearFlags
<1>2. CASE FieldStep(p)
  BY <1>2 DEF FieldStep, SetSubs, SetSuspended, UnsetSubs, UnsetSuspended
<1>3. CASE ReplaceStep(p)
  BY <1>3 DEF ReplaceStep, PurgeSubs, PurgeSuspended, InsertNew
<1>4. CASE ReadStep(p)
  BY <1>4 DEF ReadStep, ReadSubs, ReadSuspended
<1>5. CASE AuditStep(p)
  BY <1>5 DEF AuditStep, AppendAudit, AuditFails, MirrorSubs, MirrorSuspended
<1> QED  BY <1>1, <1>2, <1>3, <1>4, <1>5 DEF Does, Step

LEMMA FlaggingStays ==
  ASSUME NoReplace, Inv, NEW p \in Request, Does(p), NEW i \in IMSI, NEW q \in Request,
         Flagging(q, i), Holds(subs, i), Holds(subs, i)', ~ClearFlags(q)
  PROVE  \E r \in Request : Flagging(r, i)'
<1> USE DEF Inv, TypeInv, TypeOK
<1>1. Local(p) /\ body' = body
  BY DoesLocal DEF Local
<1>2. ASSUME NEW r \in Request, Flagging(r, i), pc'[r] = pc[r] PROVE Flagging(r, i)'
  BY <1>1, <1>2 DEF Flagging, Imsi
<1>3. CASE p # q \/ Abort(q)
  BY <1>1, <1>2, <1>3 DEF Local, Abort
<1>4. CASE p = q /\ FindRaw(q)
  <2>1. body[q].op = "suspend" /\ pc'[q] = "insert"
    BY <1>4 DEF FindRaw, At, Goto, Flagging, From
  <2> QED  BY <1>1, <2>1 DEF Flagging, Imsi
<1>5. CASE p = q /\ InsertRaw(q)
  <2>1. body[q].op = "suspend" /\ pc[q] = "insert"
    BY <1>5 DEF InsertRaw, At, Flagging
  <2>2. CASE pc'[q] = "delete"
    BY <1>1, <2>1, <2>2 DEF Flagging, Imsi
  <2>3. CASE pc'[q] # "delete"
    <3>1. \E d \in got[q] : HasId(suspended, d.id)
      BY <1>5, <2>1, <2>3 DEF InsertRaw, InsertInto, Goto
    <3>2. Holds(suspended, i)
      BY <2>1, <3>1 DEF MoveInv, RawIsOwn, Own, HasId, Holds, Matching, Flagging
    <3>3. PICK r \in Request : pc[r] = "delete" /\ Imsi(r) = i
      BY <3>2 DEF MoveInv, BothAtDelete
    <3>4. Flagging(r, i) /\ pc'[r] = pc[r]
      BY <1>1, <1>5, <2>1, <3>3 DEF Flagging, Routed, Local
    <3> QED  BY <1>2, <3>4
  <2> QED  BY <2>2, <2>3
<1>6. CASE p = q /\ DeleteRaw(q)
  <2>1. CASE body[q].op = "suspend"
    <3>1. subs' \in DeleteOne(subs, i)
      BY <1>6, <2>1 DEF DeleteRaw, Flagging
    <3>2. ~Holds(subs', i)
      BY <3>1, DeleteKeeps DEF MoveInv
    <3> QED  BY <3>2 DEF Holds, Matching
  <2>2. CASE body[q].op = "resume"
    <3>1. pc'[q] = "clear"
      BY <1>6, <2>2 DEF DeleteRaw, Goto, AfterMove
    <3> QED  BY <1>1, <2>2, <3>1 DEF Flagging, Imsi
  <2> QED  BY <2>1, <2>2 DEF Flagging
<1> QED  BY <1>3, <1>4, <1>5, <1>6, MoveStepIs DEF Flagging

LEMMA NextRcl ==
  ASSUME NoReplace, Inv, RclInv, NEW p \in Request, Does(p)
  PROVE  RclInv'
<1> SUFFICES ASSUME NEW e \in subs', e.rcl PROVE \E q \in Request : Flagging(q, e.imsi)'
  BY DEF RclInv
<1> PICK i : i = e.imsi
  OBVIOUS
<1> USE DEF Inv, TypeInv, TypeOK
<1>1. e \in Doc /\ i \in IMSI
  BY NextType DEF Next, Does, Doc
<1>2. Holds(subs, i)'
  BY DEF Holds, Matching
<1>3. ASSUME NEW d \in subs, d.imsi = i, d.rcl, pc[p] # "clear" \/ e \in subs
      PROVE  \E q \in Request : Flagging(q, i)'
  <2>1. PICK q \in Request : Flagging(q, i)
    BY <1>3 DEF RclInv
  <2>2. Holds(subs, i)
    BY <1>3 DEF Holds, Matching
  <2>3. CASE ClearFlags(q) /\ p = q
    <3>1. PICK c \in Matching(subs, i) : subs' = (subs \ {c}) \cup {Cleared(c)}
      BY <2>1, <2>2, <2>3 DEF ClearFlags, UpdateOne, Flagging
    <3>2. e \in subs /\ pc[p] = "clear"
      BY <1>3, <2>3 DEF ClearFlags, At
    <3>3. e = c
      BY <3>2 DEF Matching, MoveInv, OneEach
    <3>4. e = Cleared(c)
      BY <3>1, <3>3
    <3>5. ~Cleared(c).rcl
      BY DEF Matching, Cleared, Doc
    <3> QED  BY <3>4, <3>5
  <2>4. CASE ~(ClearFlags(q) /\ p = q)
    <3>1. CASE p = q
      BY <1>1, <1>2, <2>1, <2>2, <2>4, <3>1, FlaggingStays
    <3>2. CASE p # q
      BY <2>1, <3>2, DoesLocal DEF Local, Flagging, Imsi
    <3> QED  BY <3>1, <3>2
  <2> QED  BY <2>3, <2>4
<1>4. CASE Imsi(p) = i /\ pc[p] = "flag" /\ subs' # subs
  <2>1. Flag(p) /\ body[p].op = "suspend"
    BY <1>4, MoveStepIs DEF Abort, collections, Routed
  <2> QED  BY <1>4, <2>1 DEF Flag, Goto, Flagging, Imsi
<1>5. CASE Imsi(p) = i /\ pc[p] = "insert" /\ body[p].op = "resume" /\ subs' # subs
  <2>1. InsertRaw(p)
    BY <1>5, MoveStepIs DEF Abort, collections
  <2>2. pc'[p] = "delete" /\ body' = body
    BY <1>5, <2>1 DEF InsertRaw, InsertInto, Goto
  <2> QED  BY <1>5, <2>2 DEF Flagging, Imsi
<1>6. CASE e \in subs
  BY <1>3, <1>6
<1> QED  BY <1>3, <1>4, <1>5, <1>6, RclFrom

\* The only change of a resume that the HSS sees lowers flags.
LEMMA ResumeEvent ==
  ASSUME NoReplace, Inv, NEW p \in Request, Does(p), body[p].op = "resume",
         NEW ev \in Events(p)
  PROVE  Done(p)' /\ ev.id = Imsi(p) /\ ev.fields \subseteq {"odb", "rcl"}
<1> USE DEF Inv, TypeInv, TypeOK
<1>1. PICK x \in subs, y \in subs' :
        /\ x.id = y.id /\ x.imsi = Imsi(p) /\ y.imsi = Imsi(p) /\ y \notin subs
        /\ WritesSubs(p, y) /\ Changed(x, y) # {}
        /\ ev = [id |-> Imsi(p), fields |-> Changed(x, y), by |-> p]
  BY OneUpdate
<1>2. \A d, e \in subs : d.imsi = e.imsi => d = e
  BY DEF MoveInv, OneEach
<1>3. y \notin subs
  BY <1>1
<1>4. WritesSubs(p, y)
  BY <1>1
<1>6. CASE pc[p] = "clear"
  <2>1. PICK d \in Matching(subs, Imsi(p)) : y = Cleared(d)
    BY <1>4, <1>6 DEF WritesSubs
  <2>2. d \in subs /\ d \in Doc /\ d.imsi = Imsi(p)
    BY DEF Matching
  <2>3. x = d
    BY <1>1, <1>2, <2>2
  <2>4. \A f \in {"status", "ambr"} : Cleared(d)[f] = d[f]
    BY <2>2 DEF Cleared, Doc
  <2>5. Changed(x, y) \subseteq {"odb", "rcl"}
    BY <2>1, <2>3, <2>4 DEF Changed, HssField
  <2>6. ClearFlags(p)
    BY <1>3, <1>6, MoveStepIs DEF Abort, collections
  <2>7. Done(p)'
    BY <2>6 DEF ClearFlags, Goto, Done
  <2> QED  BY <1>1, <2>5, <2>7
<1>7. CASE pc[p] = "mirrorSubs"
  <2>1. PICK d \in Matching(subs, Imsi(p)) : y = Mirrored(p, d)
    BY <1>4, <1>7 DEF WritesSubs
  <2>2. d \in subs /\ d \in Doc /\ d.imsi = Imsi(p)
    BY DEF Matching
  <2>3. x = d
    BY <1>1, <1>2, <2>2
  <2>4. \A f \in HssField : Mirrored(p, d)[f] = d[f]
    BY <2>2 DEF Mirrored, Doc, HssField
  <2> QED  BY <1>1, <2>1, <2>3, <2>4 DEF Changed
<1>8. CASE pc[p] = "insert"
  BY <1>1, <1>4, <1>8 DEF WritesSubs, HasId
<1> QED  BY <1>4, <1>6, <1>7, <1>8 DEF WritesSubs, Routed

LEMMA NextBy ==
  ASSUME NoReplace, Inv, DetachTypeOK, ByInv, DetachNext
  PROVE  ByInv'
<1> SUFFICES ASSUME NEW ev \in Event, Has(feed, ev)', body'[ev.by].op = "resume"
             PROVE  Done(ev.by)' /\ ev.id = Imsi(ev.by)' /\ ev.fields \subseteq {"odb", "rcl"}
  BY DEF ByInv
<1> PICK b : b = ev.by
  OBVIOUS
<1>1. b \in Request
  BY DEF Event
<1>2. ASSUME NEW p \in Request, StoreStep(p), Does(p)
      PROVE  Done(b)' /\ ev.id = Imsi(b)' /\ ev.fields \subseteq {"odb", "rcl"}
  <2>1. Local(p)
    BY <1>2, DoesLocal DEF Inv
  <2>2. body'[b] = body[b] /\ Imsi(b)' = Imsi(b)
    BY <2>1 DEF Local, Imsi
  <2>3. Done(b) => Done(b)'
    BY <1>1, <1>2, <2>1, DoneStays DEF Local, Done, Inv
  <2>4. CASE Has(feed, ev)
    BY <2>2, <2>3, <2>4 DEF ByInv
  <2>5. CASE ~Has(feed, ev)
    <3>1. PICK v \in Events(p) : feed' = Append(feed, v)
      BY <1>2, <2>5 DEF StoreStep, Has
    <3>2. v \in Event /\ v.by = p
      BY <3>1, EventsType DEF Inv
    <3>3. ev = v
      BY <2>5, <3>1, <3>2, AppendHas DEF DetachTypeOK
    <3>4. b = p /\ body[p].op = "resume"
      BY <2>2, <3>2, <3>3
    <3> QED  BY <1>2, <2>2, <3>1, <3>3, <3>4, ResumeEvent
  <2> QED  BY <2>4, <2>5
<1>3. CASE UNCHANGED vars /\ (Poll \/ UNCHANGED feed)
  <2>1. Has(feed, ev)
    <3>1. CASE Poll
      <4>1. feed \in Seq(Event) /\ feed # <<>> /\ feed' = Tail(feed)
        BY <3>1 DEF Poll, DetachTypeOK
      <4> QED  BY <4>1, TailHas
    <3>2. CASE UNCHANGED feed
      BY <3>2 DEF Has
    <3> QED  BY <1>3, <3>1, <3>2
  <2> QED  BY <1>3, <2>1 DEF ByInv, vars, Done, Imsi
<1> QED  BY <1>2, <1>3, NetworkOnly

LEMMA ResumeSilent ==
  ASSUME Inv, DetachTypeOK, RclInv, ByInv
  PROVE  OnlyAnotherMoveSignals
<1> SUFFICES ASSUME Poll, body[Head(feed).by].op = "resume", s6a' # s6a
             PROVE  /\ s6a'[Len(s6a')].kind = "CLR"
                    /\ \E q \in Request :
                         /\ Same(q, Head(feed).by) /\ body[q].op \in {"suspend", "resume"}
                         /\ pc[q] \in Call
  BY DEF OnlyAnotherMoveSignals
<1> DEFINE ev == Head(feed)
<1>1. feed \in Seq(Event) /\ feed # <<>>
  BY DEF Poll, DetachTypeOK
<1>2. ev \in Event /\ Has(feed, ev)
  BY <1>1, TailHas
<1>3. ev.by \in Request /\ Done(ev.by) /\ ev.id = Imsi(ev.by)
      /\ ev.fields \subseteq {"odb", "rcl"}
  BY <1>2 DEF ByInv, Event
<1>4. PICK d \in subs :
        /\ d.id = ev.id
        /\ IF "rcl" \in ev.fields /\ d.rcl THEN Send("CLR", d)
           ELSE IF ev.fields \cap {"status", "ambr"} # {} THEN Send("IDR", d)
           ELSE UNCHANGED s6a
  BY Zenon DEF Poll
<1>5. ev.fields \cap {"status", "ambr"} = {}
  BY <1>3
<1>6. d.rcl /\ Send("CLR", d)
  BY <1>4, <1>5
<1>7. d.imsi = Imsi(ev.by)
  BY <1>3, <1>4 DEF Inv, MoveInv, Own
<1>8. PICK m : m = [kind |-> "CLR", imsi |-> d.imsi, ambr |-> d.ambr]
  OBVIOUS
<1>9. m \in Message /\ m.kind = "CLR" /\ s6a' = Append(s6a, m) /\ s6a \in Seq(Message)
  BY <1>6, <1>8 DEF Send, Inv, TypeInv, TypeOK, Doc, Message, DetachTypeOK
<1>10. Len(s6a') = Len(s6a) + 1 /\ s6a'[Len(s6a) + 1] = m
  BY <1>9
<1>11. PICK q \in Request : Flagging(q, d.imsi)
  BY <1>6 DEF RclInv
<1>12. q # ev.by
  BY <1>3, <1>11 DEF Flagging, Done
<1>13. Same(q, ev.by) /\ body[q].op \in {"suspend", "resume"} /\ pc[q] \in Call
  BY <1>7, <1>11, <1>12 DEF Same, Flagging, Call
<1> QED  BY <1>9, <1>10, <1>13

LEMMA RclHolds == NoReplace => (DetachSafety => [](RclInv /\ ByInv))
<1> SUFFICES ASSUME NoReplace PROVE DetachSafety => [](RclInv /\ ByInv)
  OBVIOUS
<1>1. DetachInit => RclInv /\ ByInv
  <2> SUFFICES ASSUME DetachInit PROVE RclInv /\ ByInv
    OBVIOUS
  <2>1. \A i : ~NewDoc(i, i).rcl
    BY DEF NewDoc
  <2> QED  BY <2>1 DEF DetachInit, Init, RclInv, ByInv, Has
<1>2. ASSUME Inv, DetachTypeOK, RclInv, ByInv, [DetachNext]_detachVars
      PROVE  RclInv' /\ ByInv'
  <2>1. CASE UNCHANGED detachVars
    BY <1>2, <2>1 DEF detachVars, network, vars, RclInv, ByInv, Flagging, Done, Imsi, Has
  <2>2. CASE DetachNext
    <3>1. UNCHANGED vars => RclInv'
      BY <1>2 DEF vars, RclInv, Flagging, Imsi
    <3>2. RclInv'
      BY <1>2, <2>2, <3>1, NetworkOnly, NextRcl
    <3> QED  BY <1>2, <2>2, <3>2, NextBy
  <2> QED  BY <1>2, <2>1, <2>2
<1> QED
  BY <1>1, <1>2, InvHolds, DetachTypeCorrect, DetachKeepsStore, PTL DEF DetachSafety

\* The HSS signals nothing for a resume, but for the sake of another move of the
\* subscriber that is under way or has died.
THEOREM ResumeIsSilent == NoReplace => (DetachSafety => ResumeSignalsNothing)
<1> SUFFICES ASSUME NoReplace PROVE DetachSafety => ResumeSignalsNothing
  OBVIOUS
<1>1. Inv /\ DetachTypeOK /\ (RclInv /\ ByInv) /\ [DetachNext]_detachVars
        => [OnlyAnotherMoveSignals]_detachVars
  BY ResumeSilent
<1> QED
  BY <1>1, RclHolds, InvHolds, DetachTypeCorrect, DetachKeepsStore, PTL
     DEF DetachSafety, ResumeSignalsNothing
==============================================================================
