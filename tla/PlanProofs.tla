------------------------------ MODULE PlanProofs ------------------------------
(***************************************************************************)
(* How the plan of a document reaches the MME, the bearer and the operator, *)
(* and what the note of telcoctl says of it, proved for any sets of         *)
(* subscribers, requests, plans and addresses.                              *)
(***************************************************************************)
EXTENDS PlanView, DetachProofs

-----------------------------------------------------------------------------
(* The last element of a queue that concerns a subscriber.                       *)

\* The last element of sequence s that is in set K, if there is one.
Lasts(s, K) ==
  {s[n] : n \in {n \in DOMAIN s : s[n] \in K /\ \A m \in DOMAIN s : m > n => s[m] \notin K}}

None(s, K) == \A x \in K : ~Has(s, x)

LEMMA LastsAppend ==
  ASSUME NEW S, NEW s \in Seq(S), NEW x \in S, NEW K
  PROVE  /\ \A y \in Lasts(Append(s, x), K) : IF x \in K THEN y = x ELSE y \in Lasts(s, K)
         /\ x \in K => ~None(Append(s, x), K)
         /\ x \notin K => (None(Append(s, x), K) <=> None(s, K))
<1>1. /\ Append(s, x) \in Seq(S) /\ Len(Append(s, x)) = Len(s) + 1 /\ Len(s) \in Nat
      /\ \A n \in 1..Len(s) : Append(s, x)[n] = s[n]
      /\ Append(s, x)[Len(s) + 1] = x
  OBVIOUS
<1>2. DOMAIN s = 1..Len(s) /\ DOMAIN Append(s, x) = 1..(Len(s) + 1)
  BY <1>1
<1>3. ASSUME NEW y \in Lasts(Append(s, x), K)
      PROVE  IF x \in K THEN y = x ELSE y \in Lasts(s, K)
  <2>1. PICK n \in 1..(Len(s) + 1) :
          /\ y = Append(s, x)[n] /\ Append(s, x)[n] \in K
          /\ \A m \in 1..(Len(s) + 1) : m > n => Append(s, x)[m] \notin K
    BY <1>2 DEF Lasts
  <2>2. CASE n = Len(s) + 1
    BY <1>1, <2>1, <2>2
  <2>3. CASE n # Len(s) + 1
    <3>1. n \in 1..Len(s) /\ Len(s) + 1 > n
      BY <1>1, <2>3
    <3>2. x \notin K
      BY <1>1, <2>1, <3>1
    <3>3. y = s[n] /\ s[n] \in K /\ \A m \in 1..Len(s) : m > n => s[m] \notin K
      BY <1>1, <2>1, <3>1
    <3>4. y \in Lasts(s, K)
      BY <1>2, <3>1, <3>3 DEF Lasts
    <3> QED  BY <3>2, <3>4
  <2> QED  BY <2>2, <2>3
<1> QED  BY <1>3, AppendHas DEF None

LEMMA LastsTail ==
  ASSUME NEW S, NEW s \in Seq(S), s # <<>>, NEW K
  PROVE  /\ \A y \in Lasts(Tail(s), K) : y \in Lasts(s, K)
         /\ None(Tail(s), K) /\ Head(s) \in K => Head(s) \in Lasts(s, K)
         /\ Head(s) \notin K => (None(Tail(s), K) <=> None(s, K))
<1>1. /\ Head(s) = s[1] /\ Len(s) \in Nat /\ Len(s) > 0 /\ Len(Tail(s)) = Len(s) - 1
      /\ Tail(s) \in Seq(S)
      /\ \A n \in 1..(Len(s) - 1) : Tail(s)[n] = s[n + 1]
  OBVIOUS
<1>2. DOMAIN s = 1..Len(s) /\ DOMAIN Tail(s) = 1..(Len(s) - 1)
  BY <1>1
<1>3. \A m \in 1..Len(s) : m # 1 => m - 1 \in 1..(Len(s) - 1) /\ s[m] = Tail(s)[m - 1]
  BY <1>1
<1>4. ASSUME NEW y \in Lasts(Tail(s), K) PROVE y \in Lasts(s, K)
  <2>1. PICK n \in 1..(Len(s) - 1) :
          /\ y = Tail(s)[n] /\ Tail(s)[n] \in K
          /\ \A m \in 1..(Len(s) - 1) : m > n => Tail(s)[m] \notin K
    BY <1>2 DEF Lasts
  <2>2. n + 1 \in 1..Len(s) /\ y = s[n + 1] /\ s[n + 1] \in K
    BY <1>1, <2>1
  <2>3. ASSUME NEW m \in 1..Len(s), m > n + 1 PROVE s[m] \notin K
    <3>1. m # 1 /\ m - 1 > n
      BY <2>3
    <3> QED  BY <1>3, <2>1, <3>1
  <2> QED  BY <1>2, <2>2, <2>3 DEF Lasts
<1>5. ASSUME None(Tail(s), K), Head(s) \in K PROVE Head(s) \in Lasts(s, K)
  <2>1. ASSUME NEW m \in 1..Len(s), m > 1 PROVE s[m] \notin K
    <3>1. m - 1 \in DOMAIN Tail(s) /\ Tail(s)[m - 1] = s[m]
      BY <1>2, <1>3, <2>1
    <3>2. Has(Tail(s), s[m])
      BY <3>1 DEF Has
    <3> QED  BY <1>5, <3>2 DEF None
  <2> QED  BY <1>1, <1>2, <1>5, <2>1 DEF Lasts
<1> QED  BY <1>4, <1>5, TailHas DEF None

-----------------------------------------------------------------------------
(* The plan at the MME.                                                          *)

MsgsOf(i) == {m \in Message : m.imsi = i}

EventsOf(i) == {ev \in Event : ev.id = i}

\* The HSS has yet to see a change of i that makes it send data, or cancel.
Owed(i) == \E ev \in EventsOf(i) : Has(feed, ev) /\ ev.fields \cap {"status", "ambr"} # {}

\* The last that the HSS has sent of i leaves the MME with plan a or with no session.
Told(i, a) == \A m \in Lasts(s6a, MsgsOf(i)) : m.kind = "CLR" \/ m.ambr = a

\* The UE of i has a session under plan a, or none that counts.
Served(i, a) == ue[i] = "attached" /\ ~sess[i].flagged => sess[i].ambr = a

\* The plan of document d is at the MME, or on its way.
Reaches(i, d) ==
  Owed(i) \/ (Told(i, d.ambr) /\ (None(s6a, MsgsOf(i)) => Served(i, d.ambr)))

\* The last that the HSS has sent of i is a CLR, if it is not long processed.
LastCut(i) == \A m \in Lasts(s6a, MsgsOf(i)) : m.kind = "CLR"

\* The last that the HSS will see of i is that he was flagged.
WillCut(i) ==
  /\ \A ev \in Lasts(feed, EventsOf(i)) : "rcl" \in ev.fields
  /\ None(feed, EventsOf(i)) => LastCut(i)

\* Nothing that concerns i is left to come after the CLR.
Gone(i) == None(feed, EventsOf(i)) /\ LastCut(i)

\* A suspend that nothing disturbs leaves no data on the way to the MME that a session
\* attached after the resume could take over.
Withdrawing(i) ==
  \A r \in Request : Suspending(r, i) /\ Holds(subs, i) =>
    IF pc[r] = "find" THEN WillCut(i) ELSE Gone(i)

PlanAt(i) ==
  /\ \A d \in Matching(subs, i) : Reaches(i, d)
  /\ ~Holds(subs, i) => Gone(i)
  /\ Withdrawing(i)

PlanInv == \A i \in IMSI : Undisturbed(i) => PlanAt(i)

LEMMA UndisturbedStays ==
  ASSUME TypeInv, History, NEW p \in Request, Does(p), NEW i, Undisturbed(i)'
  PROVE  Undisturbed(i)
<1>1. body' = body /\ (\A q \in Request : Imsi(q)' = Imsi(q)) /\ Local(p)
  BY DoesLocal DEF Local, Imsi
<1>2. \A q \in Request : q \in aborted => q \in aborted'
  BY <1>1 DEF Local, Ended
<1> QED  BY <1>1, <1>2, OverlapStays DEF Undisturbed

LEMMA UndisturbedIsCalm ==
  ASSUME NEW i, Undisturbed(i)
  PROVE  Calm(i)
BY DEF Undisturbed, Calm

\* What a call of the provisioner adds to the feed.
LEMMA FeedStep ==
  ASSUME NoReplace, Inv, DetachTypeOK, NEW p \in Request, StoreStep(p), Does(p), NEW i
  PROVE  /\ Owed(i) => Owed(i)'
         /\ Imsi(p) # i \/ Events(p) = {} =>
              /\ None(feed, EventsOf(i))' <=> None(feed, EventsOf(i))
              /\ \A ev \in Lasts(feed, EventsOf(i))' : ev \in Lasts(feed, EventsOf(i))
<1>1. CASE feed' = feed
  BY <1>1 DEF Owed, Has, None, Lasts
<1>2. ASSUME NEW v \in Events(p), feed' = Append(feed, v)
      PROVE  /\ Owed(i) => Owed(i)'
             /\ Imsi(p) # i =>
                  /\ None(feed, EventsOf(i))' <=> None(feed, EventsOf(i))
                  /\ \A ev \in Lasts(feed, EventsOf(i))' : ev \in Lasts(feed, EventsOf(i))
  <2>1. v \in Event /\ feed \in Seq(Event)
    BY EventsType DEF Inv, DetachTypeOK
  <2>2. \A ev : Has(feed, ev) => Has(feed', ev)
    BY <1>2, <2>1, AppendHas
  <2>3. v.id = Imsi(p)
    BY OneUpdate
  <2>4. Imsi(p) # i => v \notin EventsOf(i)
    BY <2>3 DEF EventsOf
  <2>5. PICK K : K = EventsOf(i)
    OBVIOUS
  <2>6. v \notin K =>
          /\ None(feed', K) <=> None(feed, K)
          /\ \A ev \in Lasts(feed', K) : ev \in Lasts(feed, K)
    BY <1>2, <2>1, LastsAppend
  <2>7. Owed(i) => Owed(i)'
    BY <2>2 DEF Owed
  <2> QED  BY <2>4, <2>5, <2>6, <2>7
<1> QED  BY <1>1, <1>2 DEF StoreStep

\* A call that leaves the live collection alone signals nothing.
LEMMA ReadsSignalNothing ==
  ASSUME NoReplace, Inv, NEW p \in Request, Does(p), subs' = subs
  PROVE  Events(p) = {}
<1> SUFFICES ASSUME NEW ev \in Events(p) PROVE FALSE
  OBVIOUS
<1> QED  BY OneUpdate

\* A suspend has slept over every event of the subscriber when it finds his document.
LEMMA FindIsLateFor ==
  ASSUME Timely, Inv, NEW r \in Request, StoreStep(r), FindRaw(r), body[r].op = "suspend",
         Holds(subs, Imsi(r)), NEW i, Imsi(r) = i
  PROVE  None(feed, EventsOf(i))
<1>1. pc[r] = "find" /\ r \notin aborted
  BY DEF FindRaw, At
<1>2. ~Accept(r) /\ ~Abort(r)
  BY <1>1 DEF FindRaw, Goto, Accept, Abort, Inv, TypeInv, TypeOK
<1>3. \A n \in DOMAIN feed : \A d \in Matching(subs, Imsi(r)) : feed[n].id # d.id
  BY <1>1, <1>2 DEF StoreStep, Slept
<1>4. PICK d \in Matching(subs, Imsi(r)) : TRUE
  BY DEF Holds
<1>5. d.id = i
  BY DEF Matching, Inv, MoveInv, Own
<1> QED  BY <1>3, <1>5 DEF None, Has, EventsOf

\* What a poll of the HSS sends of subscriber i.
LEMMA PollStep ==
  ASSUME Inv, DetachTypeOK, Poll, NEW i \in IMSI
  PROVE  /\ feed # <<>> /\ feed' = Tail(feed) /\ Head(feed) \in Event
         /\ \/ Head(feed) \notin EventsOf(i) \/ ~Holds(subs, i)
            => \/ s6a' = s6a
               \/ \E m \in Message : m \notin MsgsOf(i) /\ s6a' = Append(s6a, m)
         /\ \A d \in Matching(subs, i) : Head(feed) \in EventsOf(i) =>
              \/ /\ s6a' = s6a
                 /\ Head(feed).fields \cap {"status", "ambr"} = {}
                 /\ ~("rcl" \in Head(feed).fields /\ d.rcl)
              \/ \E m \in MsgsOf(i) :
                   /\ s6a' = Append(s6a, m) /\ m.ambr = d.ambr
                   /\ "rcl" \in Head(feed).fields /\ d.rcl => m.kind = "CLR"
<1>1. feed # <<>> /\ feed' = Tail(feed) /\ Head(feed) \in Event
  <2>1. feed # <<>> /\ feed' = Tail(feed) /\ feed \in Seq(Event)
    BY DEF Poll, DetachTypeOK
  <2> QED  BY <2>1, TailHas
<1>2. Head(feed) \in EventsOf(i) <=> Head(feed).id = i
  BY <1>1 DEF EventsOf
<1>3. \A d \in subs : d.id = d.imsi /\ d.imsi \in IMSI /\ d.ambr \in Ambr
  BY DEF Inv, MoveInv, Own, TypeInv, TypeOK, Doc
<1>4. \/ s6a' = s6a /\ {d \in subs : d.id = Head(feed).id} = {}
      \/ \E d \in subs :
           /\ d.id = Head(feed).id
           /\ IF "rcl" \in Head(feed).fields /\ d.rcl THEN Send("CLR", d)
              ELSE IF Head(feed).fields \cap {"status", "ambr"} # {} THEN Send("IDR", d)
              ELSE UNCHANGED s6a
  BY Zenon DEF Poll
<1>5. CASE s6a' = s6a /\ {d \in subs : d.id = Head(feed).id} = {}
  BY <1>1, <1>2, <1>3, <1>5 DEF Matching
<1>6. ASSUME NEW d \in subs, d.id = Head(feed).id,
             IF "rcl" \in Head(feed).fields /\ d.rcl THEN Send("CLR", d)
             ELSE IF Head(feed).fields \cap {"status", "ambr"} # {} THEN Send("IDR", d)
             ELSE UNCHANGED s6a
      PROVE  /\ \/ Head(feed) \notin EventsOf(i) \/ ~Holds(subs, i)
                => \/ s6a' = s6a
                   \/ \E m \in Message : m \notin MsgsOf(i) /\ s6a' = Append(s6a, m)
             /\ \A e \in Matching(subs, i) : Head(feed) \in EventsOf(i) =>
                  \/ /\ s6a' = s6a
                     /\ Head(feed).fields \cap {"status", "ambr"} = {}
                     /\ ~("rcl" \in Head(feed).fields /\ e.rcl)
                  \/ \E m \in MsgsOf(i) :
                       /\ s6a' = Append(s6a, m) /\ m.ambr = e.ambr
                       /\ "rcl" \in Head(feed).fields /\ e.rcl => m.kind = "CLR"
  <2>1. PICK clr : clr = [kind |-> "CLR", imsi |-> d.imsi, ambr |-> d.ambr]
    OBVIOUS
  <2>2. PICK idr : idr = [kind |-> "IDR", imsi |-> d.imsi, ambr |-> d.ambr]
    OBVIOUS
  <2>3. /\ clr \in Message /\ clr.kind = "CLR" /\ clr.imsi = d.imsi /\ clr.ambr = d.ambr
        /\ idr \in Message /\ idr.imsi = d.imsi /\ idr.ambr = d.ambr
    BY <1>3, <2>1, <2>2 DEF Message
  <2>4. /\ "rcl" \in Head(feed).fields /\ d.rcl => s6a' = Append(s6a, clr)
        /\ ~("rcl" \in Head(feed).fields /\ d.rcl) =>
             IF Head(feed).fields \cap {"status", "ambr"} # {}
               THEN s6a' = Append(s6a, idr) ELSE s6a' = s6a
    BY <1>6, <2>1, <2>2 DEF Send
  <2>5. \A m \in Message : m \in MsgsOf(i) <=> m.imsi = i
    BY DEF MsgsOf
  <2>6. CASE Head(feed).id # i \/ ~Holds(subs, i)
    <3>1. d.imsi # i
      BY <1>3, <1>6, <2>6 DEF Holds, Matching
    <3>2. clr \notin MsgsOf(i) /\ idr \notin MsgsOf(i)
      BY <2>3, <2>5, <3>1
    <3>3. s6a' = s6a \/ s6a' = Append(s6a, clr) \/ s6a' = Append(s6a, idr)
      BY <2>4
    <3>4. Head(feed).id # i \/ Matching(subs, i) = {}
      BY <2>6 DEF Holds
    <3> QED  BY <1>2, <2>3, <3>2, <3>3, <3>4
  <2>7. CASE Head(feed).id = i /\ Holds(subs, i)
    <3>1. d.imsi = i
      BY <1>3, <1>6, <2>7
    <3>2. clr \in MsgsOf(i) /\ idr \in MsgsOf(i)
      BY <2>3, <2>5, <3>1
    <3>3. \A e \in Matching(subs, i) : e = d
      BY <3>1 DEF Matching, Inv, MoveInv, OneEach
    <3> QED  BY <1>2, <2>3, <2>4, <2>7, <3>2, <3>3
  <2> QED  BY <2>6, <2>7
<1> QED  BY <1>1, <1>4, <1>5, <1>6

LEMMA PollPlan ==
  ASSUME Inv, DetachTypeOK, CutInv, Poll, NEW i \in IMSI, Undisturbed(i), PlanAt(i)
  PROVE  PlanAt(i)'
<1>1. UNCHANGED vars /\ UNCHANGED <<ue, sess>>
  BY DEF Poll
<1>2. /\ subs' = subs /\ Matching(subs, i)' = Matching(subs, i)
      /\ Holds(subs, i)' <=> Holds(subs, i)
      /\ \A r \in Request : (Suspending(r, i)' <=> Suspending(r, i)) /\ pc'[r] = pc[r]
  BY <1>1 DEF vars, collections, Holds, Matching, Suspending, Imsi
<1> PICK K, M, h : K = EventsOf(i) /\ M = MsgsOf(i) /\ h = Head(feed)
  OBVIOUS
<1>3. feed \in Seq(Event) /\ s6a \in Seq(Message) /\ feed # <<>> /\ feed' = Tail(feed)
  BY PollStep DEF DetachTypeOK
<1>4. /\ \A ev \in Lasts(feed', K) : ev \in Lasts(feed, K)
      /\ None(feed', K) /\ h \in K => h \in Lasts(feed, K)
      /\ h \notin K => (None(feed', K) <=> None(feed, K))
  BY <1>3, LastsTail
<1>5. \A ev : Has(feed, ev) <=> ev = h \/ Has(feed', ev)
  BY <1>3, TailHas
<1>6. \A m \in Message :
        /\ \A n \in Lasts(Append(s6a, m), M) : IF m \in M THEN n = m ELSE n \in Lasts(s6a, M)
        /\ m \in M => ~None(Append(s6a, m), M)
        /\ m \notin M => (None(Append(s6a, m), M) <=> None(s6a, M))
  BY <1>3, LastsAppend
<1>7. CASE h \notin K \/ ~Holds(subs, i)
  <2>1. s6a' = s6a \/ \E m \in Message : m \notin M /\ s6a' = Append(s6a, m)
    BY <1>7, PollStep
  <2>2. /\ \A n \in Lasts(s6a', M) : n \in Lasts(s6a, M)
        /\ None(s6a', M) <=> None(s6a, M)
    BY <1>6, <2>1
  <2>3. LastCut(i) => LastCut(i)'
    BY <2>2 DEF LastCut
  <2>4. None(feed, K) => None(feed', K)
    BY <1>5 DEF None
  <2>5. ASSUME NEW d \in Matching(subs, i) PROVE Reaches(i, d)'
    <3>1. h \notin K
      BY <1>7, <2>5 DEF Holds
    <3>2. Owed(i) => Owed(i)'
      BY <1>5, <3>1 DEF Owed
    <3>3. Told(i, d.ambr) => Told(i, d.ambr)'
      BY <2>2 DEF Told
    <3>4. Served(i, d.ambr)' <=> Served(i, d.ambr)
      BY <1>1 DEF Served
    <3> QED  BY <2>2, <2>5, <3>2, <3>3, <3>4 DEF Reaches, PlanAt
  <2>6. Gone(i) => Gone(i)'
    BY <2>3, <2>4 DEF Gone
  <2>7. Holds(subs, i) /\ WillCut(i) => WillCut(i)'
    BY <1>4, <1>7, <2>3 DEF WillCut
  <2> QED  BY <1>2, <2>5, <2>6, <2>7 DEF PlanAt, Withdrawing
<1>8. CASE h \in K /\ Holds(subs, i)
  <2>1. ASSUME NEW d \in Matching(subs, i) PROVE Reaches(i, d)'
    <3>1. CASE s6a' = s6a /\ h.fields \cap {"status", "ambr"} = {}
      <4>1. Owed(i) => Owed(i)'
        BY <1>5, <3>1 DEF Owed
      <4> QED  BY <1>1, <2>1, <3>1, <4>1 DEF PlanAt, Reaches, Told, Served
    <3>2. ASSUME NEW m \in M, s6a' = Append(s6a, m), m.ambr = d.ambr PROVE Reaches(i, d)'
      <4>1. m \in Message
        BY DEF MsgsOf
      <4>2. ~None(s6a', M) /\ \A n \in Lasts(s6a', M) : n = m
        BY <1>6, <3>2, <4>1
      <4> QED  BY <3>2, <4>2 DEF Reaches, Told
    <3> QED  BY <1>8, <2>1, <3>1, <3>2, PollStep
  <2>2. ASSUME NEW r \in Request, Suspending(r, i)
        PROVE  pc[r] = "find" /\ WillCut(i)'
    <3>1. ~None(feed, K)
      BY <1>5, <1>8 DEF None
    <3>2. pc[r] = "find" /\ WillCut(i)
      BY <1>8, <2>2, <3>1 DEF PlanAt, Withdrawing, Gone
    <3>3. ASSUME None(feed', K) PROVE LastCut(i)'
      <4>1. "rcl" \in h.fields
        BY <1>4, <1>8, <3>2, <3>3 DEF WillCut
      <4>2. PICK d \in Matching(subs, i) : d.rcl
        BY <1>8, <2>2, UndisturbedIsCalm DEF Holds, CutInv, AllFlagged
      <4>3. PICK m \in M : s6a' = Append(s6a, m) /\ m.kind = "CLR"
        BY <1>8, <4>1, <4>2, PollStep
      <4>4. m \in Message
        BY DEF MsgsOf
      <4> QED  BY <1>6, <4>3, <4>4 DEF LastCut
    <3> QED  BY <1>4, <3>2, <3>3 DEF WillCut
  <2> QED  BY <1>2, <1>8, <2>1, <2>2 DEF PlanAt, Withdrawing
<1> QED  BY <1>7, <1>8

\* The MME's handling of a message is no matter of another subscriber's.
LEMMA MmePlan ==
  ASSUME Inv, DetachTypeOK, CancelLocation \/ InsertSubscriberData,
         NEW i \in IMSI, PlanAt(i)
  PROVE  PlanAt(i)'
<1>1. UNCHANGED vars /\ feed' = feed /\ s6a # <<>> /\ s6a' = Tail(s6a)
  BY DEF CancelLocation, InsertSubscriberData
<1>2. /\ Matching(subs, i)' = Matching(subs, i)
      /\ Holds(subs, i)' <=> Holds(subs, i)
      /\ \A r \in Request : (Suspending(r, i)' <=> Suspending(r, i)) /\ pc'[r] = pc[r]
  BY <1>1 DEF vars, collections, Holds, Matching, Suspending, Imsi
<1> PICK M, h : M = MsgsOf(i) /\ h = Head(s6a)
  OBVIOUS
<1>3. s6a \in Seq(Message)
  BY DEF DetachTypeOK
<1>4. h \in Message
  BY <1>1, <1>3, TailHas
<1>5. /\ \A n \in Lasts(s6a', M) : n \in Lasts(s6a, M)
      /\ None(s6a', M) /\ h \in M => h \in Lasts(s6a, M)
      /\ h \notin M => (None(s6a', M) <=> None(s6a, M))
  BY <1>1, <1>3, LastsTail
<1>6. LastCut(i) => LastCut(i)'
  BY <1>5 DEF LastCut
<1>7. (Gone(i) => Gone(i)') /\ (WillCut(i) => WillCut(i)')
  BY <1>1, <1>6 DEF Gone, WillCut
<1>8. h \in M <=> h.imsi = i
  BY <1>4 DEF MsgsOf
<1>9. ASSUME NEW d \in Matching(subs, i) PROVE Reaches(i, d)'
  <2>1. Owed(i) => Owed(i)'
    BY <1>1 DEF Owed
  <2>2. Told(i, d.ambr) => Told(i, d.ambr)'
    BY <1>5 DEF Told
  <2>3. ASSUME h \notin M PROVE Served(i, d.ambr)' <=> Served(i, d.ambr)
    BY <1>4, <1>8, <2>3
       DEF Served, CancelLocation, InsertSubscriberData, DetachTypeOK, Message
  <2>4. ASSUME h \in M, h.kind = "CLR" \/ h.ambr = d.ambr PROVE Served(i, d.ambr)'
    BY <1>4, <1>8, <2>4
       DEF Served, CancelLocation, InsertSubscriberData, DetachTypeOK, Message, Session
  <2>5. ASSUME Told(i, d.ambr), None(s6a, M) => Served(i, d.ambr), None(s6a', M)
        PROVE  Served(i, d.ambr)'
    BY <1>5, <2>3, <2>4, <2>5 DEF Told
  <2> QED  BY <1>9, <2>1, <2>2, <2>5 DEF PlanAt, Reaches
<1> QED  BY <1>2, <1>7, <1>9 DEF PlanAt, Withdrawing

LEMMA AttachPlan ==
  ASSUME Inv, DetachTypeOK, NEW j \in IMSI, Attach(j), NEW i \in IMSI, PlanAt(i)
  PROVE  PlanAt(i)'
<1>1. UNCHANGED vars /\ feed' = feed /\ s6a' = s6a
  BY DEF Attach, AttachAccept, AttachReject
<1>2. /\ Matching(subs, i)' = Matching(subs, i)
      /\ Holds(subs, i)' <=> Holds(subs, i)
      /\ \A r \in Request : (Suspending(r, i)' <=> Suspending(r, i)) /\ pc'[r] = pc[r]
  BY <1>1 DEF vars, collections, Holds, Matching, Suspending, Imsi
<1>3. (Gone(i)' <=> Gone(i)) /\ (WillCut(i)' <=> WillCut(i))
  BY <1>1 DEF Gone, WillCut, LastCut
<1>4. ASSUME NEW d \in Matching(subs, i), Served(i, d.ambr) PROVE Served(i, d.ambr)'
  <2>1. CASE AttachAccept(j)
    <3>1. PICK e \in Matching(subs, j) :
            sess' = [sess EXCEPT ![j] = [ambr |-> e.ambr, bearer |-> e.ambr,
                                         flagged |-> e.rcl]]
      BY <2>1 DEF AttachAccept
    <3>2. CASE j = i
      <4>1. e = d
        BY <3>1, <3>2 DEF Matching, Inv, MoveInv, OneEach
      <4> QED  BY <3>1, <3>2, <4>1 DEF Served, DetachTypeOK
    <3>3. CASE j # i
      BY <1>4, <2>1, <3>1, <3>3 DEF AttachAccept, Served, DetachTypeOK
    <3> QED  BY <3>2, <3>3
  <2>2. CASE AttachReject(j)
    BY <1>4, <2>2 DEF AttachReject, Served, DetachTypeOK
  <2> QED  BY <2>1, <2>2 DEF Attach
<1>5. ASSUME NEW d \in Matching(subs, i), Reaches(i, d) PROVE Reaches(i, d)'
  BY <1>1, <1>4, <1>5 DEF Reaches, Owed, Told
<1> QED  BY <1>2, <1>3, <1>5 DEF PlanAt, Withdrawing

\* While a move of an undisturbed subscriber is under way, no other request of his is.
LEMMA OnlyTheMove ==
  ASSUME Inv, NEW p \in Request, Does(p), NEW i, Undisturbed(i)',
         NEW q \in Request, Imsi(q) = i, body[q].op \in {"suspend", "resume"},
         pc[q] # "idle", ~Ended(q), Imsi(p) = i
  PROVE  p = q
<1> SUFFICES ASSUME p # q PROVE FALSE
  OBVIOUS
<1>1. body' = body /\ Imsi(q)' = Imsi(q)
  BY DoesLocal DEF Inv, Local, Imsi
<1>2. ~Overlap(p, q)'
  BY <1>1 DEF Undisturbed
<1>3. Same(p, q)
  BY DEF Same
<1> QED  BY <1>2, <1>3, StepsAfter DEF Inv

\* Before leg 1 of a suspend that nothing disturbs, no flag is up.
LEMMA UnflaggedBefore ==
  ASSUME Inv, RclInv, NEW r \in Request, Flag(r), body[r].op = "suspend",
         Undisturbed(Imsi(r)), NEW d \in Matching(subs, Imsi(r))
  PROVE  ~d.rcl
<1> SUFFICES ASSUME d.rcl PROVE FALSE
  OBVIOUS
<1>1. d \in subs /\ d.imsi = Imsi(r)
  BY DEF Matching
<1>2. PICK q \in Request : Flagging(q, Imsi(r))
  BY <1>1 DEF RclInv
<1>3. pc[r] = "flag" /\ r \notin aborted
  BY DEF Flag, At
<1>4. Same(q, r) /\ pc[q] \in Call /\ body[q].op \in {"suspend", "resume"}
  BY <1>2, <1>3 DEF Flagging, Same, Call
<1>5. q \notin aborted /\ ~Overlap(r, q)
  BY <1>2, <1>4 DEF Undisturbed, Flagging
<1>6. ~Overlap(q, r)
  BY <1>5 DEF Overlap, Same
<1>7. pc[q] # "idle" /\ pc[r] # "idle" /\ ~Ended(r) /\ ~Ended(q)
  BY <1>3, <1>4, <1>5 DEF Call, Ended, Answer
<1> QED  BY <1>4, <1>6, <1>7, OverBeside DEF Inv

\* A document written leaves its plan with the MME or the change in the feed.
LEMMA ReachesStep ==
  ASSUME NoReplace, Inv, DetachTypeOK, CutInv, NEW p \in Request, StoreStep(p), Does(p),
         NEW i \in IMSI, Undisturbed(i), PlanAt(i), NEW e \in Matching(subs, i)'
  PROVE  Reaches(i, e)'
<1> USE DEF Inv, TypeInv, TypeOK
<1>1. UNCHANGED <<s6a, ue, sess>>
  BY DEF StoreStep
<1>2. e \in subs' /\ e \in Doc /\ e.imsi = i
  BY NextType DEF Next, Does, Matching
<1>3. \A a : Told(i, a) /\ (None(s6a, MsgsOf(i)) => Served(i, a))
             => Told(i, a)' /\ (None(s6a, MsgsOf(i)) => Served(i, a))'
  BY <1>1 DEF Told, Served
<1>4. ASSUME NEW d \in Matching(subs, i) PROVE Reaches(i, e)'
  <2>1. CASE d.ambr = e.ambr
    BY <1>3, <2>1, FeedStep DEF PlanAt, Reaches
  <2>2. CASE d.ambr # e.ambr
    <3>1. "ambr" \in Changed(d, e) /\ d \in subs /\ d.imsi = e.imsi
      BY <1>2, <2>2, ChangedFields DEF Matching
    <3>2. PICK ev \in Event : /\ feed' = Append(feed, ev)
                              /\ ev.id = i /\ ev.fields = Changed(d, e)
      BY <1>2, <3>1, UpdateIsSeen
    <3>3. Has(feed', ev)
      BY <3>2, AppendHas DEF DetachTypeOK
    <3> QED  BY <3>1, <3>2, <3>3 DEF Reaches, Owed, EventsOf
  <2> QED  BY <2>1, <2>2
<1>5. CASE ~Holds(subs, i)
  <2>1. Gone(i) /\ Cut(i)
    BY <1>5, UndisturbedIsCalm DEF PlanAt, CutInv
  <2>2. Told(i, e.ambr)
    BY <2>1 DEF Gone, LastCut, Told
  <2>3. None(s6a, MsgsOf(i)) => Served(i, e.ambr)
    BY <2>1 DEF Cut, Served, None, MsgsOf
  <2> QED  BY <1>3, <2>2, <2>3 DEF Reaches
<1> QED  BY <1>4, <1>5 DEF Holds

\* A suspend under way goes on as its sleep and the feed have left it.
LEMMA WithdrawingStep ==
  ASSUME NoReplace, Timely, Inv, DetachTypeOK, RclInv,
         NEW p \in Request, StoreStep(p), Does(p),
         NEW i \in IMSI, Undisturbed(i)', Undisturbed(i), PlanAt(i),
         NEW r \in Request, Suspending(r, i)', Holds(subs, i)'
  PROVE  IF pc'[r] = "find" THEN WillCut(i)' ELSE Gone(i)'
<1> USE DEF Inv, TypeInv, TypeOK
<1>1. Local(p) /\ UNCHANGED <<s6a, ue, sess>>
  BY DoesLocal DEF StoreStep
<1>2. body' = body /\ Imsi(r) = i /\ body[r].op = "suspend" /\ r \notin aborted
  BY <1>1 DEF Local, Suspending, Imsi, Ended
<1>3. LastCut(i)' <=> LastCut(i)
  BY <1>1 DEF LastCut
<1>4. Imsi(p) # i \/ Events(p) = {} =>
        (WillCut(i) => WillCut(i)') /\ (Gone(i) => Gone(i)')
  BY <1>3, FeedStep DEF WillCut, Gone
<1>5. Suspending(r, i) /\ p # r => Imsi(p) # i
  BY <1>2, OnlyTheMove DEF Suspending, Ended, Answer
<1>6. Suspending(r, i) => Holds(subs, i)
  <2> SUFFICES ASSUME Suspending(r, i), ~Holds(subs, i) PROVE FALSE
    OBVIOUS
  <2>1. /\ Imsi(p) = i
        /\ \/ pc[p] = "insert" /\ body[p].op = "resume"
           \/ pc[p] = "insertNew"
    BY HoldsSubs
  <2>2. p # r
    BY <1>2, <2>1, NoAdds
  <2> QED  BY <1>5, <2>1, <2>2
<1>7. CASE p # r
  <2>1. Suspending(r, i) /\ pc'[r] = pc[r]
    BY <1>1, <1>2, <1>7 DEF Local, Suspending
  <2> QED  BY <1>4, <1>5, <1>6, <1>7, <2>1 DEF PlanAt, Withdrawing
<1>8. CASE p = r
  <2> USE DEF At, Goto, Suspending
  <2>1. CASE Accept(r)
    <3>1. FirstCall(body[r]) = "flag"
      BY <1>2 DEF FirstCall, Reads
    <3> QED  BY <2>1, <3>1 DEF Accept
  <2>2. CASE Abort(r)
    BY <2>2 DEF Abort
  <2>3. CASE Flag(r)
    <3>1. PICK d \in Matching(subs, i) : subs' = (subs \ {d}) \cup {Barred(d)}
      <4>1. Holds(subs, i)
        BY <1>8, <2>3, HoldsSubs DEF Flag
      <4> QED  BY <1>2, <2>3, <4>1 DEF Flag, UpdateOne
    <3>2. ~d.rcl /\ d \in subs /\ d \in Doc /\ d.imsi = i
      BY <1>2, <2>3, UnflaggedBefore DEF Matching
    <3>3. Barred(d) \in subs' /\ Barred(d) \in Doc /\ Barred(d).imsi = i /\ Barred(d).rcl
      BY <3>1, <3>2 DEF Barred, Doc
    <3>4. PICK e : e = Barred(d)
      OBVIOUS
    <3>5. "rcl" \in Changed(d, e)
      BY <3>2, <3>3, <3>4, ChangedFields
    <3>6. PICK ev \in Event : feed' = Append(feed, ev) /\ ev.id = i
                              /\ ev.fields = Changed(d, e)
      BY <1>8, <3>2, <3>3, <3>4, <3>5, UpdateIsSeen
    <3>7. ev \in EventsOf(i) /\ feed \in Seq(Event)
      BY <3>6 DEF EventsOf, DetachTypeOK
    <3>8. PICK K : K = EventsOf(i)
      OBVIOUS
    <3>9. ~None(feed', K) /\ \A y \in Lasts(feed', K) : y = ev
      BY <3>6, <3>7, <3>8, LastsAppend
    <3> QED  BY <2>3, <3>5, <3>6, <3>8, <3>9 DEF Flag, WillCut
  <2>4. CASE FindRaw(r)
    <3>1. Suspending(r, i) /\ pc[r] = "find"
      BY <1>2, <2>4 DEF FindRaw
    <3>2. WillCut(i)
      BY <1>6, <3>1 DEF PlanAt, Withdrawing
    <3>3. None(feed, EventsOf(i))
      BY <1>2, <1>6, <1>8, <2>4, <3>1, FindIsLateFor
    <3>4. Gone(i)
      BY <3>2, <3>3 DEF WillCut, Gone
    <3>5. subs' = subs /\ Events(p) = {}
      BY <1>8, <2>4, ReadsSignalNothing DEF FindRaw, collections
    <3>6. pc'[r] # "find"
      BY <1>2, <1>6, <2>4, <3>1 DEF FindRaw, From
    <3> QED  BY <1>4, <3>4, <3>5, <3>6
  <2>5. CASE InsertRaw(r)
    <3>1. Suspending(r, i) /\ pc[r] = "insert" /\ pc'[r] # "find" /\ subs' = subs
      BY <1>2, <2>5 DEF InsertRaw, InsertInto
    <3>2. Gone(i)
      BY <1>6, <3>1 DEF PlanAt, Withdrawing
    <3> QED  BY <1>4, <1>8, <3>1, <3>2, ReadsSignalNothing
  <2>6. CASE CountTarget(r) \/ DeleteRaw(r) \/ ClearFlags(r)
    BY <1>2, <2>6 DEF CountTarget, DeleteRaw, ClearFlags, AfterMove
  <2>7. CASE FieldStep(r) \/ ReplaceStep(r) \/ ReadStep(r) \/ AuditStep(r)
    BY <1>2, <2>7
       DEF FieldStep, SetSubs, SetSuspended, UnsetSubs, UnsetSuspended, ReplaceStep,
           PurgeSubs, PurgeSuspended, InsertNew, ReadStep, ReadSubs, ReadSuspended,
           AuditStep, AppendAudit, AuditFails, MirrorSubs, MirrorSuspended, Routed, Reads
  <2> QED  BY <1>8, <2>1, <2>2, <2>3, <2>4, <2>5, <2>6, <2>7 DEF Does, Step, MoveStep
<1> QED  BY <1>7, <1>8

LEMMA StorePlan ==
  ASSUME NoReplace, Timely, Inv, DetachTypeOK, CutInv, RclInv,
         NEW p \in Request, StoreStep(p), Does(p),
         NEW i \in IMSI, Undisturbed(i)', Undisturbed(i), PlanAt(i)
  PROVE  PlanAt(i)'
<1>1. ASSUME ~Holds(subs, i)' PROVE Gone(i)'
  <2>1. UNCHANGED s6a
    BY DEF StoreStep
  <2>2. Events(p) = {} \/ Imsi(p) # i
    <3> SUFFICES ASSUME NEW ev \in Events(p), Imsi(p) = i PROVE FALSE
      OBVIOUS
    <3>1. PICK e \in subs' : e.imsi = Imsi(p)
      BY OneUpdate
    <3> QED  BY <1>1, <3>1 DEF Holds, Matching
  <2>3. Gone(i)
    <3>1. CASE ~Holds(subs, i)
      BY <3>1 DEF PlanAt
    <3>2. CASE Holds(subs, i)
      <4>1. Imsi(p) = i /\ DeletesSubs(p)
        BY <1>1, <3>2, HoldsSubs DEF Inv
      <4>2. pc[p] = "delete" /\ body[p].op = "suspend" /\ p \notin aborted
        BY <4>1, NoAdds, DoesLocal DEF DeletesSubs, Local, Ended, Inv
      <4>3. Suspending(p, i)
        BY <4>1, <4>2 DEF Suspending
      <4> QED  BY <3>2, <4>2, <4>3 DEF PlanAt, Withdrawing
    <3> QED  BY <3>1, <3>2
  <2> QED  BY <2>1, <2>2, <2>3, FeedStep DEF Gone, LastCut
<1>2. Withdrawing(i)'
  BY WithdrawingStep DEF Withdrawing
<1>3. \A e \in Matching(subs, i)' : Reaches(i, e)'
  BY ReachesStep
<1> QED  BY <1>1, <1>2, <1>3 DEF PlanAt

\* The plan of a live document is at the MME, in a message on its way, or in an event
\* the HSS has yet to poll.
LEMMA PlanHolds ==
  NoReplace /\ Timely => (DetachSafety => [](Inv /\ DetachTypeOK /\ PlanInv))
<1> SUFFICES ASSUME NoReplace, Timely
             PROVE  DetachSafety => [](Inv /\ DetachTypeOK /\ PlanInv)
  OBVIOUS
<1>1. DetachInit => PlanInv
  <2> SUFFICES ASSUME DetachInit, NEW i \in IMSI PROVE PlanAt(i)
    BY DEF PlanInv
  <2>1. feed = <<>> /\ s6a = <<>> /\ sess[i] = NoSession
    BY DEF DetachInit
  <2>2. /\ \A x : ~Has(feed, x) /\ ~Has(s6a, x)
        /\ \A K : Lasts(feed, K) = {} /\ Lasts(s6a, K) = {}
    BY <2>1 DEF Has, Lasts
  <2>3. \A d \in Matching(subs, i) : d.ambr = DefaultAmbr
    BY DEF DetachInit, Init, Matching, NewDoc
  <2>4. \A r \in Request : ~Suspending(r, i)
    BY DEF DetachInit, Init, Suspending
  <2>5. sess[i].ambr = DefaultAmbr
    BY <2>1 DEF NoSession
  <2> QED
    BY <2>2, <2>3, <2>4, <2>5
       DEF PlanAt, Reaches, Told, Served, Gone, None, LastCut, Withdrawing
<1>2. ASSUME Inv, DetachTypeOK, CutInv, RclInv, PlanInv, [DetachNext]_detachVars
      PROVE  PlanInv'
  <2>1. CASE UNCHANGED detachVars
    BY <1>2, <2>1
       DEF detachVars, network, vars, PlanInv, PlanAt, Undisturbed, Overlap, Same, NotYet,
           EndedBefore, Imsi, Matching, Holds, Reaches, Owed, Told, Served, None, Has, Lasts,
           Gone, LastCut, WillCut, Withdrawing, Suspending
  <2>2. ASSUME DetachNext, NEW i \in IMSI, Undisturbed(i)' PROVE PlanAt(i)'
    <3>1. ASSUME NEW p \in Request, StoreStep(p), Does(p) PROVE PlanAt(i)'
      <4>1. Undisturbed(i)
        BY <1>2, <2>2, <3>1, UndisturbedStays DEF Inv
      <4> QED  BY <1>2, <2>2, <3>1, <4>1, StorePlan DEF PlanInv
    <3>2. ASSUME UNCHANGED vars PROVE PlanAt(i)
      <4>1. Undisturbed(i)
        BY <2>2, <3>2 DEF vars, Undisturbed, Overlap, Same, NotYet, EndedBefore, Imsi
      <4> QED  BY <1>2, <4>1 DEF PlanInv
    <3>3. CASE Poll /\ UNCHANGED vars
      <4>1. Undisturbed(i)
        BY <2>2, <3>3 DEF vars, Undisturbed, Overlap, Same, NotYet, EndedBefore, Imsi
      <4> QED  BY <1>2, <3>2, <3>3, <4>1, PollPlan
    <3>4. CASE (CancelLocation \/ InsertSubscriberData) /\ UNCHANGED vars
      BY <1>2, <3>2, <3>4, MmePlan
    <3>5. CASE \E j \in IMSI : Attach(j) /\ UNCHANGED vars
      BY <1>2, <3>2, <3>5, AttachPlan
    <3> QED  BY <2>2, <3>1, <3>3, <3>4, <3>5, NetworkOnly
  <2> QED  BY <1>2, <2>1, <2>2 DEF PlanInv
<1> QED
  BY <1>1, <1>2, CutHolds, RclHolds, DetachTypeCorrect, DetachKeepsStore, PTL
     DEF DetachSafety

\* Once nothing is under way any more, a live subscriber is served under the plan of
\* his document.
THEOREM PlanIsServed == NoReplace /\ Timely => (DetachSafety => []PlanReachesMme)
<1> SUFFICES ASSUME NoReplace, Timely PROVE DetachSafety => []PlanReachesMme
  OBVIOUS
<1>1. ASSUME Inv, DetachTypeOK, PlanInv PROVE PlanReachesMme
  <2> SUFFICES ASSUME NEW i \in IMSI, ue[i] = "attached", Settled(i), ~sess[i].flagged,
                      Undisturbed(i), NEW d \in Matching(subs, i)
               PROVE  sess[i].ambr = d.ambr
    BY DEF PlanReachesMme
  <2>1. d \in subs /\ d.imsi = i /\ d.id = i
    BY <1>1 DEF Matching, Inv, MoveInv, Own
  <2>2. ~Owed(i)
    BY <2>1 DEF Settled, Owed, EventsOf, Has
  <2>3. None(s6a, MsgsOf(i))
    BY DEF Settled, None, MsgsOf, Has
  <2> QED  BY <1>1, <2>2, <2>3 DEF PlanInv, PlanAt, Reaches, Served
<1> QED  BY <1>1, PlanHolds, PTL

-----------------------------------------------------------------------------
(* The plan on the bearer, which only an attach sets: once a plan stands, whoever      *)
(* attaches attaches to a document that carries it.  So a UE that was detached at some  *)
(* moment after that has the plan on its bearer, or is still out.                       *)

\* Plan p is made, no other plan after it is asked for, and all moves come after it.
Stands(p) ==
  /\ body[p].op = "plan" /\ Edit(p) /\ EditDone(p) /\ Quiet(p)
  /\ \A q \in Request : Same(q, p) /\ Moving(q) => EndedBefore(p, q) \/ pc[q] = "idle"

\* Resume r was sent after plan p was answered, while the UE was detached.
SentInTime(r, p) == body[r].op = "resume" /\ Same(r, p) /\ EndedBefore(p, r) /\ r \in seen

Renewed(i, a) == ue[i] = "attached" => sess[i].bearer = a

BearerInv ==
  /\ \A r \in seen : pc[r] # "idle"
  /\ \A p, r \in Request : Stands(p) /\ SentInTime(r, p) => Renewed(Imsi(p), body[p].ambr)

\* An attach finds the plan in the document.
LEMMA AttachesToPlan ==
  ASSUME Inv, EditInv, NEW p \in Request, Stands(p), NEW d \in Matching(subs, Imsi(p))
  PROVE  d.ambr = body[p].ambr
BY DEF Stands, EditInv, Carries

\* What the MME and the UE do to the sessions.
LEMMA SessionStep ==
  ASSUME Inv, DetachTypeOK, DetachNext, NEW i \in IMSI
  PROVE  \/ ue'[i] # "attached"
         \/ ue[i] = "attached" /\ sess'[i].bearer = sess[i].bearer
         \/ \E d \in Matching(subs, i) :
              /\ UNCHANGED vars
              /\ sess'[i].bearer = d.ambr
<1> USE DEF DetachTypeOK
<1>1. CASE (\E r \in Request : StoreStep(r)) \/ Poll
  BY <1>1 DEF StoreStep, Poll
<1>2. CASE CancelLocation
  BY <1>2 DEF CancelLocation, Message
<1>3. CASE InsertSubscriberData
  <2>1. Head(s6a) \in Message
    BY <1>3 DEF InsertSubscriberData
  <2> QED  BY <1>3, <2>1 DEF InsertSubscriberData, Session, Message
<1>4. ASSUME NEW j \in IMSI, AttachAccept(j)
      PROVE  \/ sess'[i] = sess[i] /\ ue'[i] = ue[i]
             \/ \E d \in Matching(subs, i) :
                  /\ UNCHANGED vars
                  /\ sess'[i].bearer = d.ambr
  BY <1>4 DEF AttachAccept
<1>5. ASSUME NEW j \in IMSI, AttachReject(j)
      PROVE  sess'[i] = sess[i] /\ (ue'[i] = "attached" => ue[i] = "attached")
  BY <1>5 DEF AttachReject
<1> QED  BY <1>1, <1>2, <1>3, <1>4, <1>5 DEF DetachNext, Attach

\* Before a plan stands there is no move.
LEMMA StandsFrom ==
  ASSUME Inv, NEW x \in Request, Does(x), NEW p \in Request, Stands(p)'
  PROVE  \/ Stands(p)
         \/ x = p /\ \A q \in Request : Imsi(q) = Imsi(p) /\ Moving(q) => pc[q] = "idle"
<1> USE DEF Inv, TypeInv, TypeOK
<1>1. Local(x) /\ body' = body
  BY DoesLocal DEF Local
<1>2. body[p].op = "plan" /\ Edit(p)
  BY <1>1 DEF Stands, Edit, Local, Ended
<1>3. ASSUME NEW q \in Request, Same(q, p), Moving(q), pc[q] # "idle"
      PROVE  EndedBefore(p, q) /\ Ended(p)
  <2>1. EndedBefore(p, q)'
    BY <1>1, <1>3 DEF Stands, Same, Moving, Local, Imsi
  <2>2. EndedBefore(p, q)
    BY <1>1, <1>3, <2>1 DEF EndedBefore, Local
  <2> QED  BY <2>2 DEF EndedBefore, History
<1>4. CASE x = p
  <2>1. ~Ended(p)
    BY <1>1, <1>4 DEF Local
  <2> QED  BY <1>2, <1>3, <1>4, <2>1 DEF Same, Moving
<1>5. CASE x # p
  <2>1. pc'[p] = pc[p]
    BY <1>1, <1>5 DEF Local
  <2>2. EditDone(p) /\ pc[p] # "idle"
    BY <2>1 DEF Stands, EditDone
  <2>3. Quiet(p)
    BY <2>2, QuietStays DEF Stands
  <2> QED  BY <1>2, <1>3, <2>2, <2>3 DEF Stands
<1> QED  BY <1>4, <1>5

\* A session that has the plan, and a UE that has none, end up with the plan or none.
LEMMA RenewedStays ==
  ASSUME Inv, DetachTypeOK, EditInv, DetachNext, NEW p \in Request, Stands(p),
         Renewed(Imsi(p), body[p].ambr)
  PROVE  Renewed(Imsi(p), body[p].ambr)'
<1>1. Imsi(p) \in IMSI /\ body' = body
  <2>1. body' = body
    BY NetworkOnly, DoesLocal DEF Local, vars, Inv
  <2> QED  BY <2>1 DEF Imsi, Body, Inv, TypeInv, TypeOK
<1>2. \A d \in Matching(subs, Imsi(p)) : d.ambr = body[p].ambr
  BY AttachesToPlan
<1> QED  BY <1>1, <1>2, SessionStep DEF Renewed, Imsi

LEMMA NextBearer ==
  ASSUME NoReplace, Inv, DetachTypeOK, EditInv, BearerInv, DetachNext
  PROVE  BearerInv'
<1>1. CASE UNCHANGED <<vars, seen>>
  <2> SUFFICES ASSUME NEW p \in Request, NEW r \in Request, Stands(p)', SentInTime(r, p)'
               PROVE  Renewed(Imsi(p), body[p].ambr)'
    BY <1>1 DEF BearerInv, vars
  <2>1. Stands(p)
    BY <1>1 DEF vars, Stands, Edit, EditDone, Quiet, NoMoveBeside, Moving, Past, EndedBefore,
                Overlap, NotYet, Same, Imsi
  <2>2. SentInTime(r, p)
    BY <1>1 DEF vars, SentInTime, Same, EndedBefore, Imsi
  <2> QED  BY <2>1, <2>2, RenewedStays DEF BearerInv
<1>2. ASSUME NEW x \in Request, StoreStep(x), Does(x) PROVE BearerInv'
  <2>1. Local(x) /\ body' = body
    BY <1>2, DoesLocal DEF Local, Inv
  <2>2. \A q \in seen' : pc'[q] # "idle"
    BY <1>2, <2>1 DEF StoreStep, SentDetached, Local, BearerInv, DetachTypeOK
  <2> SUFFICES ASSUME NEW p \in Request, NEW r \in Request, Stands(p)', SentInTime(r, p)'
               PROVE  Renewed(Imsi(p), body[p].ambr)'
    BY <2>2 DEF BearerInv
  <2>3. body[r].op = "resume" /\ Same(r, p)
    BY <2>1 DEF SentInTime, Same, Imsi
  <2>4. Stands(p)
    <3>1. CASE x = p
      <4>1. EndedBefore(p, r) /\ Ended(p)
        BY <2>1, <2>3, <3>1 DEF SentInTime, EndedBefore, Same, Local, Inv, History
      <4> QED  BY <2>1, <3>1, <4>1 DEF Local
    <3>2. CASE x # p
      BY <1>2, <3>2, StandsFrom
    <3> QED  BY <3>1, <3>2
  <2>5. Renewed(Imsi(p), body[p].ambr)
    <3>1. CASE SentInTime(r, p)
      BY <2>4, <3>1 DEF BearerInv
    <3>2. CASE ~SentInTime(r, p)
      <4>1. r \in seen' /\ p \in before'[r]
        BY DEF SentInTime, EndedBefore
      <4>2. x = r /\ pc[r] = "idle" /\ ue[Imsi(r)] # "attached"
        <5>1. x = r
          BY <1>2, <2>1, <2>3, <3>2, <4>1 DEF SentInTime, EndedBefore, Local, StoreStep, SentDetached
        <5>2. pc[r] = "idle"
          BY <1>2, <2>1, <2>3, <3>2, <4>1, <5>1 DEF SentInTime, EndedBefore, Local, StoreStep, SentDetached
        <5> QED  BY <1>2, <4>1, <5>1, <5>2 DEF StoreStep, SentDetached, BearerInv
      <4> QED  BY <2>3, <4>2 DEF Same, Renewed
    <3> QED  BY <3>1, <3>2
  <2> QED  BY <2>4, <2>5, RenewedStays
<1> QED
  BY <1>1, <1>2, NetworkOnly
     DEF Poll, CancelLocation, InsertSubscriberData, Attach, AttachAccept, AttachReject

\* A new plan is on the bearer of a subscriber who was resumed after the detach had been
\* seen, as soon as he is attached, however late the HSS polls and whatever moves die.
THEOREM PlanIsBorne == NoReplace => (DetachSafety => []PlanTakesHold)
<1> SUFFICES ASSUME NoReplace PROVE DetachSafety => []PlanTakesHold
  OBVIOUS
<1>1. DetachInit => BearerInv
  BY DEF DetachInit, BearerInv, SentInTime
<1>2. ASSUME UNCHANGED detachVars, BearerInv PROVE BearerInv'
  BY <1>2 DEF detachVars, network, vars, BearerInv, Stands, SentInTime, Renewed, Moving, Imsi,
              Edit, EditDone, Quiet, NoMoveBeside, Past, EndedBefore, Overlap, NotYet, Same
<1>3. (Inv /\ DetachTypeOK /\ EditInv) /\ BearerInv /\ [DetachNext]_detachVars => BearerInv'
  BY <1>2, NextBearer
<1>4. ASSUME Inv, BearerInv PROVE PlanTakesHold
  <2> SUFFICES ASSUME NEW p \in Request, NEW r \in Request,
                      body[p].op = "plan", pc[p] = "ok",
                      body[r].op = "resume", Imsi(r) = Imsi(p), EndedBefore(p, r), r \in seen,
                      \A q \in Request :
                        /\ Same(q, p) /\ body[q].op = "plan" => Past(q, p)
                        /\ Same(q, p) /\ body[q].op \in {"suspend", "resume"} =>
                             EndedBefore(p, q) \/ pc[q] = "idle",
                      ue[Imsi(p)] = "attached"
               PROVE  sess[Imsi(p)].bearer = body[p].ambr
    BY DEF PlanTakesHold, Past
  <2>1. p \notin aborted
    BY <1>4 DEF Inv, History, Call
  <2>2. NoMoveBeside(p)
    BY DEF NoMoveBeside, Moving, Overlap, NotYet
  <2>3. Stands(p)
    BY <2>1, <2>2 DEF Stands, Edit, EditDone, Quiet, Moving
  <2>4. SentInTime(r, p)
    BY DEF SentInTime, Same
  <2>5. Renewed(Imsi(p), body[p].ambr)
    BY <1>4, <2>3, <2>4 DEF BearerInv
  <2> QED  BY <2>5 DEF Renewed
<1>5. DetachSafety => [](Inv /\ DetachTypeOK /\ EditInv)
  BY InvHolds, EditHolds, DetachTypeCorrect, DetachKeepsStore, PTL
<1> QED  BY <1>1, <1>3, <1>4, <1>5, PTL DEF DetachSafety

-----------------------------------------------------------------------------
(* Rates and their text.                                                         *)

LEMMA DivMod ==
  ASSUME NEW n \in Nat, NEW m \in Nat, m > 0
  PROVE  n = m * (n \div m) + (n % m) /\ n \div m \in Nat
OBVIOUS

LEMMA DivTimes ==
  ASSUME NEW v \in Nat, NEW m \in Nat, m > 0
  PROVE  (v * m) \div m = v /\ (v * m) % m = 0 /\ v * m \in Nat
OBVIOUS

LEMMA DivUnits ==
  /\ \A u \in Unit : Div[u + 1] \in Nat /\ Div[u + 1] > 0
  /\ \A u, w \in Unit : u < w => \E c \in Nat : Div[w + 1] = (c * Kilo) * Div[u + 1]
<1>1. Kilo \in Nat /\ Kilo > 1
  BY PlanAssumption
<1>2. PICK k2, k3, k4 \in Nat :
        /\ k2 = Kilo * Kilo /\ k3 = Kilo * Kilo * Kilo /\ k4 = Kilo * Kilo * Kilo * Kilo
        /\ k2 > 0 /\ k3 > 0 /\ k4 > 0
  <2>1. \A x, y \in Nat : x > 0 /\ y > 0 => x * y \in Nat /\ x * y > 0
    OBVIOUS
  <2> QED  BY <1>1, <2>1
<1>3. Div = <<1, Kilo, k2, k3, k4>>
  BY <1>2 DEF Div
<1>4. /\ Div[0 + 1] = 1 /\ Div[1 + 1] = Kilo /\ Div[2 + 1] = k2 /\ Div[3 + 1] = k3
      /\ Div[4 + 1] = k4
  BY <1>3
<1>5. \A u \in Unit : u = 0 \/ u = 1 \/ u = 2 \/ u = 3 \/ u = 4
  BY DEF Unit
<1>6. \A u \in Unit : Div[u + 1] \in Nat /\ Div[u + 1] > 0
  BY <1>1, <1>2, <1>4, <1>5
<1>7. /\ Kilo = (1 * Kilo) * 1 /\ k2 = (Kilo * Kilo) * 1 /\ k3 = (k2 * Kilo) * 1
      /\ k4 = (k3 * Kilo) * 1
      /\ k2 = (1 * Kilo) * Kilo /\ k3 = (Kilo * Kilo) * Kilo /\ k4 = (k2 * Kilo) * Kilo
      /\ k3 = (1 * Kilo) * k2 /\ k4 = (Kilo * Kilo) * k2
      /\ k4 = (1 * Kilo) * k3
  BY <1>1, <1>2
<1>8. ASSUME NEW u \in Unit, NEW w \in Unit, u < w
      PROVE  \E c \in {1, Kilo, k2, k3} : Div[w + 1] = (c * Kilo) * Div[u + 1]
  <2>1. CASE u = 0
    BY <1>4, <1>5, <1>7, <1>8, <2>1
  <2>2. CASE u = 1
    BY <1>4, <1>5, <1>7, <1>8, <2>2
  <2>3. CASE u = 2
    BY <1>4, <1>5, <1>7, <1>8, <2>3
  <2>4. CASE u = 3 \/ u = 4
    BY <1>4, <1>5, <1>7, <1>8, <2>4
  <2> QED  BY <1>5, <2>1, <2>2, <2>3, <2>4
<1>9. {1, Kilo, k2, k3} \subseteq Nat
  BY <1>1
<1> QED  BY <1>6, <1>8, <1>9

LEMMA MaxUnit ==
  ASSUME NEW S \in SUBSET Unit, S # {}
  PROVE  Max(S) \in S /\ \A u \in S : u <= Max(S)
<1>1. \E m \in S : \A u \in S : u <= m
  <2>1. \A u \in S : u = 0 \/ u = 1 \/ u = 2 \/ u = 3 \/ u = 4
    BY DEF Unit
  <2>2. CASE 4 \in S
    BY <2>1, <2>2
  <2>3. CASE 4 \notin S /\ 3 \in S
    BY <2>1, <2>3
  <2>4. CASE 4 \notin S /\ 3 \notin S /\ 2 \in S
    BY <2>1, <2>4
  <2>5. CASE 4 \notin S /\ 3 \notin S /\ 2 \notin S
    BY <2>1, <2>5
  <2> QED  BY <2>2, <2>3, <2>4, <2>5
<1>2. Max(S) = CHOOSE m \in S : \A u \in S : m >= u
  BY DEF Max
<1>3. S \subseteq Nat
  BY DEF Unit
<1> QED  BY <1>1, <1>2, <1>3

\* The text of a rate names a unit that divides it, and no larger one does.
LEMMA TextOf ==
  ASSUME NEW n \in Nat
  PROVE  \E u \in Unit :
           /\ bpsStr(n) = <<n \div Div[u + 1], Suffix[u + 1]>>
           /\ n % Div[u + 1] = 0
           /\ n = 0 => u = 0
           /\ \A w \in Unit : n # 0 /\ n % Div[w + 1] = 0 => w <= u
<1> PICK S : S = {0} \cup {u \in Unit : n # 0 /\ n % Div[u + 1] = 0}
  OBVIOUS
<1>1. S \in SUBSET Unit /\ 0 \in S
  BY DEF Unit
<1>2. PICK m : m = Max(S)
  OBVIOUS
<1>3. m \in S /\ \A u \in S : u <= m
  BY <1>1, <1>2, MaxUnit
<1>4. bpsStr(n) = <<n \div Div[m + 1], Suffix[m + 1]>>
  BY <1>2 DEF bpsStr, InUnit
<1>5. n % Div[0 + 1] = 0
  <2>1. Div[0 + 1] = 1
    BY DEF Div
  <2> QED  BY <2>1
<1>6. n % Div[m + 1] = 0
  BY <1>3, <1>5
<1> QED  BY <1>1, <1>3, <1>4, <1>6

\* What is printed alike is the same rate.
LEMMA TextTellsRate ==
  ASSUME NEW n \in Nat, NEW a \in Rate, bpsStr(n) = ambrStr(a)
  PROVE  n = Bps(a)
<1>1. PICK u \in Unit :
        bpsStr(n) = <<n \div Div[u + 1], Suffix[u + 1]>> /\ n % Div[u + 1] = 0
  BY TextOf
<1>2. n \div Div[u + 1] = a.value /\ Suffix[u + 1] = Suffix[a.unit + 1]
  BY <1>1 DEF ambrStr
<1>3. a.unit \in Unit
  BY DEF Rate
<1>4. u = a.unit
  <2>1. \A v, w \in Unit : v # w => Suffix[v + 1] # Suffix[w + 1]
    BY DEF Unit, Suffix
  <2> QED  BY <1>2, <1>3, <2>1
<1>5. PICK m \in Nat : m = Div[u + 1] /\ m > 0
  BY DivUnits
<1>6. n = m * (n \div m) + (n % m)
  BY <1>5, DivMod
<1>7. n = m * a.value
  BY <1>1, <1>2, <1>5, <1>6
<1> QED  BY <1>4, <1>5, <1>7 DEF Bps, Rate

\* And a rate typed in its shortest form is printed as it was typed.
LEMMA ShortestText ==
  ASSUME NEW a \in Rate, Shortest(a)
  PROVE  Bps(a) \in Nat /\ bpsStr(Bps(a)) = ambrStr(a)
<1>1. a.unit \in Unit /\ a.value \in Nat
  BY DEF Rate
<1> PICK v \in Nat, m \in Nat, n \in Nat : v = a.value /\ m = Div[a.unit + 1] /\ m > 0 /\ n = v * m
  BY <1>1, DivUnits
<1>2. n \in Nat /\ n = Bps(a) /\ (v = 0 <=> n = 0)
  BY DEF Bps
<1>3. n \div m = v /\ n % m = 0
  BY DivTimes
<1>4. PICK u \in Unit :
        /\ bpsStr(n) = <<n \div Div[u + 1], Suffix[u + 1]>>
        /\ n % Div[u + 1] = 0
        /\ n = 0 => u = 0
        /\ \A w \in Unit : n # 0 /\ n % Div[w + 1] = 0 => w <= u
  BY <1>2, TextOf
<1>5. u = a.unit
  <2>1. CASE v = 0
    BY <1>2, <1>4, <2>1 DEF Shortest
  <2>2. CASE v # 0
    <3>1. a.unit <= u
      BY <1>1, <1>2, <1>3, <1>4, <2>2
    <3>2. ASSUME a.unit < u PROVE FALSE
      <4>1. PICK c \in Nat : Div[u + 1] = (c * Kilo) * m
        BY <1>1, <3>2, DivUnits
      <4>2. Kilo \in Nat /\ Kilo > 1
        BY PlanAssumption
      <4>3. PICK k \in Nat : k = Div[u + 1] /\ k > 0
        BY DivUnits
      <4>4. PICK t \in Nat : n = k * t
        <5>1. n = k * (n \div k) + (n % k) /\ n \div k \in Nat
          BY <1>2, <4>3, DivMod
        <5> QED  BY <1>2, <1>4, <4>3, <5>1
      <4>5. v * m = ((c * t) * Kilo) * m
        BY <4>1, <4>2, <4>3, <4>4
      <4>6. PICK y \in Nat : y = c * t
        OBVIOUS
      <4>7. v = y * Kilo
        <5>1. \A x, z \in Nat : x * m = z * m => x = z
          OBVIOUS
        <5> QED  BY <4>2, <4>5, <4>6, <5>1
      <4>8. v % Kilo = 0
        BY <4>2, <4>6, <4>7
      <4>9. a.unit # 4
        BY <1>1, <3>2 DEF Unit
      <4> QED  BY <2>2, <4>8, <4>9 DEF Shortest
    <3> QED  BY <1>1, <3>1, <3>2 DEF Unit
  <2> QED  BY <2>1, <2>2
<1> QED  BY <1>2, <1>3, <1>4, <1>5 DEF ambrStr

-----------------------------------------------------------------------------
(* Type correctness, and no note without a gap.                                  *)

\* Asking the MME changes nothing of the store and of the network.
LEMMA PlanKeepsDetach == PlanSpec => DetachSafety
<1>1. PlanInit => DetachInit
  BY DEF PlanInit
<1>2. [PlanNext]_planVars => [DetachNext]_detachVars
  BY DEF PlanNext, planVars, FetchAll
<1> QED  BY <1>1, <1>2, PTL DEF PlanSpec, DetachSafety

PlanTyped == PlanTypeOK /\ DOMAIN live = Request

LEMMA BpsType ==
  ASSUME NEW a \in Ambr
  PROVE  BpsOf(a) \in [dl: Nat, ul: Nat]
<1>1. a.dl \in Rate /\ a.ul \in Rate
  BY PlanAssumption
<1>2. \A x \in Rate : x.value \in Nat /\ x.unit \in Unit
  BY DEF Rate
<1>3. \A x \in Rate : Bps(x) \in Nat
  <2> SUFFICES ASSUME NEW x \in Rate PROVE Bps(x) \in Nat
    OBVIOUS
  <2>1. PICK m \in Nat : m = Div[x.unit + 1]
    BY <1>2, DivUnits
  <2>2. x.value * m \in Nat
    BY <1>2, DivTimes
  <2> QED  BY <2>1, <2>2 DEF Bps
<1> QED  BY <1>1, <1>3 DEF BpsOf

LEMMA NextPlanType ==
  ASSUME TypeInv, History, DetachTypeOK, PlanTyped, PlanNext
  PROVE  PlanTyped'
<1> USE DEF PlanTyped, PlanTypeOK
<1>1. CASE DetachNext /\ UNCHANGED <<asked, live>>
  <2>1. ASSUME NEW r \in Request, pc[r] = "ok" PROVE pc'[r] = "ok" /\ body' = body
    <3>1. ASSUME NEW p \in Request, Does(p) PROVE pc'[r] = "ok" /\ body' = body
      BY <2>1, <3>1, DoesLocal DEF Local, Ended, Answer
    <3> QED  BY <1>1, <2>1, <3>1, NetworkOnly DEF vars
  <2> QED  BY <1>1, <2>1
<1>2. ASSUME NEW r \in Request, FetchAll(r) PROVE PlanTyped'
  <2>1. UNCHANGED <<pc, body>> /\ asked' = asked \cup {r}
    BY <1>2 DEF FetchAll, detachVars, vars
  <2>2. PICK info : /\ live' = [live EXCEPT ![r] = info]
                    /\ info = UeInfo \/ info = [i \in {} |-> 0]
    BY <1>2 DEF FetchAll
  <2>3. /\ DOMAIN info \subseteq IMSI
        /\ \A i \in DOMAIN info : info[i] \in [dl: Nat, ul: Nat]
    <3>1. \A i \in IMSI : BpsOf(sess[i].ambr) \in [dl: Nat, ul: Nat]
      BY BpsType DEF DetachTypeOK, Session
    <3> QED  BY <2>2, <3>1 DEF UeInfo
  <2>4. asked' \subseteq {q \in Request : pc'[q] = "ok" /\ body'[q].op \in Reads}
    BY <1>2, <2>1 DEF FetchAll
  <2> QED  BY <2>1, <2>2, <2>3, <2>4
<1> QED  BY <1>1, <1>2 DEF PlanNext

LEMMA PlanTypedHolds == PlanSpec => []PlanTyped
<1>1. PlanInit => PlanTyped
  BY DEF PlanInit, PlanTyped, PlanTypeOK
<1>2. UNCHANGED planVars /\ PlanTyped => PlanTyped'
  BY DEF planVars, detachVars, vars, PlanTyped, PlanTypeOK
<1>3. (TypeInv /\ History) /\ DetachTypeOK /\ PlanTyped /\ [PlanNext]_planVars => PlanTyped'
  BY <1>2, NextPlanType
<1> QED
  BY <1>1, <1>3, HistoryHolds, DetachTypeCorrect, DetachKeepsStore, PlanKeepsDetach, PTL
     DEF PlanSpec

\* Type correctness of what a handler has from the MME: rates, once it has asked.
THEOREM PlanTypeCorrect == PlanSpec => []PlanTypeOK
BY PlanTypedHolds, PTL DEF PlanTyped

\* What is printed without the note is the plan the MME had when it was asked.
THEOREM NoNoteIsTrue == PlanSpec => []NoNoteNoGap
<1>1. ASSUME TypeInv, PlanTyped PROVE NoNoteNoGap
  <2> SUFFICES ASSUME NEW r \in asked, NEW d \in got[r], d.imsi \in DOMAIN live[r],
                      ~planPending(view(d, live[r]))
               PROVE  live[r][d.imsi] = BpsOf(d.ambr)
    BY DEF NoNoteNoGap
  <2> PICK n : n = live[r][d.imsi]
    OBVIOUS
  <2>1. n \in [dl: Nat, ul: Nat]
    BY <1>1 DEF PlanTyped, PlanTypeOK
  <2>2. d.ambr.dl \in Rate /\ d.ambr.ul \in Rate
    BY <1>1, PlanAssumption DEF PlanTyped, PlanTypeOK, TypeInv, TypeOK, Doc
  <2>3. <<bpsStr(n.dl), bpsStr(n.ul)>> = <<ambrStr(d.ambr.dl), ambrStr(d.ambr.ul)>>
    BY DEF planPending, view
  <2>4. n.dl = Bps(d.ambr.dl) /\ n.ul = Bps(d.ambr.ul)
    BY <2>1, <2>2, <2>3, TextTellsRate
  <2> QED  BY <2>1, <2>4 DEF BpsOf
<1> QED
  BY <1>1, HistoryHolds, PlanTypedHolds, DetachKeepsStore, PlanKeepsDetach, PTL

-----------------------------------------------------------------------------
(* The plan a get has read.  As long as no plan change runs beside it, every       *)
(* document there is of the subscriber has the plan of the one it has read.         *)

SameAmbr(i) ==
  \A d, e : AtHand(d) /\ AtHand(e) /\ d.imsi = i /\ e.imsi = i => d.ambr = e.ambr

SameInv == \A i \in IMSI : Undisturbed(i) => SameAmbr(i)

NoPlanBeside(r) == \A q \in Request : Same(q, r) /\ body[q].op = "plan" => Past(q, r)

GetInv ==
  \A r \in Request : body[r].op = "get" =>
    /\ pc[r] \in {"idle", "readSubs"} => got[r] = {}
    /\ Undisturbed(Imsi(r)) /\ NoPlanBeside(r) =>
         \A d \in got[r] :
           /\ d.imsi = Imsi(r)
           /\ \A e : AtHand(e) /\ e.imsi = Imsi(r) => e.ambr = d.ambr

\* Only a plan change makes a document with another plan.
LEMMA AmbrFrom ==
  ASSUME NoReplace, Inv, NEW p \in Request, Does(p), NEW e, AtHand(e)'
  PROVE  \/ \E d : AtHand(d) /\ d.imsi = e.imsi /\ d.ambr = e.ambr
         \/ body[p].op = "plan" /\ Imsi(p) = e.imsi
<1> USE DEF Inv, TypeInv, TypeOK
<1>1. Local(p) /\ SubsWritten(p) /\ SuspendedWritten(p)
  BY DoesLocal, DoesWritten
<1>2. \A d \in Doc :
        /\ Barred(d).ambr = d.ambr /\ Barred(d).imsi = d.imsi
        /\ Cleared(d).ambr = d.ambr /\ Cleared(d).imsi = d.imsi
        /\ body[p].op # "plan" => Fields(p, d).ambr = d.ambr
        /\ Fields(p, d).imsi = d.imsi
        /\ WithoutIp(d).ambr = d.ambr /\ WithoutIp(d).imsi = d.imsi
        /\ Mirrored(p, d).ambr = d.ambr /\ Mirrored(p, d).imsi = d.imsi
  BY DEF Doc, Barred, Cleared, Fields, WithoutIp, Mirrored
<1>3. pc[p] # "insertNew"
  BY NoAdds
<1>4. pc[p] = "insert" => \A d \in got[p] : AtHand(d)
  BY <1>1 DEF AtHand, Local, Ended
<1>5. CASE e \in subs'
  <2>1. e \in subs \/ WritesSubs(p, e)
    BY <1>1, <1>5 DEF SubsWritten
  <2> QED  BY <1>2, <1>3, <1>4, <2>1 DEF WritesSubs, Matching, AtHand
<1>6. CASE e \in suspended'
  <2>1. e \in suspended \/ WritesSuspended(p, e)
    BY <1>1, <1>6 DEF SuspendedWritten
  <2> QED  BY <1>2, <1>4, <2>1 DEF WritesSuspended, Matching, AtHand
<1>7. ASSUME NEW q \in Request, pc'[q] = "insert", q \notin aborted', e \in got'[q]
      PROVE  \E d : AtHand(d) /\ d.imsi = e.imsi /\ d.ambr = e.ambr
  <2>1. CASE q # p
    BY <1>1, <1>7, <2>1 DEF Local, AtHand
  <2>2. CASE q = p /\ FindRaw(p)
    <3>1. PICK d \in Matching(From(p), Imsi(p)) :
            got' = [got EXCEPT ![p] = {[d EXCEPT !.status = Stamp(p)]}]
      BY <1>7, <2>2 DEF FindRaw, Goto
    <3>2. d \in Doc /\ AtHand(d)
      BY DEF From, Matching, AtHand
    <3>3. e = [d EXCEPT !.status = Stamp(p)]
      BY <1>7, <2>2, <3>1
    <3>4. e.ambr = d.ambr /\ e.imsi = d.imsi
      BY <3>2, <3>3 DEF Doc
    <3> QED  BY <3>2, <3>4
  <2>3. CASE q = p /\ ~FindRaw(p)
    <3>1. pc[p] = "insert" /\ got' = got
      BY <1>7, <2>3, ReachesInsert
    <3> QED  BY <1>4, <1>7, <2>3, <3>1
  <2> QED  BY <2>1, <2>2, <2>3
<1> QED  BY <1>5, <1>6, <1>7 DEF AtHand

LEMMA NextSame ==
  ASSUME NoReplace, Inv, Inv', SameInv, NEW p \in Request, Does(p)
  PROVE  SameInv'
<1> SUFFICES ASSUME NEW i \in IMSI, Undisturbed(i)', NEW d, AtHand(d)', d.imsi = i,
                    NEW e, AtHand(e)', e.imsi = i
             PROVE  d.ambr = e.ambr
  BY DEF SameInv, SameAmbr
<1>1. Undisturbed(i) /\ Local(p)
  BY UndisturbedStays, DoesLocal DEF Inv
<1>2. CASE body[p].op # "plan" \/ Imsi(p) # i
  <2>1. PICK c : AtHand(c) /\ c.imsi = i /\ c.ambr = d.ambr
    BY <1>2, AmbrFrom
  <2>2. PICK b : AtHand(b) /\ b.imsi = i /\ b.ambr = e.ambr
    BY <1>2, AmbrFrom
  <2> QED  BY <1>1, <2>1, <2>2 DEF SameInv, SameAmbr
<1>3. CASE body[p].op = "plan" /\ Imsi(p) = i
  <2>1. ASSUME NEW q \in Request, pc'[q] \in {"insert", "delete"}, Imsi(q)' = i
        PROVE  FALSE
    <3>1. body'[q].op \in {"suspend", "resume"}
      BY <2>1 DEF Inv, TypeInv, Routed
    <3>2. body' = body /\ Imsi(q) = i
      BY <1>1, <2>1 DEF Local, Imsi
    <3>3. p # q
      BY <1>3, <3>1, <3>2
    <3>4. pc[q] = pc'[q] /\ q \notin aborted
      BY <1>1, <3>1, <3>2, <3>3 DEF Local, Undisturbed
    <3> QED  BY <1>3, <2>1, <3>1, <3>2, <3>3, <3>4, OnlyTheMove DEF Ended, Answer
  <2>2. \A c : AtHand(c)' /\ c.imsi = i => c \in subs' \/ c \in suspended'
    BY <2>1 DEF AtHand, Inv, MoveInv, RawIsOwn
  <2>3. ~(Holds(subs, i)' /\ Holds(suspended, i)')
    BY <2>1 DEF Inv, MoveInv, BothAtDelete
  <2>4. /\ \A c \in subs' : Holds(subs, c.imsi)'
        /\ \A c \in suspended' : Holds(suspended, c.imsi)'
    BY DEF Holds, Matching
  <2> QED  BY <2>2, <2>3, <2>4 DEF Inv, MoveInv, OneEach
<1> QED  BY <1>2, <1>3

\* A get has what it has found of its subscriber.
LEMMA GetReads ==
  ASSUME TypeInv, NEW r \in Request, Does(r), body[r].op = "get"
  PROVE  /\ pc'[r] \in {"idle", "readSubs"} => got' = got /\ pc[r] \in {"idle", "readSubs"}
         /\ \A d \in got'[r] : \/ d \in got[r]
                               \/ d \in subs \cup suspended /\ d.imsi = Imsi(r)
<1> USE DEF TypeInv, TypeOK, At, Goto
<1>1. CASE Accept(r) \/ Abort(r)
  BY <1>1 DEF Accept, Abort
<1>2. CASE MoveStep(r)
  BY <1>2 DEF MoveStep, Flag, FindRaw, CountTarget, InsertRaw, DeleteRaw, ClearFlags, Routed
<1>3. CASE FieldStep(r)
  BY <1>3 DEF FieldStep, SetSubs, SetSuspended, UnsetSubs, UnsetSuspended, Routed
<1>4. CASE ReplaceStep(r)
  BY <1>4 DEF ReplaceStep, PurgeSubs, PurgeSuspended, InsertNew, Routed
<1>5. CASE AuditStep(r)
  BY <1>5 DEF AuditStep, AppendAudit, AuditFails, MirrorSubs, MirrorSuspended, Routed, Changes
<1>6. CASE ReadSubs(r)
  <2>1. PICK docs \in Found(r, subs) : got' = [got EXCEPT ![r] = docs]
    BY <1>6 DEF ReadSubs
  <2>2. \A d \in docs : d \in subs /\ d.imsi = Imsi(r)
    BY DEF Found, Matching
  <2> QED  BY <1>6, <2>1, <2>2 DEF ReadSubs
<1>7. CASE ReadSuspended(r)
  <2>1. PICK docs \in Found(r, suspended) : got' = [got EXCEPT ![r] = @ \cup docs]
    BY <1>7 DEF ReadSuspended
  <2>2. \A d \in docs : d \in suspended /\ d.imsi = Imsi(r)
    BY DEF Found, Matching
  <2> QED  BY <1>7, <2>1, <2>2 DEF ReadSuspended
<1> QED  BY <1>1, <1>2, <1>3, <1>4, <1>5, <1>6, <1>7 DEF Does, Step, ReadStep

LEMMA NextGet ==
  ASSUME NoReplace, Inv, SameInv, GetInv, NEW p \in Request, Does(p)
  PROVE  GetInv'
<1>1. Local(p)
  BY DoesLocal DEF Inv
<1>2. \A r \in Request : body'[r] = body[r] /\ Imsi(r)' = Imsi(r) /\ Imsi(r) \in IMSI
  BY <1>1 DEF Local, Imsi, Inv, TypeInv, TypeOK, Body
<1>3. ASSUME NEW r \in Request, body[r].op = "get", pc'[r] \in {"idle", "readSubs"}
      PROVE  got'[r] = {}
  BY <1>1, <1>3, GetReads DEF GetInv, Local, Inv
<1>4. ASSUME NEW r \in Request, body[r].op = "get", Undisturbed(Imsi(r))', NoPlanBeside(r)',
             NEW d \in got'[r]
      PROVE  /\ d.imsi = Imsi(r)
             /\ \A e : AtHand(e)' /\ e.imsi = Imsi(r) => e.ambr = d.ambr
  <2> PICK i : i = Imsi(r)
    OBVIOUS
  <2>1. Undisturbed(i)
    BY <1>2, <1>4, UndisturbedStays DEF Inv
  <2>2. ~(body[p].op = "plan" /\ Imsi(p) = i) /\ (d \in got[r] => NoPlanBeside(r))
    <3>1. CASE pc[r] = "idle"
      <4>1. got[r] = {}
        BY <1>4, <3>1 DEF GetInv
      <4>2. p = r
        BY <1>1, <1>4, <4>1 DEF Local
      <4> QED  BY <1>4, <4>1, <4>2
    <3>2. CASE pc[r] # "idle"
      <4>1. \A q \in Request : Same(q, r) /\ body[q].op = "plan" => Past(q, r)'
        BY <1>2, <1>4 DEF NoPlanBeside, Same
      <4>2. \A q \in Request : Same(q, r) /\ body[q].op = "plan" => Past(q, r) /\ p # q
        BY <1>4, <3>2, <4>1, PastStays DEF Inv
      <4> QED  BY <1>4, <4>2 DEF NoPlanBeside, Same
    <3> QED  BY <3>1, <3>2
  <2>3. \A e : AtHand(e)' /\ e.imsi = i =>
          \E c : AtHand(c) /\ c.imsi = i /\ c.ambr = e.ambr
    BY <2>2, AmbrFrom
  <2>4. d.imsi = i /\ \A c : AtHand(c) /\ c.imsi = i => c.ambr = d.ambr
    <3>1. CASE d \in got[r]
      BY <1>4, <2>1, <2>2, <3>1 DEF GetInv
    <3>2. CASE d \notin got[r]
      <4>1. d \in subs \cup suspended /\ d.imsi = i
        BY <1>1, <1>4, <3>2, GetReads DEF Local, Inv
      <4> QED  BY <1>2, <2>1, <4>1 DEF SameInv, SameAmbr, AtHand
    <3> QED  BY <3>1, <3>2
  <2> QED  BY <2>3, <2>4
<1> QED  BY <1>2, <1>3, <1>4 DEF GetInv

LEMMA GetHolds == NoReplace => (Spec => [](SameInv /\ GetInv))
<1> SUFFICES ASSUME NoReplace PROVE Spec => [](SameInv /\ GetInv)
  OBVIOUS
<1>1. Init => SameInv /\ GetInv
  <2> SUFFICES ASSUME Init PROVE SameInv /\ GetInv
    OBVIOUS
  <2>1. \A d : AtHand(d) => d.ambr = DefaultAmbr
    <3>1. \A i : NewDoc(i, i).ambr = DefaultAmbr /\ Barred(NewDoc(i, i)).ambr = DefaultAmbr
      BY DEF NewDoc, Barred
    <3> QED  BY <3>1 DEF Init, AtHand
  <2> QED  BY <2>1 DEF SameInv, SameAmbr, GetInv, Init
<1>2. ASSUME UNCHANGED vars, SameInv, GetInv PROVE (SameInv /\ GetInv)'
  BY <1>2 DEF vars, collections, SameInv, SameAmbr, GetInv, NoPlanBeside, Past, Undisturbed,
              Overlap, Same, NotYet, EndedBefore, AtHand, Imsi
<1>3. Inv /\ Inv' /\ (SameInv /\ GetInv) /\ [Next]_vars => (SameInv /\ GetInv)'
  BY <1>2, NextSame, NextGet DEF Next, Does
<1> QED  BY <1>1, <1>3, InvHolds, PTL DEF Spec

\* The note goes: once nothing is under way any more, a get that ran beside no plan
\* change, of a subscriber whose moves nothing disturbed, prints the rates of the MME as
\* it prints the plan.
THEOREM NoteIsCleared == NoReplace /\ Timely => (PlanSpec => NoteClears)
<1> SUFFICES ASSUME NoReplace, Timely PROVE PlanSpec => NoteClears
  OBVIOUS
<1>1. ASSUME Inv, PlanTyped, CutInv, PlanReachesMme, GetInv, [PlanNext]_planVars
      PROVE  [SettledGetHasNoNote]_planVars
  <2> SUFFICES ASSUME PlanNext, NEW r \in asked' \ asked,
                      body[r].op = "get", ue[Imsi(r)] = "attached", ~sess[Imsi(r)].flagged,
                      Settled(Imsi(r)), Undisturbed(Imsi(r)),
                      \A q \in Request :
                        Same(q, r) /\ body[q].op = "plan" =>
                          EndedBefore(q, r) \/ pc[q] = "idle",
                      NEW d \in got[r], Shortest(d.ambr.dl), Shortest(d.ambr.ul)
               PROVE  ~planPending(view(d, live'[r]))
    BY <1>1 DEF SettledGetHasNoNote
  <2> PICK i : i = Imsi(r)
    OBVIOUS
  <2>1. r \in Request /\ (live'[r] = UeInfo \/ live'[r] = [j \in {} |-> 0])
    <3>1. PICK x \in Request : FetchAll(x)
      BY DEF PlanNext
    <3>2. x = r
      BY <3>1 DEF FetchAll
    <3>3. \E info \in {UeInfo, [j \in {} |-> 0]} : live' = [live EXCEPT ![r] = info]
      BY <3>1, <3>2 DEF FetchAll
    <3> QED  BY <1>1, <3>1, <3>2, <3>3 DEF PlanTyped
  <2>2. i \in IMSI
    BY <1>1, <2>1 DEF Inv, TypeInv, TypeOK, Body, Imsi
  <2>3. d.imsi = i /\ \A e : AtHand(e) /\ e.imsi = i => e.ambr = d.ambr
    BY <1>1, <2>1 DEF GetInv, NoPlanBeside, Past
  <2>4. Holds(subs, i)
    <3> SUFFICES ASSUME ~Holds(subs, i) PROVE FALSE
      OBVIOUS
    <3>1. Cut(i)
      BY <1>1, <2>2, UndisturbedIsCalm DEF CutInv
    <3> QED  BY <3>1 DEF Cut, Settled, Has
  <2>5. PICK c \in Matching(subs, i) : sess[i].ambr = c.ambr
    BY <1>1, <2>2, <2>4 DEF PlanReachesMme, Holds
  <2>6. sess[i].ambr = d.ambr
    BY <2>3, <2>5 DEF AtHand, Matching
  <2>7. CASE live'[r] = UeInfo
    <3>1. d.imsi \in DOMAIN UeInfo /\ UeInfo[d.imsi] = BpsOf(d.ambr)
      BY <2>2, <2>3, <2>6 DEF UeInfo
    <3>2. /\ bpsStr(Bps(d.ambr.dl)) = ambrStr(d.ambr.dl)
          /\ bpsStr(Bps(d.ambr.ul)) = ambrStr(d.ambr.ul)
      <4>1. d.ambr \in Ambr
        BY <1>1, <2>1 DEF Inv, TypeInv, TypeOK, Doc
      <4>2. d.ambr.dl \in Rate /\ d.ambr.ul \in Rate
        BY <4>1, PlanAssumption
      <4> QED  BY <4>2, ShortestText
    <3> QED  BY <2>7, <3>1, <3>2 DEF planPending, view, BpsOf
  <2>8. CASE live'[r] = [j \in {} |-> 0]
    BY <2>8 DEF planPending, view
  <2> QED  BY <2>1, <2>7, <2>8
<1>2. PlanSpec => [](Inv /\ PlanTyped /\ CutInv /\ PlanReachesMme /\ GetInv)
  BY InvHolds, PlanTypedHolds, CutHolds, PlanIsServed, GetHolds, DetachKeepsStore,
     PlanKeepsDetach, PTL
<1> QED  BY <1>1, <1>2, PTL DEF PlanSpec, NoteClears
==============================================================================
