------------------------------ MODULE LiveDetach ------------------------------
(***************************************************************************)
(* What a change of a subscriber's document does to his live session.       *)
(*                                                                          *)
(* The HSS watches the collection `subscribers` through a change stream     *)
(* that it polls; it looks the changed document up when it polls, not when  *)
(* it changed, and signals the MME over S6a: a Cancel-Location-Request      *)
(* (CLR) if it finds the document flagged, an Insert-Subscriber-Data-       *)
(* Request (IDR) for other changes it knows.  A CLR detaches the UE and     *)
(* tells it to attach again at once; a UE that is rejected tries again when *)
(* its timer T3402 fires.  Attaching needs a live document and nothing else *)
(* of it: the MME ignores subscriber_status and the barring flags.          *)
(***************************************************************************)
EXTENDS SubscriberStore

CONSTANT Timely \* whether the HSS polls within the sleep of a suspend

ASSUME DetachAssumption == Timely \in BOOLEAN

VARIABLES
  feed, \* the change events of `subscribers` that the HSS has not polled yet
  s6a,  \* the Diameter messages on their way to the MME, in order
  ue,   \* each UE: attached, told to attach again, or waiting for T3402
  sess, \* the MME's context of an attached UE
  seen  \* ghost: the resumes sent while the UE of their subscriber was detached

network == <<feed, s6a, ue, sess, seen>>
detachVars == <<vars, network>>

\* The fields of a document that make the HSS look at an update of it.
HssField == {"status", "odb", "rcl", "ambr"}

Event == [id: DocId, fields: (SUBSET HssField) \ {{}}, by: Request]

Message == [kind: {"CLR", "IDR"}, imsi: IMSI, ambr: Ambr]

\* ambr is the MME's, which an IDR changes; bearer is the one the UE was given when
\* it attached; flagged tells whether the document was flagged for withdrawal then.
Session == [ambr: Ambr, bearer: Ambr, flagged: BOOLEAN]

NoSession == [ambr |-> DefaultAmbr, bearer |-> DefaultAmbr, flagged |-> FALSE]

DetachInit ==
  /\ Init
  /\ feed = <<>> /\ s6a = <<>>
  /\ ue \in [IMSI -> {"attached", "retry", "waiting"}]
  /\ \A i \in IMSI : ue[i] = "attached" => Holds(subs, i)
  /\ sess = [i \in IMSI |-> NoSession]
  /\ seen = {}

-----------------------------------------------------------------------------
(* The provisioner's calls, and the change events they leave behind. *)

\* What the HSS sees of an update from d to e.
Changed(d, e) == {f \in HssField : d[f] # e[f]}

\* The live documents updated by a step, before and after, if the HSS sees it.
Updates == {p \in subs \X subs' : p[1].id = p[2].id /\ Changed(p[1], p[2]) # {}}

\* The events of a step of request r: an update that changes nothing the HSS knows
\* leaves none, and so do inserts and deletes.
Events(r) ==
  {[id |-> p[1].id, fields |-> Changed(p[1], p[2]), by |-> r] : p \in Updates}

\* Wrong: a suspend that does not sleep.
NoSleep(r) == TRUE

\* A suspend sleeps before it moves the document: two polling intervals and a half.
Slept(r) ==
  Timely /\ pc[r] = "find" /\ body[r].op = "suspend" =>
    \A n \in DOMAIN feed : \A d \in Matching(subs, Imsi(r)) : feed[n].id # d.id

\* r is being sent, a resume, and the UE is seen to be detached.
SentDetached(r) == pc[r] = "idle" /\ body[r].op = "resume" /\ ue[Imsi(r)] # "attached"

StoreStep(r) ==
  /\ Accept(r) \/ Abort(r) \/ (Slept(r) /\ Step(r))
  /\ IF Events(r) = {} THEN UNCHANGED feed
     ELSE \E ev \in Events(r) : feed' = Append(feed, ev)
  /\ seen' = seen \cup {q \in {r} : SentDetached(q)}
  /\ UNCHANGED <<s6a, ue, sess>>

-----------------------------------------------------------------------------
(* HSS, MME and UE. *)

Send(kind, d) == s6a' = Append(s6a, [kind |-> kind, imsi |-> d.imsi, ambr |-> d.ambr])

\* The HSS polls an event and looks the document up: it may be gone, or be flagged
\* by a later update than the one it is told about.
Poll ==
  /\ feed # <<>>
  /\ LET ev == Head(feed)
         live == {d \in subs : d.id = ev.id}
     IN \/ live = {} /\ UNCHANGED s6a
        \/ \E d \in live :
             IF "rcl" \in ev.fields /\ d.rcl THEN Send("CLR", d)
             ELSE IF ev.fields \cap {"status", "ambr"} # {} THEN Send("IDR", d)
             ELSE UNCHANGED s6a
  /\ feed' = Tail(feed)
  /\ UNCHANGED <<vars, ue, sess, seen>>

\* The MME detaches the UE, if it is attached, and tells it to attach again.
CancelLocation ==
  /\ s6a # <<>> /\ Head(s6a).kind = "CLR"
  /\ LET i == Head(s6a).imsi
     IN IF ue[i] = "attached"
          THEN /\ ue' = [ue EXCEPT ![i] = "retry"]
               /\ sess' = [sess EXCEPT ![i] = NoSession]
          ELSE UNCHANGED <<ue, sess>>
  /\ s6a' = Tail(s6a)
  /\ UNCHANGED <<vars, feed, seen>>

\* The MME takes the new data; the bearer keeps what it was set up with.
InsertSubscriberData ==
  /\ s6a # <<>> /\ Head(s6a).kind = "IDR"
  /\ LET i == Head(s6a).imsi
     IN sess' = IF ue[i] = "attached" THEN [sess EXCEPT ![i].ambr = Head(s6a).ambr]
                                      ELSE sess
  /\ s6a' = Tail(s6a)
  /\ UNCHANGED <<vars, feed, ue, seen>>

AttachAccept(i) ==
  /\ ue[i] \in {"retry", "waiting"}
  /\ \E d \in Matching(subs, i) :
       sess' = [sess EXCEPT ![i] = [ambr |-> d.ambr, bearer |-> d.ambr, flagged |-> d.rcl]]
  /\ ue' = [ue EXCEPT ![i] = "attached"]
  /\ UNCHANGED <<vars, feed, s6a, seen>>

\* Wrong: cause #8 as srsUE handles it unpatched, with no timer armed.
AttachRejectNoTimer(i) ==
  /\ ue[i] = "retry" /\ ~Holds(subs, i)
  /\ ue' = [ue EXCEPT ![i] = "deregistered"]
  /\ UNCHANGED <<vars, feed, s6a, sess, seen>>

\* Cause #8: back off until T3402 fires.
AttachReject(i) ==
  /\ ue[i] = "retry" /\ ~Holds(subs, i)
  /\ ue' = [ue EXCEPT ![i] = "waiting"]
  /\ UNCHANGED <<vars, feed, s6a, sess, seen>>

Attach(i) == AttachAccept(i) \/ AttachReject(i)

DetachNext ==
  \/ \E r \in Request : StoreStep(r)
  \/ Poll \/ CancelLocation \/ InsertSubscriberData
  \/ \E i \in IMSI : Attach(i)

\* The specification, without fairness: no property of this module needs it (UeContainer
\* adds it).
DetachSafety == DetachInit /\ [][DetachNext]_detachVars

-----------------------------------------------------------------------------
(* Properties. *)

DetachTypeOK ==
  /\ feed \in Seq(Event)
  /\ s6a \in Seq(Message)
  /\ ue \in [IMSI -> {"attached", "retry", "waiting"}]
  /\ sess \in [IMSI -> Session]
  /\ \A i \in IMSI : ue[i] # "attached" => sess[i] = NoSession
  /\ seen \subseteq Request

\* Everything the provisioner did to subscriber i has reached the MME.
Settled(i) ==
  /\ \A n \in DOMAIN s6a : s6a[n].imsi # i
  /\ \A n \in DOMAIN feed : \A d \in subs \cup suspended :
       d.imsi = i => feed[n].id # d.id

\* No move of subscriber i died or ran beside another request of him.
Undisturbed(i) ==
  \A q \in Request :
    Imsi(q) = i /\ body[q].op \in {"suspend", "resume"} =>
      q \notin aborted /\ \A r \in Request : ~Overlap(r, q)

\* An acknowledged suspend ends every session that was there before it, once the
\* signalling has settled: what is left was granted between its two legs.  That
\* takes that no resume ran beside a suspend, which can leave the flag up, and then
\* the next suspend changes nothing the HSS would cancel for.  A move that died can
\* leave it up too, but then its own CLR is on its way, or the session has seen it.
SuspendCutsSession ==
  \A r \in Request :
    LET i == Imsi(r) IN
    /\ pc[r] = "ok" /\ body[r].op = "suspend" /\ Settled(i) /\ ue[i] = "attached"
    /\ \A q \in Request :
         Same(q, r) /\ body[q].op = "resume" =>
           /\ EndedBefore(q, r) \/ pc[q] = "idle"
           /\ \A p \in Request : body[p].op = "suspend" => ~Overlap(p, q)
    => sess[i].flagged

\* The MME serves a live subscriber under the plan the store holds, once the
\* signalling has settled, if no move died or ran beside another request and the
\* session was not granted between the two legs of a suspend.  (A suspend that died
\* with the flag up keeps the next one from ending the session, and then data the HSS
\* sent before can arrive after a resume.)
PlanReachesMme ==
  \A i \in IMSI :
    /\ ue[i] = "attached" /\ Settled(i) /\ ~sess[i].flagged /\ Undisturbed(i)
    => \A d \in Matching(subs, i) : sess[i].ambr = d.ambr

\* "Force a reattach, and the new plan takes hold"
\* (docs/scenarios/2-change-subscriber-plan.md): a plan is acknowledged, the subscriber is
\* suspended, and he is resumed only when the detach has been seen ("wait until a ping
\* genuinely fails ... THEN").  Then a subscriber who is attached has the plan on his
\* bearer, although only an attach sets it and the document it finds was carried in memory
\* by both moves.  No other plan was asked for since and every move came after the plan;
\* they may race and die, and the HSS may be as late as it likes.  Without the wait nothing
\* is promised: "the detach sometimes silently doesn't happen" (line 90).
PlanTakesHold ==
  \A p, r \in Request :
    LET i == Imsi(p) IN
    /\ body[p].op = "plan" /\ pc[p] = "ok"
    /\ body[r].op = "resume" /\ Imsi(r) = i /\ EndedBefore(p, r) /\ r \in seen
    /\ \A q \in Request :
         /\ Same(q, p) /\ body[q].op = "plan" => EndedBefore(q, p) \/ pc[q] = "idle"
         /\ Same(q, p) /\ body[q].op \in {"suspend", "resume"} =>
              EndedBefore(p, q) \/ pc[q] = "idle"
    /\ ue[i] = "attached"
    => sess[i].bearer = body[p].ambr

\* A poll of what a resume did to a document that signals something: another move has
\* flagged it again, or has put it back and not cleared it yet.
OnlyAnotherMoveSignals ==
  Poll /\ body[Head(feed).by].op = "resume" /\ s6a' # s6a =>
    /\ s6a'[Len(s6a')].kind = "CLR"
    /\ \E q \in Request :
         /\ Same(q, Head(feed).by) /\ body[q].op \in {"suspend", "resume"}
         /\ pc[q] \in Call

\* "Resume sends nothing to the MME" (mongo.go:190): the HSS polls what it did to the
\* document and signals nothing, unless another move of the subscriber is under way or
\* has died.
ResumeSignalsNothing == [][OnlyAnotherMoveSignals]_detachVars

\* A UE of a removed subscriber that attaches: an add of him has begun by then, or a
\* move ran beside the removal.
OnlyTheAddedAttach ==
  \A r \in Request :
    LET i == Imsi(r) IN
    /\ pc[r] = "ok" /\ body[r].op = "remove" /\ AddsAlone(i)
    /\ ue[i] # "attached" /\ ue'[i] = "attached"
    => \E q \in Request :
         \/ body[q].op = "add" /\ Same(q, r) /\ ~EndedBefore(q, r) /\ pc[q] # "idle"
         \/ body[q].op \in {"suspend", "resume"} /\ Overlap(q, r)

\* A removal signals nothing, so the UE of a removed subscriber may stay attached.
\* But once it is detached it stays out: after an acknowledged removal that ran beside
\* no move, no UE of the subscriber attaches until he is added anew, whatever moves of
\* him come later, unless overlapping adds had left him twins (one survives).
RemovedStaysOut == [][OnlyTheAddedAttach]_detachVars

-----------------------------------------------------------------------------
(* What the repository says and the code does not keep: TLC refutes it. *)

\* Leg 2 "is what actually rejects the reattach attempt leg 1 just triggered and any
\* later attach attempt too" (docs/parts/1-provisioning.md:102).
SuspendedStaysDetached ==
  \A r \in Request :
    LET i == Imsi(r) IN
    /\ pc[r] = "ok" /\ body[r].op = "suspend" /\ Settled(i)
    /\ \A q \in Request : Same(q, r) => pc[q] = "idle"
    => ue[i] # "attached"
==============================================================================
