------------------------------- MODULE IssueSim -------------------------------
(***************************************************************************)
(* handleIssue (internal/api/server.go): issue-sim [--count N], beside the  *)
(* other requests of SubscriberStore.                                       *)
(*                                                                          *)
(* A batch makes its SIMs one after the other, each with the next free MSIN *)
(* and fresh keys, and answers with all of them once the last is stored; an *)
(* error on the way answers with none.  A SIM is stored by the same Insert  *)
(* as an added subscriber, so each SIM of a batch is a Request of           *)
(* SubscriberStore whose IMSI is not known before MaxMSIN has told it.      *)
(* An IMSI is its MSIN here (plmnPrefix is the same for all, imsiBase 0).   *)
(***************************************************************************)
EXTENDS SubscriberStore, FiniteSetsExt

CONSTANTS
  Batch,  \* the issue requests that may be sent, each the sequence of its SIMs
  OtherOp \* the operations of the other requests

Sims(b) == {b[k] : k \in DOMAIN b}

\* No MSIN below 1 is ever issued: 0 stands for "not picked yet".
NotPicked == 0

ASSUME IssueAssumption ==
  /\ NotPicked \in IMSI \ Seeded
  /\ \E last \in IMSI : IMSI \subseteq 0..last \* an MSIN has ten digits
  /\ "add" \in Op /\ OtherOp \subseteq Op
  /\ Batch \subseteq Seq(Request)
  /\ \A a, b \in Batch : a # b => Sims(a) \cap Sims(b) = {}
  /\ \A b \in Batch : \A j, k \in DOMAIN b : b[j] = b[k] => j = k

VARIABLE max \* the largest MSIN that the running MaxMSIN of each SIM has seen

issueVars == <<vars, max>>

\* The SIMs of the batches that are sent; a request of a batch that is not sent is
\* one of the others.
Sim == DOMAIN max
Issued == {b \in Batch : Sims(b) \subseteq Sim}

IssueInit ==
  /\ Init
  /\ \E sent \in SUBSET Batch : max = [s \in UNION {Sims(b) : b \in sent} |-> 0]
  /\ \A r \in Request :
       IF r \in Sim THEN body[r] = [op |-> "add", imsi |-> NotPicked,
                                    ambr |-> DefaultAmbr, ip |-> NoIp]
                    ELSE body[r].op \in OtherOp /\ Imsi(r) # NotPicked

Largest(coll, n) == Max({n} \cup {d.imsi : d \in coll})

\* Wrong: the SIMs of a batch made side by side.
TurnAny(s) == TRUE

\* The SIM is the next of its batch: the one before it is stored and audited.
Turn(s) == \E b \in Batch : \E k \in DOMAIN b :
             b[k] = s /\ (k > 1 => pc[b[k - 1]] = "ok")

\* Wrong: the largest MSIN looked up once per batch.
MaxInSubsOnce(s) ==
  /\ pc[s] = "idle" /\ Turn(s)
  /\ \E b \in Batch : \E k \in DOMAIN b :
       b[k] = s /\ max' = [max EXCEPT ![s] = IF k > 1 THEN max[b[1]] ELSE Largest(subs, 0)]
  /\ pc' = [pc EXCEPT ![s] = "maxSuspended"]
  /\ before' = [before EXCEPT ![s] = {q \in Request : Ended(q)}]
  /\ UNCHANGED <<collections, audit, body, got, aborted>>

\* MaxMSIN, first collection.
MaxInSubs(s) ==
  /\ pc[s] = "idle" /\ Turn(s)
  /\ max' = [max EXCEPT ![s] = Largest(subs, 0)]
  /\ pc' = [pc EXCEPT ![s] = "maxSuspended"]
  /\ before' = [before EXCEPT ![s] = {q \in Request : Ended(q)}]
  /\ UNCHANGED <<collections, audit, body, got, aborted>>

\* Wrong: MaxMSIN content with the live collection.
MaxInSubsOnly(s) ==
  /\ At(s, "maxSuspended") /\ max[s] + 1 \in IMSI
  /\ body' = [body EXCEPT ![s].imsi = max[s] + 1]
  /\ pc' = [pc EXCEPT ![s] = "purgeSubs"]
  /\ UNCHANGED <<collections, audit, got, aborted, before, max>>

\* Wrong: the MSIN picked without the increment.
MaxItself(s) ==
  LET m == Largest(suspended, max[s]) IN
  /\ At(s, "maxSuspended") /\ m \in IMSI
  /\ body' = [body EXCEPT ![s].imsi = m]
  /\ max' = [max EXCEPT ![s] = m]
  /\ pc' = [pc EXCEPT ![s] = "purgeSubs"]
  /\ UNCHANGED <<collections, audit, got, aborted, before>>

\* MaxMSIN, second collection, and nextIMSI: nothing reserves the MSIN it picks.
\* The instance bounds the MSINs by IMSI.
MaxInSuspended(s) ==
  LET m == Largest(suspended, max[s]) IN
  /\ At(s, "maxSuspended") /\ m + 1 \in IMSI
  /\ body' = [body EXCEPT ![s].imsi = m + 1]
  /\ max' = [max EXCEPT ![s] = m]
  /\ pc' = [pc EXCEPT ![s] = "purgeSubs"]
  /\ UNCHANGED <<collections, audit, got, aborted, before>>

IssueNext ==
  \/ \E s \in Sim : MaxInSubs(s) \/ MaxInSuspended(s)
  \/ \E r \in Request \ Sim : Accept(r) /\ UNCHANGED max
  \/ \E r \in Request : (Abort(r) \/ Step(r)) /\ UNCHANGED max

IssueSpec == IssueInit /\ [][IssueNext]_issueVars

-----------------------------------------------------------------------------
(* Properties. *)

\* Type correctness; past nextIMSI, a SIM has an MSIN, and one that may be issued.
IssueTypeOK ==
  /\ subs \in SUBSET [id: DocId, imsi: IMSI \ {NotPicked}, status: {0, 1}, odb: {0, 1},
                      rcl: BOOLEAN, ambr: Ambr, ip: Ip \cup {NoIp},
                      last: Changes \cup {"none"}]
  /\ \A s \in Sim : max[s] \in IMSI
  /\ pc \in [Request -> Call \cup Answer \cup {"idle"}]
  /\ \A s \in Sim : Imsi(s) = NotPicked <=> pc[s] \in {"idle", "maxSuspended"}

\* The client has the keys of every SIM of the batch.
Answered(b) == \A s \in Sims(b) : pc[s] = "ok"

\* A request that is no part of the batch works on the subscriber that SIM s has
\* picked, or did since s began.
Beside(s, ops) ==
  \E q \in Request : /\ \A b \in Issued : s \in Sims(b) => q \notin Sims(b)
                     /\ body[q].op \in ops /\ Imsi(q) = Imsi(s)
                     /\ pc[q] # "idle" /\ ~EndedBefore(q, s)

\* Nothing can have taken out what SIM s has stored: nobody adds, removes or resumes
\* that subscriber beside s or later, and no suspend of the one who had the IMSI before
\* can still be on its way to delete the new document.
Undisturbed(s) ==
  /\ ~Beside(s, {"resume", "add", "remove"})
  /\ \/ \A q \in Request : body[q].op = "suspend" => ~Overlap(q, s)
     \/ \A q \in before[s] : body[q].op \in {"add", "remove"} => Imsi(q) # Imsi(s)

\* nextIMSI never picks the MSIN of a subscriber who has been there all along,
\* whose record and keys Insert would then delete, unless a resume or a replacement
\* of that very subscriber runs beside it and slips past the two reads of MaxMSIN.
IssueTakesFreshImsi ==
  \A s \in Sim :
    Imsi(s) \in Seeded =>
      \/ Beside(s, {"resume", "add", "remove"})
      \/ \E q \in before[s] : body[q].op \in {"add", "remove"} /\ Imsi(q) = Imsi(s)

\* The SIMs of one batch have ascending IMSIs, although nextIMSI starts over for
\* each, unless other requests may have taken the earlier SIM out meanwhile.
BatchAscends ==
  \A b \in Issued : \A j, k \in DOMAIN b :
    /\ j < k /\ Imsi(b[k]) # NotPicked /\ Undisturbed(b[j])
    => Imsi(b[j]) < Imsi(b[k])

\* A batch beside which nothing else is stored or removed is a contiguous block.
ContiguousAlone ==
  \A b \in Issued : \A k \in DOMAIN b :
    /\ k > 1 /\ Imsi(b[k]) # NotPicked
    /\ \A r \in Request \ Sims(b) : body[r].op = "suspend" \/ pc[r] = "idle"
    => Imsi(b[k]) = Imsi(b[k - 1]) + 1

\* Two issue requests pick the same IMSI only side by side: once a SIM is stored, no
\* issue that begins later picks its IMSI, unless another request takes that
\* subscriber out, replaces or resumes him.
StoredSimIsSeen ==
  \A s, t \in Sim :
    /\ Same(s, t) /\ EndedBefore(s, t) /\ Imsi(s) # NotPicked
    /\ pc[s] \in {"audit", "mirrorSubs", "mirrorSuspended", "ok"}
    => \E q \in Request \ {s, t} : /\ body[q].op \in {"resume", "add", "remove"}
                                   /\ Same(q, s) /\ pc[q] # "idle"

\* The keys a batch answers with are those the store holds, live or suspended, unless
\* other requests may have taken them out: no SIM of the batch replaces an earlier one.
IssuedKeysKept ==
  \A b \in Issued : \A s \in Sims(b) :
    Answered(b) /\ Undisturbed(s) => \E d \in Shown(Imsi(s)) : d.id = s

-----------------------------------------------------------------------------
(* What the repository says and the code does not keep: TLC refutes it. *)

\* Of a suspended subscriber, "The record + keys are fully preserved and restored on
\* resume -- nothing is deleted" (internal/store/mongo.go:18): a subscriber whom
\* clients only suspend and resume keeps the keys it was provisioned with.
MovedKeysKept ==
  \A i \in Seeded :
    (\A r \in Request \ Sim : Imsi(r) = i => body[r].op \in {"suspend", "resume"})
    => \E d \in subs \cup suspended : d.imsi = i /\ d.id = i
==============================================================================
