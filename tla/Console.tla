-------------------------------- MODULE Console --------------------------------
(***************************************************************************)
(* One operator at a telcoctl prompt: the commands of the service, one at a *)
(* time, with nothing that dies.                                            *)
(*                                                                          *)
(* Each request is put to the Mongo store, call by call, and to the         *)
(* in-memory store on which the unit tests run the same handlers: what      *)
(* those tests say holds of the real store as far as the two agree.         *)
(***************************************************************************)
EXTENDS SubscriberStore, Telcoctl, Msin

CONSTANTS
  MsinOf,  \* the MSIN of each IMSI that has the operator's prefix
  Reason,  \* the reason codes that are typed
  Address  \* the static addresses that are typed

ASSUME ConsoleAssumption ==
  /\ DOMAIN MsinOf \subseteq IMSI /\ \A i \in DOMAIN MsinOf : MsinOf[i] \in Seq(Char)
  /\ \A i, j \in DOMAIN MsinOf : MsinOf[i] = MsinOf[j] => i = j
  /\ Ambr \subseteq [dl: STRING, ul: STRING]
  /\ Ip = Address \cup IMSI /\ NoIp = None

VARIABLES
  recs,  \* the records of the in-memory store
  log,   \* its audit entries
  said,  \* what it answers to the latest request
  typed  \* the latest line: what it was meant to send, and what it has sent

console == <<recs, log, said, typed>>
consoleVars == <<vars, console>>

InMemory == INSTANCE FakeRecords

-----------------------------------------------------------------------------
(* What the handlers ask before they reach the store. *)

NewCard == {"NEW_ACTIVATION", "BATCH", "REPLACEMENT"}

allowedReasons ==
  [cmd \in {"issue-sim", "add", "suspend", "resume", "set-plan", "set-ip"} |->
     CASE cmd \in {"issue-sim", "add"} -> NewCard
       [] cmd = "suspend" -> {"NON_PAYMENT", "LOST_STOLEN", "FRAUD", "MAINTENANCE"}
       [] cmd = "resume" -> {"PAYMENT_RECEIVED", "RECOVERED", "CLEARED"}
       [] cmd = "set-plan" -> {"UPGRADE", "DOWNGRADE", "PROMOTION"}
       [] cmd = "set-ip" -> {"ENTERPRISE", "M2M", "IOT"}]

ValidReason(cmd, reason) == reason = "OTHER" \/ reason \in allowedReasons[cmd]

\* The mux has no route for an empty IMSI; remove asks for no reason.
Routed(req) == req.op \in {"issue-sim", "add", "list"} \/ req.imsi # None

Valid(req) ==
  /\ req.op \in DOMAIN allowedReasons => ValidReason(req.op, req.reason)
  /\ req.op = "add" => req.imsi # None /\ req.keys
  /\ req.op = "set-plan" => req.dl # None /\ req.ul # None

-----------------------------------------------------------------------------
(* MaxMSIN and nextIMSI, in one step: nothing runs beside them here. *)

Msins(imsis) == {MsinOf[i] : i \in imsis \cap DOMAIN MsinOf}

Imsis(coll) == {d.imsi : d \in coll}

\* Wrong: MaxMSIN content with the live collection.
MaxMSINOfLive == MaxOfMongo(Msins(Imsis(subs)))

MaxMSIN == MaxOfMongo(Msins(Imsis(subs) \cup Imsis(suspended)))

\* The instance bounds the IMSIs that can be issued.
NextImsi == {i \in DOMAIN MsinOf : MsinOf[i] = nextMsin(MaxMSIN)}

-----------------------------------------------------------------------------
StoreOp(cmd) == CASE cmd = "issue-sim" -> "add" [] cmd = "set-plan" -> "plan"
                  [] cmd = "set-ip" -> "ip" [] OTHER -> cmd

\* What a valid request asks of the store: a list is about nobody, and an issue
\* about the IMSI it picks.
Bodies(req) ==
  {[op |-> StoreOp(req.op), imsi |-> i,
    ambr |-> IF req.op = "set-plan" THEN [dl |-> req.dl, ul |-> req.ul] ELSE DefaultAmbr,
    ip |-> req.ip] :
     i \in CASE req.op = "list" -> {CHOOSE i \in IMSI : TRUE}
             [] req.op = "issue-sim" -> NextImsi
             [] OTHER -> {req.imsi}}

\* The in-memory store makes the change in one step.
Apply(b) ==
  CASE b.op = "add" -> InMemory!Insert(recs, b.imsi, b.ambr, b.ip)
    [] b.op = "remove" -> InMemory!Delete(recs, b.imsi)
    [] b.op = "suspend" -> InMemory!SetStatus(recs, b.imsi, TRUE)
    [] b.op = "resume" -> InMemory!SetStatus(recs, b.imsi, FALSE)
    [] b.op = "plan" -> InMemory!SetAMBR(recs, b.imsi, b.ambr)
    [] b.op = "ip" -> InMemory!SetStaticIP(recs, b.imsi, b.ip)
    [] OTHER -> recs

ApplyAnswer(b) ==
  IF b.op \in {"list", "add", "remove"} \/ InMemory!Known(recs, b.imsi)
    THEN "ok" ELSE "notFound"

ApplyRows(b) ==
  CASE b.op = "list" -> InMemory!List(recs)
    [] b.op = "get" -> InMemory!Get(recs, b.imsi)
    [] OTHER -> <<>>

Quiet == \A r \in Request : pc[r] \in Answer \cup {"idle"}

\* A request that the mux or the handler refuses ends here.
Refuse(r, req) ==
  /\ pc' = [pc EXCEPT ![r] = IF Routed(req) THEN "failed" ELSE "notFound"]
  /\ UNCHANGED <<body, before, recs, log, said>>

Serve(r, req) ==
  \E b \in Bodies(req) :
    /\ body' = [body EXCEPT ![r] = b]
    /\ pc' = [pc EXCEPT ![r] = FirstCall(b)]
    /\ before' = [before EXCEPT ![r] = {q \in Request : Ended(q)}]
    /\ recs' = Apply(b)
    /\ log' = IF b.op \in Changes /\ ApplyAnswer(b) = "ok"
                THEN Append(log, [imsi |-> b.imsi, op |-> b.op]) ELSE log
    /\ said' = [by |-> {r}, answer |-> ApplyAnswer(b), rows |-> ApplyRows(b)]

\* A line is typed, once the answer to the one before it is there.
Type(r) ==
  /\ Quiet /\ pc[r] = "idle"
  /\ \E cmd \in Commands : \E form \in Usage(cmd, IMSI, Reason, Ambr, Address) :
       \E words \in Lines(form) :
         LET req == main(cmd, words)
         IN /\ typed' = [meant |-> form.meant, sent |-> req, plain |-> ~Swallows(words)]
            /\ IF Routed(req) /\ Valid(req) THEN Serve(r, req) ELSE Refuse(r, req)
  /\ UNCHANGED <<collections, audit, got, aborted>>

\* The store's own steps; nothing dies, and no write of the audit fails.
Serving(r) == MoveStep(r) \/ FieldStep(r) \/ ReplaceStep(r) \/ ReadStep(r)
              \/ AppendAudit(r) \/ MirrorSubs(r) \/ MirrorSuspended(r)

RecordOf(d, barred) == [barred |-> barred, ambr |-> d.ambr, ip |-> d.ip]

\* The records of these documents: barred are those that are not live.
RecordsOf(docs) ==
  [i \in Imsis(docs) |->
     LET d == CHOOSE d \in docs : d.imsi = i IN RecordOf(d, d \notin subs)]

ConsoleInit ==
  /\ body = [r \in Request |-> [op |-> "list", imsi |-> CHOOSE i \in IMSI : TRUE,
                                ambr |-> DefaultAmbr, ip |-> NoIp]]
  /\ Init
  /\ recs = RecordsOf(subs \cup suspended)
  /\ log = <<>>
  /\ said = [by |-> {}, answer |-> "ok", rows |-> <<>>]
  /\ typed = [meant |-> NoRequest, sent |-> NoRequest, plain |-> TRUE]

ConsoleNext ==
  \E r \in Request : Type(r) \/ (Serving(r) /\ UNCHANGED console)

ConsoleSpec == ConsoleInit /\ [][ConsoleNext]_consoleVars

-----------------------------------------------------------------------------
(* Properties. *)

\* Wherever between the flags of a usage line the positional words are typed, the
\* request that is sent is the one that was meant, unless a flag without a value
\* (--json, --clear) stands before them.
TypedIsSent ==
  [][ typed'.meant # NoRequest /\ typed'.plain => typed'.sent = typed'.meant ]_consoleVars

\* The handlers answer the same on both stores, and get and list show the same
\* records, except that Mongo clears the address of an unknown subscriber with 200.
SameAnswer ==
  \A r \in said.by :
    pc[r] \in Answer =>
      \/ pc[r] = said.answer /\ (body[r].op \in Reads => RecordsOf(got[r]) = said.rows)
      \/ body[r].op = "ip" /\ body[r].ip = NoIp /\ said.answer = "notFound"

\* After every command both stores hold the same subscribers, in the same status,
\* with the same plan and address, and have the same history of each, the address
\* cleared for nobody aside.
SameRecords ==
  Quiet =>
    /\ RecordsOf(subs \cup suspended) = recs
    /\ \A i \in IMSI :
         InMemory!History(audit, i) = InMemory!History(log, i)
           \/ \E r \in Request : body[r].op = "ip" /\ body[r].ip = NoIp /\ Imsi(r) = i

\* After every command a subscriber has one document, without a barring flag if he
\* is live and with all three if he is suspended, as Init takes it to be: whatever
\* has been done to him before, the next suspend makes a change that the HSS sees.
FlagsAtRest ==
  Quiet =>
    /\ \A d, e \in subs \cup suspended : d.imsi = e.imsi => d = e
    /\ \A d \in subs : d.status = 0 /\ d.odb = 0 /\ ~d.rcl
    /\ \A d \in suspended : d.status = 1 /\ d.odb = 1 /\ d.rcl

\* The two ways to find the largest MSIN agree, unless an imported MSIN has a
\* letter in it or does not fit a word: Mongo's takes what it can read of it.
SameMaxMSIN ==
  Quiet /\ (\A i \in DOMAIN recs \cap DOMAIN MsinOf : Parses(MsinOf[i]))
    => MaxMSIN = MaxOfFake(Msins(DOMAIN recs))

\* issue-sim never takes the IMSI of a subscriber, live or suspended, whatever was
\* imported, unless the largest MSIN is the last number of a word; and the IMSI it
\* picks has full length, unless that MSIN is the last one of full length or above.
IssuedIsFresh ==
  [][ typed'.sent.op = "issue-sim" =>
        \A r \in said'.by \ said.by :
          LET i == Imsi(r)' IN
          /\ MaxMSIN < Word - 1 => ~Holds(subs \cup suspended, i)
          /\ MaxMSIN < Base^Width - 1 => Len(MsinOf[i]) = Width ]_consoleVars
==============================================================================
