----------------------------- MODULE ConsoleProofs -----------------------------
(***************************************************************************)
(* Proofs about Console: one operator sees the same on both stores, however *)
(* many commands are typed, for any subscribers, plans and addresses, and   *)
(* however the words of a line are taken apart.                             *)
(***************************************************************************)
EXTENDS Console, WellFoundedInduction, TLAPS

Docs == subs \cup suspended

\* A document has its fields and no others.
Whole(d) ==
  d \in [id: {d.id}, imsi: {d.imsi}, status: {d.status}, odb: {d.odb}, rcl: BOOLEAN,
         ambr: {d.ambr}, ip: {d.ip}, last: {d.last}]

Down(d) == d.status = 0 /\ d.odb = 0 /\ ~d.rcl
Up(d) == d.status = 1 /\ d.odb = 1 /\ d.rcl

One(i) ==
  /\ \A d, e \in Docs : d.imsi = i /\ e.imsi = i => d = e
  /\ \A d \in subs : d.imsi = i => d \notin suspended

\* A subscriber as Init takes him to be.
AtRest(i) ==
  /\ One(i)
  /\ \A d \in subs : d.imsi = i => Down(d)
  /\ \A d \in suspended : d.imsi = i => Up(d)

Known(i) == i \in DOMAIN recs

\* Both stores tell the same of a subscriber.
Settled(i) ==
  /\ AtRest(i)
  /\ Known(i) <=> \E d \in Docs : d.imsi = i
  /\ \A d \in Docs : d.imsi = i => recs[i] = RecordOf(d, d \notin subs)

-----------------------------------------------------------------------------
(* Lists of entries, and what a line asks for.                                     *)

IsHistory(f, s, i, n) ==
  f = [m \in 0..n |-> IF m = 0 THEN <<>>
                      ELSE IF s[m].imsi = i THEN Append(f[m - 1], s[m]) ELSE f[m - 1]]

\* Each value of that function is given by the one before it.
LEMMA HistoryAt ==
  ASSUME NEW f, NEW s, NEW i, NEW n, IsHistory(f, s, i, n), NEW m \in 0..n
  PROVE  f[m] = IF m = 0 THEN <<>> ELSE IF s[m].imsi = i THEN Append(f[m - 1], s[m]) ELSE f[m - 1]
<1> DEFINE F(k) == IF k = 0 THEN <<>>
                   ELSE IF s[k].imsi = i THEN Append(f[k - 1], s[k]) ELSE f[k - 1]
<1>1. f = [k \in 0..n |-> F(k)]
  BY DEF IsHistory
<1> HIDE DEF F
<1>2. f[m] = F(m)
  BY <1>1
<1> QED  BY <1>2 DEF F

\* A set of numbers has a least member.
LEMMA Least ==
  ASSUME NEW S, S \subseteq Nat, S # {}
  PROVE  \E n \in S : \A m \in Nat : m < n => m \notin S
<1>1. PICK n \in S : \A m \in S : <<m, n>> \notin OpToRel(<, Nat)
  BY NatLessThanWellFounded, WFMin
<1>2. \A m \in S : ~(m < n)
  BY <1>1 DEF OpToRel
<1> QED  BY <1>2

\* There is such a function for every length: else there would be a least length
\* without one, and the function of the length before it would extend.
LEMMA HistoryExists ==
  ASSUME NEW s, NEW i
  PROVE  \A n \in Nat : \E f : IsHistory(f, s, i, n)
<1> DEFINE Bad == {n \in Nat : ~\E f : IsHistory(f, s, i, n)}
<1> SUFFICES ASSUME Bad # {} PROVE FALSE
  OBVIOUS
<1>1. PICK n \in Bad : \A m \in Nat : m < n => m \notin Bad
  BY Least
<1>2. n # 0
  <2>1. IsHistory([m \in 0..0 |-> <<>>], s, i, 0)
    BY DEF IsHistory
  <2> QED  BY <2>1
<1>3. n - 1 \in Nat /\ n - 1 < n
  BY <1>2
<1>4. PICK f : IsHistory(f, s, i, n - 1)
  BY <1>1, <1>3
<1> DEFINE g == [m \in 0..n |-> IF m < n THEN f[m]
                               ELSE IF s[n].imsi = i THEN Append(f[n - 1], s[n]) ELSE f[n - 1]]
<1>5. IsHistory(g, s, i, n)
  <2>1. \A m \in 0..n : m # 0 => g[m - 1] = f[m - 1]
    BY <1>3
  <2>2. \A m \in 0..n - 1 : f[m] = IF m = 0 THEN <<>>
                                  ELSE IF s[m].imsi = i THEN Append(f[m - 1], s[m]) ELSE f[m - 1]
    BY <1>4, HistoryAt
  <2>3. \A m \in 0..n : g[m] = IF m = 0 THEN <<>>
                              ELSE IF s[m].imsi = i THEN Append(g[m - 1], s[m]) ELSE g[m - 1]
    BY <1>2, <1>3, <2>1, <2>2
  <2> QED  BY <2>3 DEF IsHistory
<1> QED  BY <1>5

\* Lists that begin alike have histories that begin alike.
LEMMA HistoriesAgree ==
  ASSUME NEW s, NEW t, NEW i, NEW n \in Nat, NEW k \in Nat, n <= k,
         \A m \in 1..n : s[m] = t[m],
         NEW f, IsHistory(f, s, i, n), NEW g, IsHistory(g, t, i, k)
  PROVE  \A m \in 0..n : f[m] = g[m]
<1> DEFINE Bad == {m \in 0..n : f[m] # g[m]}
<1> SUFFICES ASSUME Bad # {} PROVE FALSE
  OBVIOUS
<1>1. PICK m \in Bad : \A l \in Nat : l < m => l \notin Bad
  <2>1. Bad \subseteq Nat
    OBVIOUS
  <2> QED  BY <2>1, Least
<1> m \in 0..n /\ m \in 0..k
  OBVIOUS
<1>2. /\ f[m] = IF m = 0 THEN <<>> ELSE IF s[m].imsi = i THEN Append(f[m - 1], s[m]) ELSE f[m - 1]
      /\ g[m] = IF m = 0 THEN <<>> ELSE IF t[m].imsi = i THEN Append(g[m - 1], t[m]) ELSE g[m - 1]
  BY HistoryAt
<1>3. m # 0
  BY <1>1, <1>2
<1>4. f[m - 1] = g[m - 1] /\ s[m] = t[m]
  BY <1>1, <1>3
<1> QED  BY <1>2, <1>4

\* A history is the last value of its function.
LEMMA HistoryIs ==
  ASSUME NEW S, NEW s \in Seq(S), NEW i
  PROVE  \E f : IsHistory(f, s, i, Len(s)) /\ InMemory!History(s, i) = f[Len(s)]
<1>1. Len(s) \in Nat
  OBVIOUS
<1>2. \E f : IsHistory(f, s, i, Len(s))
  BY <1>1, HistoryExists
<1>3. InMemory!History(s, i) = (CHOOSE f : IsHistory(f, s, i, Len(s)))[Len(s)]
  BY Zenon DEF InMemory!History, IsHistory
<1> QED  BY <1>2, <1>3

\* An entry at the end of a list goes to the end of one history.
LEMMA HistoryAppend ==
  ASSUME NEW S, NEW s \in Seq(S), NEW e \in S, NEW i
  PROVE  InMemory!History(Append(s, e), i) =
           IF e.imsi = i THEN Append(InMemory!History(s, i), e) ELSE InMemory!History(s, i)
<1> DEFINE n == Len(s)
           t == Append(s, e)
<1>1. /\ t \in Seq(S) /\ Len(t) = n + 1 /\ n \in Nat
      /\ t[n + 1] = e /\ \A m \in 1..n : t[m] = s[m]
  OBVIOUS
<1>2. PICK f : IsHistory(f, s, i, n) /\ InMemory!History(s, i) = f[n]
  BY HistoryIs
<1> HIDE DEF t
<1>3. PICK g : IsHistory(g, t, i, n + 1) /\ InMemory!History(t, i) = g[n + 1]
  BY <1>1, HistoryIs
<1>4. g[n] = f[n]
  <2>1. n + 1 \in Nat /\ n <= n + 1
    BY <1>1
  <2>2. \A m \in 0..n : f[m] = g[m]
    BY <1>1, <1>2, <1>3, <2>1, HistoriesAgree
  <2> QED  BY <1>1, <2>2
<1>5. g[n + 1] = IF e.imsi = i THEN Append(g[n], e) ELSE g[n]
  <2>1. n + 1 \in 0..n + 1 /\ n + 1 # 0 /\ (n + 1) - 1 = n
    BY <1>1
  <2> QED  BY <1>1, <1>3, <2>1, HistoryAt
<1> QED  BY <1>2, <1>3, <1>4, <1>5 DEF t

Sequence(s) == \E S : s \in Seq(S)

\* The same of a list of any entries.
LEMMA AppendSequence ==
  ASSUME NEW s, Sequence(s), NEW e
  PROVE  /\ Sequence(Append(s, e))
         /\ \A i : InMemory!History(Append(s, e), i) =
                     IF e.imsi = i THEN Append(InMemory!History(s, i), e)
                                   ELSE InMemory!History(s, i)
<1>1. PICK S : s \in Seq(S)
  BY DEF Sequence
<1> DEFINE T == S \cup {e}
<1>2. s \in Seq(T) /\ e \in T
  BY <1>1
<1> HIDE DEF T
<1>3. Append(s, e) \in Seq(T)
  BY <1>2
<1> QED  BY <1>2, <1>3, HistoryAppend DEF Sequence

\* However a line is taken apart, its request is one of its command, and only set-ip
\* sends an address.
LEMMA MainKeepsCommand ==
  ASSUME NEW cmd \in Commands, NEW line
  PROVE  /\ main(cmd, line).op = cmd
         /\ cmd # "set-ip" => main(cmd, line).ip = None
<1> USE DEF main, NoRequest
<1>1. CASE cmd \in {"remove", "get"}
  BY <1>1
<1>2. CASE cmd = "list"
  BY <1>2
<1>3. CASE cmd = "issue-sim"
  BY <1>3
<1>4. CASE cmd = "add"
  BY <1>4
<1>5. CASE cmd \in {"suspend", "resume"}
  BY <1>5
<1>6. CASE cmd = "set-plan"
  BY <1>6
<1>7. CASE cmd = "set-ip"
  BY <1>7
<1> QED  BY <1>1, <1>2, <1>3, <1>4, <1>5, <1>6, <1>7 DEF Commands

\* What is asked of the store is one of its operations; a new subscriber has the plan
\* of all and no address.
LEMMA BodiesAre ==
  ASSUME NEW req, req.op \in Commands, req.op # "set-ip" => req.ip = None, NEW b \in Bodies(req)
  PROVE  /\ b.op \in Reads \cup Changes
         /\ b.op = "add" => b.ambr = DefaultAmbr /\ b.ip = NoIp
<1>1. NoIp = None
  BY ConsoleAssumption
<1>2. PICK i : b = [op |-> StoreOp(req.op), imsi |-> i,
                    ambr |-> IF req.op = "set-plan" THEN [dl |-> req.dl, ul |-> req.ul]
                                                    ELSE DefaultAmbr,
                    ip |-> req.ip]
  BY Zenon DEF Bodies
<1> QED  BY <1>1, <1>2 DEF StoreOp, Commands, Reads, Changes

-----------------------------------------------------------------------------
(* What the calls make of a document.                                              *)

\* Document e is document d but for these fields.
Like(d, e) == e.id = d.id /\ e.imsi = d.imsi /\ Whole(e)

\* Barring, clearing and dropping the address leave the rest of a document alone.
LEMMA EditsAre ==
  ASSUME NEW d, Whole(d)
  PROVE  /\ Like(d, Barred(d)) /\ Up(Barred(d))
         /\ Barred(d).ambr = d.ambr /\ Barred(d).ip = d.ip
         /\ Like(d, Cleared(d)) /\ (d.status = 0 => Down(Cleared(d)))
         /\ Cleared(d).ambr = d.ambr /\ Cleared(d).ip = d.ip
         /\ Like(d, WithoutIp(d)) /\ WithoutIp(d).ip = NoIp /\ WithoutIp(d).ambr = d.ambr
         /\ (Up(WithoutIp(d)) <=> Up(d)) /\ (Down(WithoutIp(d)) <=> Down(d))
BY DEF Whole, Like, Barred, Cleared, WithoutIp, Up, Down

Stamped(r, d) == [d EXCEPT !.status = Stamp(r)]

\* So does the status that move() stamps.
LEMMA StampsAre ==
  ASSUME NEW d, Whole(d), NEW r
  PROVE  /\ Like(d, Stamped(r, d)) /\ Stamped(r, d).status = Stamp(r)
         /\ Stamped(r, d).odb = d.odb /\ (Stamped(r, d).rcl <=> d.rcl)
         /\ Stamped(r, d).ambr = d.ambr /\ Stamped(r, d).ip = d.ip
         /\ Stamp(r) = d.status => Stamped(r, d) = d
BY DEF Whole, Like, Stamped

\* So does the $set of a plan or an address.
LEMMA FieldsAre ==
  ASSUME NEW d, Whole(d), NEW r
  PROVE  /\ Like(d, Fields(r, d))
         /\ (Up(Fields(r, d)) <=> Up(d)) /\ (Down(Fields(r, d)) <=> Down(d))
         /\ Fields(r, d).ambr = IF body[r].op = "plan" THEN body[r].ambr ELSE d.ambr
         /\ Fields(r, d).ip = IF body[r].op = "plan" THEN d.ip ELSE body[r].ip
<1>1. CASE body[r].op = "plan"
  BY <1>1 DEF Whole, Like, Fields, Up, Down
<1>2. CASE body[r].op # "plan"
  BY <1>2 DEF Whole, Like, Fields, Up, Down
<1> QED  BY <1>1, <1>2

\* So does the note of the last action.
LEMMA MirrorsAre ==
  ASSUME NEW d, Whole(d), NEW r
  PROVE  /\ Like(d, Mirrored(r, d))
         /\ (Up(Mirrored(r, d)) <=> Up(d)) /\ (Down(Mirrored(r, d)) <=> Down(d))
         /\ Mirrored(r, d).ambr = d.ambr /\ Mirrored(r, d).ip = d.ip
BY DEF Whole, Like, Mirrored, Up, Down

\* A new document is as Init takes a live one to be.
LEMMA NewIs ==
  ASSUME NEW r, NEW i
  PROVE  /\ Whole(NewDoc(r, i)) /\ NewDoc(r, i).id = r /\ NewDoc(r, i).imsi = i
         /\ Down(NewDoc(r, i))
         /\ NewDoc(r, i).ambr = DefaultAmbr /\ NewDoc(r, i).ip = NoIp
BY DEF Whole, NewDoc, Down

\* Document e takes the place of document d, or there is none to take the place of.
Swap(coll, new, i, d, e) == d \in coll /\ d.imsi = i /\ new = (coll \ {d}) \cup {e}
Same0(coll, new, i) == new = coll /\ \A d \in coll : d.imsi # i

\* An update changes one document or finds none.
LEMMA UpdatesAre ==
  ASSUME NEW coll, NEW new, NEW i, NEW r
  PROVE  /\ new \in UpdateOne(coll, i, Barred) =>
              Same0(coll, new, i) \/ \E d : Swap(coll, new, i, d, Barred(d))
         /\ new \in UpdateOne(coll, i, Cleared) =>
              Same0(coll, new, i) \/ \E d : Swap(coll, new, i, d, Cleared(d))
         /\ new \in UpdateOne(coll, i, WithoutIp) =>
              Same0(coll, new, i) \/ \E d : Swap(coll, new, i, d, WithoutIp(d))
         /\ new \in UpdateOne(coll, i, LAMBDA d : Fields(r, d)) =>
              Same0(coll, new, i) \/ \E d : Swap(coll, new, i, d, Fields(r, d))
         /\ new \in UpdateOne(coll, i, LAMBDA d : Mirrored(r, d)) =>
              Same0(coll, new, i) \/ \E d : Swap(coll, new, i, d, Mirrored(r, d))
BY DEF UpdateOne, Holds, Matching, Swap, Same0

\* A delete takes one document or finds none.
LEMMA DeletesAre ==
  ASSUME NEW coll, NEW i, NEW new \in DeleteOne(coll, i)
  PROVE  Same0(coll, new, i) \/ \E d \in coll : d.imsi = i /\ new = coll \ {d}
BY DEF DeleteOne, Holds, Matching, Same0

-----------------------------------------------------------------------------
(* How far a command has come.                                                     *)

Running(r) == pc[r] \notin Answer \cup {"idle"}

\* The document as the command will leave it.
Made(r, d) == IF body[r].op \in {"plan", "ip"} THEN Fields(r, d) ELSE d

Bars(r, d) == IF body[r].op = "suspend" THEN TRUE
              ELSE IF body[r].op = "resume" THEN FALSE ELSE d \notin subs

\* The in-memory store has made the change already.
Kept(r) ==
  /\ Known(Imsi(r)) <=> \E d \in Docs : d.imsi = Imsi(r)
  /\ \A d \in Docs : d.imsi = Imsi(r) => recs[Imsi(r)] = RecordOf(Made(r, d), Bars(r, d))

Moving(r) ==
  LET i == Imsi(r) IN
  /\ body[r].op \in {"suspend", "resume"} /\ Kept(r)
  /\ pc[r] = "flag" => body[r].op = "suspend" /\ AtRest(i)
  /\ pc[r] = "find" => IF body[r].op = "suspend"
                         THEN One(i) /\ \A d \in Docs : d.imsi = i => Up(d) ELSE AtRest(i)
  /\ pc[r] = "insert" =>
       One(i) /\ \E d \in From(r) : d.imsi = i /\ Up(d) /\ got[r] = {Stamped(r, d)}
  /\ pc[r] = "delete" =>
       \E d \in From(r) : /\ d.imsi = i /\ Up(d) /\ Stamped(r, d) \in Target(r)
                          /\ \A e \in From(r) : e.imsi = i => e = d
                          /\ \A e \in Target(r) : e.imsi = i => e = Stamped(r, d)
  /\ pc[r] = "count" => AtRest(i) /\ \A d \in From(r) : d.imsi # i
  /\ pc[r] = "clear" => /\ body[r].op = "resume" /\ One(i)
                        /\ \A d \in suspended : d.imsi # i
                        /\ \A d \in subs : d.imsi = i => d.status = 0

Editing(r) ==
  LET i == Imsi(r) IN
  /\ body[r].op \in {"plan", "ip"} /\ Kept(r) /\ AtRest(i)
  /\ pc[r] = "setSuspended" => \A d \in subs : d.imsi # i
  /\ pc[r] \in {"unsetSubs", "unsetSuspended"} => body[r].op = "ip" /\ body[r].ip = NoIp
  /\ pc[r] = "unsetSuspended" => \A d \in subs : d.imsi = i => d.ip = NoIp

Replacing(r) ==
  LET i == Imsi(r) IN
  /\ body[r].op \in {"add", "remove"} /\ AtRest(i)
  /\ IF body[r].op = "add"
       THEN Known(i) /\ recs[i] = [barred |-> FALSE, ambr |-> DefaultAmbr, ip |-> NoIp]
       ELSE ~Known(i) /\ pc[r] # "insertNew"
  /\ pc[r] # "purgeSubs" => \A d \in subs : d.imsi # i
  /\ pc[r] = "insertNew" => \A d \in suspended : d.imsi # i

Reading(r) ==
  LET i == Imsi(r) IN
  /\ body[r].op \in Reads /\ Settled(i)
  /\ pc[r] = "readSuspended" =>
       IF body[r].op = "list" THEN got[r] = subs
       ELSE got[r] = {} /\ \A d \in subs : d.imsi # i

Progress(r) ==
  \/ pc[r] \in {"flag", "find", "insert", "delete", "count", "clear"} /\ Moving(r)
  \/ pc[r] \in {"setSubs", "setSuspended", "unsetSubs", "unsetSuspended"} /\ Editing(r)
  \/ pc[r] \in {"purgeSubs", "purgeSuspended", "insertNew"} /\ Replacing(r)
  \/ pc[r] \in {"readSubs", "readSuspended"} /\ Reading(r)
  \/ /\ pc[r] \in {"audit", "mirrorSubs", "mirrorSuspended"}
     /\ body[r].op \in Changes /\ Settled(Imsi(r))

\* The answer, when there is one, is that of the in-memory store.
Granted(r) == body[r].op \in {"add", "remove"} \/ Known(Imsi(r))
              \/ (body[r].op = "ip" /\ body[r].ip = NoIp)

Outcome(r) ==
  /\ \/ pc[r] \in {"clear", "audit", "mirrorSubs", "mirrorSuspended"}
     \/ pc[r] = "ok" /\ body[r].op \in Changes
     => Granted(r)
  /\ pc[r] = "ok" /\ body[r].op \in Reads =>
       /\ body[r].op = "get" => Known(Imsi(r))
       /\ RecordsOf(got[r]) = ApplyRows(body[r])
  /\ pc[r] = "notFound" => /\ ~Known(Imsi(r)) /\ body[r].op \notin {"list", "add", "remove"}
                           /\ body[r].op \in Reads => got[r] = {}
  /\ pc[r] # "failed"

\* What the documents of all subscribers have in common.
DocsInv ==
  /\ \A d \in Docs : Whole(d)
  /\ \A d, e \in Docs : d.id = e.id => d.imsi = e.imsi
  /\ \A d \in Docs :
       \/ d.id \in IMSI
       \/ /\ d.id \in Request
          /\ pc[d.id] \notin {"idle", "purgeSubs", "purgeSuspended", "insertNew"}

ControlInv ==
  /\ DOMAIN pc = Request /\ DOMAIN body = Request /\ DOMAIN got = Request
  /\ \A r \in Request : body[r].op \in Reads \cup Changes
  /\ recs = [i \in DOMAIN recs |-> recs[i]]

\* What a step of the command does, whichever it is.
Turns(r) ==
  /\ Running(r)
  /\ DOMAIN pc' = Request /\ DOMAIN got' = Request /\ body' = body
  /\ \A q \in Request : q # r => pc'[q] = pc[q] /\ got'[q] = got[q]
  /\ pc'[r] \notin {"idle", "purgeSubs"} /\ (pc'[r] = "insertNew" => pc[r] = "purgeSuspended")
  /\ pc'[r] = "purgeSuspended" => pc[r] = "purgeSubs"

Frames(r) ==
  /\ \A d : d.imsi # Imsi(r) => /\ d \in subs' <=> d \in subs
                                /\ d \in suspended' <=> d \in suspended
  /\ \A d \in Docs' : /\ Whole(d)
                       /\ \/ \E e \in Docs : e.id = d.id /\ e.imsi = d.imsi
                          \/ d.id = r /\ d.imsi = Imsi(r) /\ pc[r] = "insertNew"

Goes(r) ==
  /\ Turns(r) /\ Frames(r) /\ Outcome(r)'
  /\ IF Running(r)' THEN Progress(r)' ELSE Settled(Imsi(r))'

\* Who is not asked about is left alone: when nothing changes,
LEMMA SameFrames ==
  ASSUME DocsInv, NEW r, subs' = subs, suspended' = suspended
  PROVE  Frames(r)
BY DEF Frames, DocsInv, Docs

\* when a document of the subscriber is changed,
LEMMA SwapFrames ==
  ASSUME DocsInv, NEW r, NEW d, NEW e, Like(d, e),
         \/ Swap(subs, subs', Imsi(r), d, e) /\ suspended' = suspended
         \/ Swap(suspended, suspended', Imsi(r), d, e) /\ subs' = subs
  PROVE  Frames(r)
BY DEF Frames, DocsInv, Docs, Swap, Like

\* when one is deleted,
LEMMA DeleteFrames ==
  ASSUME DocsInv, NEW r, NEW d, d.imsi = Imsi(r),
         \/ subs' = subs \ {d} /\ suspended' = suspended
         \/ suspended' = suspended \ {d} /\ subs' = subs
  PROVE  Frames(r)
BY DEF Frames, DocsInv, Docs

\* and when one is inserted.
LEMMA InsertFrames ==
  ASSUME DocsInv, NEW r, NEW d, d.imsi = Imsi(r), Whole(d),
         (\E e \in Docs : e.id = d.id /\ e.imsi = d.imsi) \/ (d.id = r /\ pc[r] = "insertNew"),
         \/ subs' = subs \cup {d} /\ suspended' = suspended
         \/ suspended' = suspended \cup {d} /\ subs' = subs
  PROVE  Frames(r)
BY DEF Frames, DocsInv, Docs

-----------------------------------------------------------------------------
(* The steps of a command.                                                         *)

\* UpdateOne with the three flags, in the live collection.
LEMMA FlagGoes ==
  ASSUME DocsInv, ControlInv, NEW r \in Request, Progress(r), Outcome(r), Flag(r),
         UNCHANGED console
  PROVE  Goes(r)
<1> DEFINE i == Imsi(r)
<1>1. /\ pc[r] = "flag" /\ pc' = [pc EXCEPT ![r] = "find"]
      /\ suspended' = suspended /\ got' = got /\ body' = body /\ recs' = recs
      /\ Same0(subs, subs', i) \/ \E d : Swap(subs, subs', i, d, Barred(d))
  BY UpdatesAre DEF Flag, At, Goto, console
<1>2. body[r].op = "suspend" /\ Kept(r) /\ AtRest(i)
  BY <1>1 DEF Progress, Moving
<1>3. i' = i /\ pc'[r] = "find" /\ Turns(r)
  BY <1>1 DEF Imsi, ControlInv, Turns, Running, Answer
<1>4. Outcome(r)' /\ Running(r)'
  BY <1>3 DEF Outcome, Running, Answer
<1>5. Frames(r) /\ Kept(r)' /\ One(i)' /\ \A d \in Docs' : d.imsi = i => Up(d)
  <2>1. CASE Same0(subs, subs', i)
    BY <1>1, <1>2, <1>3, <2>1, SameFrames
       DEF Kept, AtRest, One, Docs, Known, Made, Bars, Same0
  <2>2. ASSUME NEW d, Swap(subs, subs', i, d, Barred(d))
        PROVE  Frames(r) /\ Kept(r)' /\ One(i)' /\ \A c \in Docs' : c.imsi = i => Up(c)
    <3> DEFINE e == Barred(d)
    <3>1. d \in subs /\ d.imsi = i /\ subs' = (subs \ {d}) \cup {e} /\ Whole(d)
      BY <2>2 DEF Swap, DocsInv, Docs
    <3>2. /\ Like(d, e) /\ e.imsi = i /\ Up(e) /\ e.ambr = d.ambr /\ e.ip = d.ip
      BY <3>1, EditsAre DEF Like
    <3>3. Frames(r)
      BY <1>1, <2>2, <3>2, SwapFrames
    <3> HIDE DEF e
    <3>4. Docs' = (Docs \ {d}) \cup {e} /\ \A c \in Docs : c.imsi = i => c = d
      BY <1>1, <1>2, <3>1 DEF Docs, AtRest, One
    <3>5. One(i)' /\ \A c \in Docs' : c.imsi = i => Up(c)
      BY <1>1, <1>2, <1>3, <3>1, <3>2, <3>4 DEF One, Docs, AtRest
    <3>6. Kept(r)'
      BY <1>1, <1>2, <1>3, <3>1, <3>2, <3>4 DEF Kept, Known, Made, Bars, RecordOf, Docs
    <3> QED  BY <3>3, <3>5, <3>6
  <2> QED  BY <1>1, <2>1, <2>2
<1> QED  BY <1>1, <1>2, <1>3, <1>4, <1>5 DEF Goes, Progress, Moving

\* FindOne of the document that moves.
LEMMA FindGoes ==
  ASSUME DocsInv, ControlInv, NEW r \in Request, Progress(r), Outcome(r), FindRaw(r),
         UNCHANGED console
  PROVE  Goes(r)
<1> DEFINE i == Imsi(r)
<1>1. /\ pc[r] = "find" /\ subs' = subs /\ suspended' = suspended /\ body' = body
      /\ recs' = recs
      /\ \/ /\ pc' = [pc EXCEPT ![r] = "insert"]
            /\ \E d \in From(r) : d.imsi = i /\ got' = [got EXCEPT ![r] = {Stamped(r, d)}]
         \/ /\ pc' = [pc EXCEPT ![r] = "count"] /\ got' = got
            /\ \A d \in From(r) : d.imsi # i
  BY DEF FindRaw, At, Goto, console, collections, Holds, Matching, Stamped
<1>2. Moving(r)
  BY <1>1 DEF Progress
<1>3. i' = i /\ From(r)' = From(r) /\ Turns(r) /\ Frames(r)
  BY <1>1, SameFrames DEF Imsi, ControlInv, Turns, Running, Answer, From
<1>4. Kept(r)' /\ (One(i) => One(i)') /\ (AtRest(i) => AtRest(i)')
  BY <1>1, <1>2, <1>3 DEF Moving, Kept, Docs, Known, Made, Bars, Fields, AtRest, One
<1>5. Stamp(r)' = Stamp(r)
  BY <1>1 DEF Stamp
<1>6. CASE pc' = [pc EXCEPT ![r] = "insert"]
  <2>1. pc'[r] = "insert"
    BY <1>6 DEF ControlInv
  <2>2. PICK d \in From(r) : d.imsi = i /\ got'[r] = {Stamped(r, d)}
    BY <1>1, <2>1 DEF ControlInv
  <2>3. Up(d) /\ One(i)
    BY <1>1, <1>2, <2>2 DEF Moving, AtRest, From, Docs
  <2>4. Moving(r)'
    BY <1>1, <1>2, <1>3, <1>4, <1>5, <2>1, <2>2, <2>3 DEF Moving, Stamped
  <2>5. Outcome(r)'
    BY <2>1 DEF Outcome
  <2> QED  BY <1>3, <2>1, <2>4, <2>5 DEF Goes, Progress, Running, Answer
<1>7. CASE pc' = [pc EXCEPT ![r] = "count"] /\ \A d \in From(r) : d.imsi # i
  <2>1. pc'[r] = "count"
    BY <1>7 DEF ControlInv
  <2>2. AtRest(i)
    BY <1>1, <1>2, <1>7 DEF Moving, AtRest, From, Docs
  <2>3. Moving(r)'
    BY <1>1, <1>2, <1>3, <1>4, <1>7, <2>1, <2>2 DEF Moving
  <2>4. Outcome(r)'
    BY <2>1 DEF Outcome
  <2> QED  BY <1>3, <2>1, <2>3, <2>4 DEF Goes, Progress, Running, Answer
<1> QED  BY <1>1, <1>6, <1>7

\* CountDocuments in the collection that it would move to.
LEMMA CountGoes ==
  ASSUME DocsInv, ControlInv, NEW r \in Request, Progress(r), Outcome(r), CountTarget(r),
         UNCHANGED console
  PROVE  Goes(r)
<1> DEFINE i == Imsi(r)
<1>1. /\ pc[r] = "count" /\ subs' = subs /\ suspended' = suspended /\ body' = body
      /\ recs' = recs /\ got' = got
      /\ pc' = [pc EXCEPT ![r] = IF \E d \in Target(r) : d.imsi = i
                                   THEN AfterMove(r) ELSE "notFound"]
  BY DEF CountTarget, At, Goto, console, collections, Holds, Matching
<1>2. Kept(r) /\ body[r].op \in {"suspend", "resume"} /\ AtRest(i) /\ \A d \in From(r) : d.imsi # i
  BY <1>1 DEF Progress, Moving
<1>3. pc'[r] = IF \E d \in Target(r) : d.imsi = i THEN AfterMove(r) ELSE "notFound"
  BY <1>1 DEF ControlInv
<1>4. i' = i /\ Turns(r) /\ Frames(r)
  BY <1>1, <1>3, SameFrames DEF Imsi, ControlInv, Turns, Running, Answer, AfterMove
<1>5. Kept(r)' /\ AtRest(i)'
  BY <1>1, <1>2, <1>4 DEF Kept, Docs, Known, Made, Bars, Fields, AtRest, One
<1>6. Settled(i)
  BY <1>2 DEF Kept, Settled, Made, Bars, From, Docs
<1>7. Settled(i)' /\ Settled(Imsi(r))'
  BY <1>1, <1>4, <1>6 DEF Settled, AtRest, One, Docs, Known
<1>8. CASE \E d \in Target(r) : d.imsi = i
  <2>1. Known(i)'
    BY <1>1, <1>4, <1>6, <1>8 DEF Settled, Target, Docs, Known
  <2>2. Outcome(r)'
    BY <1>1, <1>2, <1>3, <1>4, <1>8, <2>1 DEF Outcome, Granted, AfterMove
  <2>3. CASE body[r].op = "suspend"
    <3>1. pc'[r] = "audit"
      BY <1>3, <1>8, <2>3 DEF AfterMove
    <3> QED  BY <1>1, <1>2, <1>4, <1>7, <2>2, <3>1 DEF Goes, Progress, Changes, Running, Answer
  <2>4. CASE body[r].op = "resume"
    <3>1. pc'[r] = "clear"
      BY <1>3, <1>8, <2>4 DEF AfterMove
    <3>2. \A d \in suspended : d.imsi # i
      BY <1>2, <2>4 DEF From
    <3>3. One(i) /\ \A d \in subs : d.imsi = i => d.status = 0
      BY <1>2 DEF AtRest, Down
    <3>4. One(i)'
      BY <1>1, <1>4, <3>3 DEF One, Docs
    <3>5. Moving(r)'
      BY <1>1, <1>4, <1>5, <2>4, <3>1, <3>2, <3>3, <3>4 DEF Moving
    <3> QED  BY <1>4, <2>2, <3>1, <3>5 DEF Goes, Progress, Running, Answer
  <2> QED  BY <1>2, <2>3, <2>4
<1>9. CASE ~\E d \in Target(r) : d.imsi = i
  <2>1. pc'[r] = "notFound"
    BY <1>3, <1>9
  <2>2. ~Known(i)'
    BY <1>1, <1>2, <1>4, <1>6, <1>9 DEF Settled, Target, From, Docs, Known
  <2>3. Outcome(r)'
    BY <1>1, <1>2, <1>4, <2>1, <2>2 DEF Outcome, Reads
  <2> QED  BY <1>4, <1>7, <2>1, <2>3 DEF Goes, Running, Answer
<1> QED  BY <1>8, <1>9

\* InsertOne of the stamped document.
LEMMA InsertGoes ==
  ASSUME DocsInv, ControlInv, NEW r \in Request, Progress(r), Outcome(r), InsertRaw(r),
         UNCHANGED console
  PROVE  Goes(r)
<1> DEFINE i == Imsi(r)
           coll == Target(r)
<1>1. pc[r] = "insert" /\ body' = body /\ recs' = recs /\ got' = [got EXCEPT ![r] = {}]
  BY DEF InsertRaw, At, InsertInto, Goto, console
<1>2. Kept(r) /\ body[r].op \in {"suspend", "resume"} /\ One(i)
  BY <1>1 DEF Progress, Moving
<1>3. PICK d \in From(r) : d.imsi = i /\ Up(d) /\ got[r] = {Stamped(r, d)}
  BY <1>1 DEF Progress, Moving
<1> DEFINE e == Stamped(r, d)
<1>4. d \in Docs /\ Whole(d)
  BY DEF DocsInv, Docs, From
<1>5. /\ Like(d, e) /\ e.status = Stamp(r) /\ e.odb = d.odb /\ (e.rcl <=> d.rcl)
      /\ e.ambr = d.ambr /\ e.ip = d.ip /\ (body[r].op = "suspend" => e = d)
  BY <1>3, <1>4, StampsAre DEF Stamp, Up
<1>6. got[r] = {e} /\ e.id = d.id /\ e.imsi = i
  BY <1>3, <1>5 DEF Like
<1>7. Stamped(r, d)' = e /\ i' = i
  BY <1>1 DEF Stamped, Stamp, Imsi
<1> HIDE DEF e
<1>8. \A x \in From(r) : x.imsi = i => x = d
  BY <1>2, <1>3, <1>4 DEF One, From, Docs
<1>9. \A x \in Target(r) : x.imsi # i
  BY <1>2, <1>3, <1>4 DEF One, From, Target, Docs
<1>10. ~HasId(Target(r), e.id)
  BY <1>3, <1>4, <1>6, <1>9 DEF HasId, DocsInv, Target, Docs
<1>11. /\ pc' = [pc EXCEPT ![r] = "delete"]
       /\ \/ body[r].op = "suspend" /\ suspended' = suspended \cup {e} /\ subs' = subs
          \/ body[r].op = "resume" /\ subs' = subs \cup {e} /\ suspended' = suspended
  <2>1. ~\E x \in got[r] : HasId(Target(r), x.id)
    BY <1>6, <1>10
  <2>2. CASE body[r].op = "suspend"
    BY <1>6, <2>1, <2>2 DEF InsertRaw, InsertInto, Goto, Target
  <2>3. CASE body[r].op = "resume"
    BY <1>6, <2>1, <2>3 DEF InsertRaw, InsertInto, Goto, Target
  <2> QED  BY <1>2, <2>2, <2>3
<1>12. pc'[r] = "delete" /\ Turns(r)
  BY <1>1, <1>11 DEF ControlInv, Turns, Running, Answer
<1>13. Frames(r)
  BY <1>4, <1>5, <1>6, <1>11, InsertFrames DEF Like
<1>14. Kept(r)'
  <2>1. Docs' = Docs \cup {e}
    BY <1>11 DEF Docs
  <2>2. recs[i] = RecordOf(d, body[r].op = "suspend")
    BY <1>2, <1>3, <1>4 DEF Kept, Made, Bars
  <2>3. RecordOf(e, body[r].op = "suspend") = RecordOf(d, body[r].op = "suspend")
    BY <1>5 DEF RecordOf
  <2>4. Known(i)
    BY <1>2, <1>3, <1>4 DEF Kept
  <2>5. \A x \in Docs' : x.imsi = i => recs[i] = RecordOf(x, body[r].op = "suspend")
    BY <1>2, <2>1, <2>2, <2>3, <1>4, <1>3 DEF One
  <2>6. \E x \in Docs' : x.imsi = i
    BY <1>6, <2>1
  <2> QED  BY <1>1, <1>2, <1>7, <2>4, <2>5, <2>6 DEF Kept, Made, Bars, Known
<1>15. /\ d \in From(r)' /\ e \in Target(r)'
       /\ \A x \in From(r)' : x.imsi = i => x = d
       /\ \A x \in Target(r)' : x.imsi = i => x = e
  BY <1>1, <1>8, <1>9, <1>11 DEF From, Target
<1>16. Moving(r)'
  BY <1>1, <1>2, <1>3, <1>7, <1>12, <1>14, <1>15 DEF Moving
<1>17. Outcome(r)'
  BY <1>12 DEF Outcome
<1> QED  BY <1>12, <1>13, <1>16, <1>17 DEF Goes, Progress, Running, Answer

\* DeleteOne of the document that it was.
LEMMA DeleteGoes ==
  ASSUME DocsInv, ControlInv, NEW r \in Request, Progress(r), Outcome(r), DeleteRaw(r),
         UNCHANGED console
  PROVE  Goes(r)
<1> DEFINE i == Imsi(r)
<1>1. /\ pc[r] = "delete" /\ body' = body /\ recs' = recs /\ got' = got
      /\ pc' = [pc EXCEPT ![r] = AfterMove(r)]
      /\ \/ /\ body[r].op = "suspend" /\ subs' \in DeleteOne(subs, i) /\ suspended' = suspended
         \/ /\ body[r].op = "resume" /\ suspended' \in DeleteOne(suspended, i) /\ subs' = subs
  BY DEF DeleteRaw, At, Goto, console
<1>2. Kept(r) /\ body[r].op \in {"suspend", "resume"}
  BY <1>1 DEF Progress, Moving
<1>3. PICK d \in From(r) : /\ d.imsi = i /\ Up(d) /\ Stamped(r, d) \in Target(r)
                           /\ \A e \in From(r) : e.imsi = i => e = d
                           /\ \A e \in Target(r) : e.imsi = i => e = Stamped(r, d)
  BY <1>1 DEF Progress, Moving
<1> DEFINE e == Stamped(r, d)
<1>4. d \in Docs /\ Whole(d)
  BY DEF DocsInv, Docs, From
<1>5. /\ Like(d, e) /\ e.status = Stamp(r) /\ e.odb = d.odb /\ (e.rcl <=> d.rcl)
      /\ e.ambr = d.ambr /\ e.ip = d.ip /\ e.imsi = i /\ (body[r].op = "suspend" => e = d)
  BY <1>3, <1>4, StampsAre DEF Stamp, Up, Like
<1>15. e \in Target(r) /\ \A x \in Target(r) : x.imsi = i => x = e
  BY <1>3
<1> HIDE DEF e
<1>6. \/ body[r].op = "suspend" /\ subs' = subs \ {d} /\ suspended' = suspended
      \/ body[r].op = "resume" /\ suspended' = suspended \ {d} /\ subs' = subs
  <2>1. CASE body[r].op = "suspend"
    <3>1. Same0(subs, subs', i) \/ \E c \in subs : c.imsi = i /\ subs' = subs \ {c}
      BY <1>1, <2>1, DeletesAre
    <3> QED  BY <1>1, <1>3, <2>1, <3>1 DEF From, Same0
  <2>2. CASE body[r].op = "resume"
    <3>1. \/ Same0(suspended, suspended', i)
          \/ \E c \in suspended : c.imsi = i /\ suspended' = suspended \ {c}
      BY <1>1, <2>2, DeletesAre
    <3> QED  BY <1>1, <1>3, <2>2, <3>1 DEF From, Same0
  <2> QED  BY <1>2, <2>1, <2>2
<1>7. pc'[r] = AfterMove(r) /\ Turns(r) /\ i' = i
  BY <1>1 DEF ControlInv, Turns, Running, Answer, AfterMove, Imsi
<1>8. Frames(r)
  BY <1>3, <1>6, DeleteFrames
<1>9. e \in Docs' /\ (\A x \in Docs' : x.imsi = i => x = e)
      /\ (body[r].op = "suspend" => e \notin subs' /\ e \in suspended')
      /\ (body[r].op = "resume" => e \notin suspended' /\ e \in subs')
  <2>1. CASE body[r].op = "suspend"
    BY <1>3, <1>5, <1>6, <1>15, <2>1 DEF Docs, From, Target
  <2>2. CASE body[r].op = "resume"
    BY <1>3, <1>5, <1>6, <1>15, <2>2 DEF Docs, From, Target
  <2> QED  BY <1>2, <2>1, <2>2
<1>10. recs[i] = RecordOf(e, body[r].op = "suspend") /\ Known(i)
  BY <1>2, <1>3, <1>4, <1>5 DEF Kept, Made, Bars, RecordOf
<1>11. Known(i)' /\ Outcome(r)'
  BY <1>1, <1>7, <1>10 DEF Known, Outcome, Granted, AfterMove
<1>12. One(i)'
  BY <1>2, <1>7, <1>9 DEF One, Docs
<1>13. CASE body[r].op = "suspend"
  <2>1. pc'[r] = "audit"
    BY <1>7, <1>13 DEF AfterMove
  <2>2. Up(e)
    BY <1>3, <1>5, <1>13 
  <2>3. Settled(i)'
    <3>1. \A x \in subs' : x.imsi # i
      BY <1>9, <1>13 DEF Docs
    <3>2. \A x \in suspended' : x.imsi = i => x = e
      BY <1>9 DEF Docs
    <3>3. AtRest(i)'
      BY <1>7, <1>12, <2>2, <3>1, <3>2 DEF AtRest
    <3>4. recs'[i] = RecordOf(e, e \notin subs')
      BY <1>1, <1>9, <1>10, <1>13
    <3> QED  BY <1>5, <1>7, <1>9, <1>11, <3>3, <3>4 DEF Settled, RecordOf
  <2> QED  BY <1>1, <1>7, <1>8, <1>11, <1>13, <2>1, <2>3
           DEF Goes, Progress, Running, Answer, Changes
<1>14. CASE body[r].op = "resume"
  <2>1. pc'[r] = "clear"
    BY <1>7, <1>14 DEF AfterMove
  <2>2. e.status = 0
    BY <1>5, <1>14 DEF Stamp
  <2>3. Kept(r)'
    <3>1. \A x \in Docs' : x.imsi = i => recs'[i] = RecordOf(x, FALSE)
      BY <1>1, <1>9, <1>10, <1>14
    <3>2. \A x \in Docs' : Made(r, x)' = x /\ Bars(r, x)' = FALSE
      BY <1>1, <1>14 DEF Made, Bars
    <3>3. \E x \in Docs' : x.imsi = i
      BY <1>5, <1>9
    <3> QED  BY <1>7, <1>11, <3>1, <3>2, <3>3 DEF Kept
  <2>4. Moving(r)'
    BY <1>1, <1>7, <1>9, <1>12, <1>14, <2>1, <2>2, <2>3 DEF Moving, Docs
  <2> QED  BY <1>7, <1>8, <1>11, <2>1, <2>4 DEF Goes, Progress, Running, Answer
<1> QED  BY <1>2, <1>13, <1>14

\* UpdateOne that clears the flags after a resume.
LEMMA ClearGoes ==
  ASSUME DocsInv, ControlInv, NEW r \in Request, Progress(r), Outcome(r), ClearFlags(r),
         UNCHANGED console
  PROVE  Goes(r)
<1> DEFINE i == Imsi(r)
<1>1. /\ pc[r] = "clear" /\ pc' = [pc EXCEPT ![r] = "audit"]
      /\ suspended' = suspended /\ got' = got /\ body' = body /\ recs' = recs
      /\ Same0(subs, subs', i) \/ \E d : Swap(subs, subs', i, d, Cleared(d))
  BY UpdatesAre DEF ClearFlags, At, Goto, console
<1>2. /\ body[r].op = "resume" /\ Kept(r) /\ One(i)
      /\ \A d \in suspended : d.imsi # i
      /\ \A d \in subs : d.imsi = i => d.status = 0
  BY <1>1 DEF Progress, Moving
<1>3. i' = i /\ pc'[r] = "audit" /\ Turns(r)
  BY <1>1 DEF Imsi, ControlInv, Turns, Running, Answer
<1>4. Known(i)
  BY <1>1, <1>2 DEF Outcome, Granted
<1>5. PICK d : Swap(subs, subs', i, d, Cleared(d))
  BY <1>1, <1>2, <1>4 DEF Same0, Kept, Docs
<1> DEFINE e == Cleared(d)
<1>6. d \in subs /\ d.imsi = i /\ subs' = (subs \ {d}) \cup {e} /\ Whole(d)
  BY <1>5 DEF Swap, DocsInv, Docs
<1>7. Like(d, e) /\ e.imsi = i /\ Down(e) /\ e.ambr = d.ambr /\ e.ip = d.ip
  BY <1>2, <1>6, EditsAre DEF Like
<1>8. Frames(r)
  BY <1>1, <1>5, <1>7, SwapFrames
<1> HIDE DEF e
<1>9. e \in subs' /\ \A x \in Docs' : x.imsi = i => x = e /\ x \notin suspended'
  BY <1>1, <1>2, <1>6 DEF Docs, One
<1>10. recs[i] = RecordOf(e, FALSE)
  BY <1>2, <1>6, <1>7 DEF Kept, Made, Bars, RecordOf, Docs
<1>11. Settled(i)'
  BY <1>1, <1>3, <1>4, <1>7, <1>9, <1>10 DEF Settled, AtRest, One, Docs, Known
<1>12. Outcome(r)'
  BY <1>1, <1>3, <1>4 DEF Outcome, Granted, Known
<1> QED  BY <1>1, <1>2, <1>3, <1>8, <1>11, <1>12 DEF Goes, Progress, Running, Answer, Changes

\* A change of fields that leaves the status alone.
LEMMA SwapAtRest ==
  ASSUME DocsInv, NEW i, AtRest(i), NEW d, NEW e, Like(d, e),
         Up(e) <=> Up(d), Down(e) <=> Down(d),
         \/ Swap(subs, subs', i, d, e) /\ suspended' = suspended
         \/ Swap(suspended, suspended', i, d, e) /\ subs' = subs,
         NEW j, j = i, j' = i
  PROVE  /\ d \in Docs /\ e \in Docs' /\ d.imsi = i /\ e.imsi = i /\ Whole(d)
         /\ (e \notin subs') <=> (d \notin subs)
         /\ \A x \in Docs' : x.imsi = i => x = e
         /\ AtRest(j)'
<1>1. d \in Docs /\ d.imsi = i /\ e.imsi = i /\ Whole(d)
  BY DEF Swap, Docs, DocsInv, Like
<1>2. e \in Docs' /\ \A x \in Docs' : x.imsi = i => x = e
  BY <1>1 DEF Swap, Docs, AtRest, One
<1>3. CASE Swap(subs, subs', i, d, e) /\ suspended' = suspended
  <2>1. d \in subs /\ e \in subs' /\ Down(e)
    BY <1>3 DEF Swap, AtRest
  <2>2. \A x \in suspended' : x.imsi # i
    BY <1>1, <1>3, <2>1 DEF AtRest, One, Docs
  <2>3. AtRest(j)'
    BY <1>2, <2>1, <2>2 DEF AtRest, One, Docs
  <2> QED  BY <1>1, <1>2, <2>1, <2>3
<1>4. CASE Swap(suspended, suspended', i, d, e) /\ subs' = subs
  <2>1. d \in suspended /\ e \in suspended' /\ Up(e)
    BY <1>4 DEF Swap, AtRest
  <2>2. \A x \in subs : x.imsi # i
    BY <1>1, <1>4, <2>1 DEF AtRest, One, Docs
  <2>3. d \notin subs /\ e \notin subs'
    BY <1>1, <1>4, <2>2
  <2>4. AtRest(j)'
    BY <1>2, <1>4, <2>1, <2>2 DEF AtRest, One, Docs
  <2> QED  BY <1>1, <1>2, <2>3, <2>4
<1> QED  BY <1>3, <1>4

\* What looks at the collections and the records only.
LEMMA NothingMoves ==
  ASSUME NEW r, body' = body, recs' = recs, subs' = subs, suspended' = suspended
  PROVE  /\ Docs' = Docs /\ Imsi(r)' = Imsi(r)
         /\ Kept(r)' <=> Kept(r)
         /\ Settled(Imsi(r))' <=> Settled(Imsi(r))
         /\ AtRest(Imsi(r))' <=> AtRest(Imsi(r))
         /\ Known(Imsi(r))' <=> Known(Imsi(r))
<1>1. Imsi(r)' = Imsi(r) /\ Docs' = Docs
  BY DEF Imsi, Docs
<1>2. \A d : Made(r, d)' = Made(r, d) /\ Bars(r, d)' = Bars(r, d)
  BY Zenon DEF Made, Bars, Fields
<1>3. /\ Known(Imsi(r))' <=> Known(Imsi(r))
      /\ AtRest(Imsi(r))' <=> AtRest(Imsi(r))
  BY <1>1 DEF Known, AtRest, One
<1>4. Kept(r)' <=> Kept(r)
  BY <1>1, <1>2, <1>3 DEF Kept
<1>5. Settled(Imsi(r))' <=> Settled(Imsi(r))
  BY <1>1, <1>3 DEF Settled
<1> QED  BY <1>1, <1>3, <1>4, <1>5

\* UpdateOne of a plan or an address in the live collection.
LEMMA SetSubsGoes ==
  ASSUME DocsInv, ControlInv, NEW r \in Request, Progress(r), Outcome(r), SetSubs(r),
         UNCHANGED console
  PROVE  Goes(r)
<1> DEFINE i == Imsi(r)
<1>1. /\ pc[r] = "setSubs" /\ suspended' = suspended /\ got' = got /\ body' = body /\ recs' = recs
      /\ pc' = [pc EXCEPT ![r] = IF \E d \in subs : d.imsi = i THEN "audit" ELSE "setSuspended"]
      /\ Same0(subs, subs', i) \/ \E d : Swap(subs, subs', i, d, Fields(r, d))
  BY UpdatesAre DEF SetSubs, At, Goto, console, Holds, Matching
<1>2. body[r].op \in {"plan", "ip"} /\ Kept(r) /\ AtRest(i)
  BY <1>1 DEF Progress, Editing
<1>3. /\ pc'[r] = IF \E d \in subs : d.imsi = i THEN "audit" ELSE "setSuspended"
      /\ i' = i /\ Turns(r)
  BY <1>1 DEF Imsi, ControlInv, Turns, Running, Answer
<1>4. CASE Same0(subs, subs', i)
  <2>1. pc'[r] = "setSuspended" /\ subs' = subs /\ \A d \in subs : d.imsi # i
    BY <1>3, <1>4 DEF Same0
  <2>2. Frames(r) /\ AtRest(i)' /\ Kept(r)'
    BY <1>1, <1>2, <2>1, SameFrames, NothingMoves
  <2>3. Editing(r)' /\ Outcome(r)'
    BY <1>1, <1>2, <1>3, <2>1, <2>2 DEF Editing, Outcome
  <2> QED  BY <1>3, <2>1, <2>2, <2>3 DEF Goes, Progress, Running, Answer
<1>5. ASSUME NEW d, Swap(subs, subs', i, d, Fields(r, d)) PROVE Goes(r)
  <2> DEFINE e == Fields(r, d)
  <2>1. d \in subs /\ Whole(d) /\ d.imsi = i
    BY <1>5 DEF Swap, DocsInv, Docs
  <2>2. Like(d, e) /\ (Up(e) <=> Up(d)) /\ (Down(e) <=> Down(d)) /\ Made(r, d) = e
    BY <1>2, <2>1, FieldsAre DEF Made
  <2> HIDE DEF e
  <2>3. Swap(subs, subs', i, d, e)
    BY <1>5, <2>2 DEF e
  <2>4. Frames(r)
    BY <1>1, <2>2, <2>3, SwapFrames
  <2>5. /\ d \in Docs /\ e \in Docs' /\ e.imsi = i
        /\ (e \notin subs') <=> (d \notin subs)
        /\ \A x \in Docs' : x.imsi = i => x = e
        /\ AtRest(i)'
    BY <1>1, <1>2, <1>3, <2>2, <2>3, SwapAtRest
  <2>6. Known(i) /\ recs[i] = RecordOf(e, d \notin subs)
    BY <1>2, <2>1, <2>2, <2>5 DEF Kept, Bars
  <2>7. Settled(i)'
    BY <1>1, <1>3, <2>5, <2>6 DEF Settled, Known, RecordOf
  <2>8. pc'[r] = "audit"
    BY <1>3, <2>1
  <2>9. Outcome(r)'
    BY <1>1, <1>3, <2>6, <2>8 DEF Outcome, Granted, Known
  <2> QED  BY <1>1, <1>2, <1>3, <2>4, <2>7, <2>8, <2>9 DEF Goes, Progress, Running, Answer, Changes
<1> QED  BY <1>1, <1>4, <1>5

\* UpdateOne of the same in the suspended collection.
LEMMA SetSuspendedGoes ==
  ASSUME DocsInv, ControlInv, NEW r \in Request, Progress(r), Outcome(r), SetSuspended(r),
         UNCHANGED console
  PROVE  Goes(r)
<1> DEFINE i == Imsi(r)
<1>1. /\ pc[r] = "setSuspended" /\ subs' = subs /\ got' = got /\ body' = body /\ recs' = recs
      /\ pc' = [pc EXCEPT ![r] = IF \E d \in suspended : d.imsi = i THEN "audit" ELSE "notFound"]
      /\ Same0(suspended, suspended', i) \/ \E d : Swap(suspended, suspended', i, d, Fields(r, d))
  BY UpdatesAre DEF SetSuspended, At, Goto, console, Holds, Matching
<1>2. /\ body[r].op \in {"plan", "ip"} /\ Kept(r) /\ AtRest(i)
      /\ \A d \in subs : d.imsi # i
  BY <1>1 DEF Progress, Editing
<1>3. /\ pc'[r] = IF \E d \in suspended : d.imsi = i THEN "audit" ELSE "notFound"
      /\ i' = i /\ Turns(r)
  BY <1>1 DEF Imsi, ControlInv, Turns, Running, Answer
<1>4. CASE Same0(suspended, suspended', i)
  <2>1. pc'[r] = "notFound" /\ suspended' = suspended /\ \A d \in Docs : d.imsi # i
    BY <1>2, <1>3, <1>4 DEF Same0, Docs
  <2>2. Frames(r) /\ AtRest(i)' /\ ~Known(i) /\ Docs' = Docs
    BY <1>1, <1>2, <1>3, <2>1, SameFrames DEF AtRest, One, Docs, Kept
  <2>3. ~Known(i)' /\ Settled(i)'
    BY <1>1, <1>3, <2>1, <2>2 DEF Settled, Known
  <2>4. Outcome(r)'
    BY <1>1, <1>2, <1>3, <2>1, <2>3 DEF Outcome, Reads
  <2> QED  BY <1>3, <2>1, <2>2, <2>3, <2>4 DEF Goes, Running, Answer
<1>5. ASSUME NEW d, Swap(suspended, suspended', i, d, Fields(r, d)) PROVE Goes(r)
  <2> DEFINE e == Fields(r, d)
  <2>1. d \in suspended /\ Whole(d) /\ d.imsi = i
    BY <1>5 DEF Swap, DocsInv, Docs
  <2>2. Like(d, e) /\ (Up(e) <=> Up(d)) /\ (Down(e) <=> Down(d)) /\ Made(r, d) = e
    BY <1>2, <2>1, FieldsAre DEF Made
  <2> HIDE DEF e
  <2>3. Swap(suspended, suspended', i, d, e)
    BY <1>5, <2>2 DEF e
  <2>4. Frames(r)
    BY <1>1, <2>2, <2>3, SwapFrames
  <2>5. /\ d \in Docs /\ e \in Docs' /\ e.imsi = i
        /\ (e \notin subs') <=> (d \notin subs)
        /\ \A x \in Docs' : x.imsi = i => x = e
        /\ AtRest(i)'
    BY <1>1, <1>2, <1>3, <2>2, <2>3, SwapAtRest
  <2>6. Known(i) /\ recs[i] = RecordOf(e, d \notin subs)
    BY <1>2, <2>1, <2>2, <2>5 DEF Kept, Bars
  <2>7. Settled(i)'
    BY <1>1, <1>3, <2>5, <2>6 DEF Settled, Known, RecordOf
  <2>8. pc'[r] = "audit"
    BY <1>3, <2>1
  <2>9. Outcome(r)'
    BY <1>1, <1>3, <2>6, <2>8 DEF Outcome, Granted, Known
  <2> QED  BY <1>1, <1>2, <1>3, <2>4, <2>7, <2>8, <2>9 DEF Goes, Progress, Running, Answer, Changes
<1> QED  BY <1>1, <1>4, <1>5

\* UpdateOne that drops the address in the live collection.
LEMMA UnsetSubsGoes ==
  ASSUME DocsInv, ControlInv, NEW r \in Request, Progress(r), Outcome(r), UnsetSubs(r),
         UNCHANGED console
  PROVE  Goes(r)
<1> DEFINE i == Imsi(r)
<1>1. /\ pc[r] = "unsetSubs" /\ suspended' = suspended /\ got' = got /\ body' = body /\ recs' = recs
      /\ pc' = [pc EXCEPT ![r] = "unsetSuspended"]
      /\ Same0(subs, subs', i) \/ \E d : Swap(subs, subs', i, d, WithoutIp(d))
  BY UpdatesAre DEF UnsetSubs, At, Goto, console
<1>2. body[r].op = "ip" /\ body[r].ip = NoIp /\ Kept(r) /\ AtRest(i)
  BY <1>1 DEF Progress, Editing
<1>3. pc'[r] = "unsetSuspended" /\ i' = i /\ Turns(r)
  BY <1>1 DEF Imsi, ControlInv, Turns, Running, Answer
<1>4. Outcome(r)'
  BY <1>3 DEF Outcome
<1>5. Frames(r) /\ AtRest(i)' /\ Kept(r)' /\ \A d \in subs' : d.imsi = i => d.ip = NoIp
  <2>1. CASE Same0(subs, subs', i)
    BY <1>1, <1>2, <2>1, SameFrames, NothingMoves DEF Same0
  <2>2. ASSUME NEW d, Swap(subs, subs', i, d, WithoutIp(d))
        PROVE  Frames(r) /\ AtRest(i)' /\ Kept(r)' /\ \A x \in subs' : x.imsi = i => x.ip = NoIp
    <3> DEFINE e == WithoutIp(d)
    <3>1. d \in subs /\ Whole(d) /\ d.imsi = i
      BY <2>2 DEF Swap, DocsInv, Docs
    <3>2. /\ Like(d, e) /\ (Up(e) <=> Up(d)) /\ (Down(e) <=> Down(d))
          /\ e.ip = NoIp /\ e.ambr = d.ambr
      BY <3>1, EditsAre
    <3> HIDE DEF e
    <3>3. Swap(subs, subs', i, d, e)
      BY <2>2 DEF e
    <3>4. Frames(r)
      BY <1>1, <3>2, <3>3, SwapFrames
    <3>5. /\ d \in Docs /\ e \in Docs' /\ e.imsi = i
          /\ (e \notin subs') <=> (d \notin subs)
          /\ \A x \in Docs' : x.imsi = i => x = e
          /\ AtRest(i)'
      BY <1>1, <1>2, <1>3, <3>2, <3>3, SwapAtRest
    <3>6. Known(i) /\ recs[i] = RecordOf(Fields(r, d), d \notin subs)
      BY <1>2, <3>1, <3>5 DEF Kept, Bars, Made
    <3>7. Whole(e)
      BY <3>2 DEF Like
    <3>8. /\ Fields(r, d).ambr = d.ambr /\ Fields(r, d).ip = NoIp
          /\ Fields(r, e).ambr = e.ambr /\ Fields(r, e).ip = NoIp
      BY <1>2, <3>1, <3>7, FieldsAre
    <3>9. recs[i] = RecordOf(Fields(r, e), e \notin subs')
      BY <3>2, <3>5, <3>6, <3>8 DEF RecordOf
    <3>10. Fields(r, e)' = Fields(r, e)
      BY <1>1, Zenon DEF Fields, e
    <3>11. Made(r, e)' = Fields(r, e) /\ Bars(r, e)' = (e \notin subs')
      BY <1>1, <1>2, <3>10 DEF Made, Bars
    <3>12. Kept(r)'
      <4>1. Known(i)' /\ i' = i
        BY <1>1, <1>3, <3>6 DEF Known
      <4>2. \A x \in Docs' : x.imsi = i => recs'[i] = RecordOf(x, x \notin subs') \/ x = e
        BY <3>5
      <4>3. recs'[i] = RecordOf(Made(r, e)', Bars(r, e)')
        BY <1>1, <3>9, <3>11
      <4>4. \A x \in Docs' : x.imsi = i => recs'[i] = RecordOf(Made(r, x)', Bars(r, x)')
        BY <3>5, <4>3
      <4>5. \E x \in Docs' : x.imsi = i
        BY <3>5
      <4> QED  BY <4>1, <4>4, <4>5 DEF Kept, RecordOf
    <3>13. \A x \in subs' : x.imsi = i => x.ip = NoIp
      BY <3>2, <3>5 DEF Docs
    <3> QED  BY <3>4, <3>5, <3>12, <3>13
  <2> QED  BY <1>1, <2>1, <2>2
<1>6. Editing(r)'
  BY <1>1, <1>2, <1>3, <1>5 DEF Editing
<1> QED  BY <1>3, <1>4, <1>5, <1>6 DEF Goes, Progress, Running, Answer

\* UpdateOne that drops it in the suspended collection.
LEMMA UnsetSuspendedGoes ==
  ASSUME DocsInv, ControlInv, NEW r \in Request, Progress(r), Outcome(r), UnsetSuspended(r),
         UNCHANGED console
  PROVE  Goes(r)
<1> DEFINE i == Imsi(r)
<1>1. /\ pc[r] = "unsetSuspended" /\ subs' = subs /\ got' = got /\ body' = body /\ recs' = recs
      /\ pc' = [pc EXCEPT ![r] = "audit"]
      /\ Same0(suspended, suspended', i) \/ \E d : Swap(suspended, suspended', i, d, WithoutIp(d))
  BY UpdatesAre DEF UnsetSuspended, At, Goto, console
<1>2. /\ body[r].op = "ip" /\ body[r].ip = NoIp /\ Kept(r) /\ AtRest(i)
      /\ \A d \in subs : d.imsi = i => d.ip = NoIp
  BY <1>1 DEF Progress, Editing
<1>3. pc'[r] = "audit" /\ i' = i /\ Turns(r)
  BY <1>1 DEF Imsi, ControlInv, Turns, Running, Answer
<1>4. Outcome(r)'
  BY <1>1, <1>2, <1>3 DEF Outcome, Granted
<1>5. \A d \in Docs : d.imsi = i =>
        /\ Known(i) /\ recs[i] = RecordOf(Fields(r, d), d \notin subs)
        /\ Fields(r, d).ambr = d.ambr /\ Fields(r, d).ip = NoIp
  BY <1>2, FieldsAre DEF Kept, Bars, Made, DocsInv
<1>6. Frames(r) /\ Settled(i)'
  <2>1. CASE Same0(suspended, suspended', i)
    <3>1. \A d \in Docs : d.imsi = i => d.ip = NoIp
      BY <1>2, <2>1 DEF Docs, Same0
    <3>2. \A d \in Docs : d.imsi = i => recs[i] = RecordOf(d, d \notin subs)
      BY <1>5, <3>1 DEF RecordOf
    <3>3. Known(i) <=> \E d \in Docs : d.imsi = i
      BY <1>2 DEF Kept
    <3>4. Settled(i)
      BY <1>2, <3>2, <3>3 DEF Settled
    <3> QED  BY <1>1, <2>1, <3>4, SameFrames, NothingMoves DEF Same0
  <2>2. ASSUME NEW d, Swap(suspended, suspended', i, d, WithoutIp(d))
        PROVE  Frames(r) /\ Settled(i)'
    <3> DEFINE e == WithoutIp(d)
    <3>1. d \in suspended /\ Whole(d) /\ d.imsi = i
      BY <2>2 DEF Swap, DocsInv, Docs
    <3>2. /\ Like(d, e) /\ (Up(e) <=> Up(d)) /\ (Down(e) <=> Down(d))
          /\ e.ip = NoIp /\ e.ambr = d.ambr
      BY <3>1, EditsAre
    <3> HIDE DEF e
    <3>3. Swap(suspended, suspended', i, d, e)
      BY <2>2 DEF e
    <3>4. Frames(r)
      BY <1>1, <3>2, <3>3, SwapFrames
    <3>5. /\ d \in Docs /\ e \in Docs' /\ e.imsi = i
          /\ (e \notin subs') <=> (d \notin subs)
          /\ \A x \in Docs' : x.imsi = i => x = e
          /\ AtRest(i)'
      BY <1>1, <1>2, <1>3, <3>2, <3>3, SwapAtRest
    <3>6. Known(i) /\ recs[i] = RecordOf(e, e \notin subs')
      BY <1>5, <3>1, <3>2, <3>5 DEF RecordOf
    <3>7. Settled(i)'
      BY <1>1, <1>3, <3>5, <3>6 DEF Settled, Known, RecordOf
    <3> QED  BY <3>4, <3>7
  <2> QED  BY <1>1, <2>1, <2>2
<1> QED  BY <1>1, <1>2, <1>3, <1>4, <1>6 DEF Goes, Progress, Running, Answer, Changes

\* DeleteOne of the live document.
LEMMA PurgeSubsGoes ==
  ASSUME DocsInv, ControlInv, NEW r \in Request, Progress(r), Outcome(r), PurgeSubs(r),
         UNCHANGED console
  PROVE  Goes(r)
<1> DEFINE i == Imsi(r)
<1>1. /\ pc[r] = "purgeSubs" /\ suspended' = suspended /\ got' = got /\ body' = body /\ recs' = recs
      /\ pc' = [pc EXCEPT ![r] = "purgeSuspended"]
      /\ Same0(subs, subs', i) \/ \E d \in subs : d.imsi = i /\ subs' = subs \ {d}
  BY DeletesAre DEF PurgeSubs, At, Goto, console
<1>2. Replacing(r)
  BY <1>1 DEF Progress
<1>3. pc'[r] = "purgeSuspended" /\ i' = i /\ Turns(r)
  BY <1>1 DEF Imsi, ControlInv, Turns, Running, Answer
<1>4. AtRest(i)' /\ \A d \in subs' : d.imsi # i
  BY <1>1, <1>2, <1>3 DEF Replacing, AtRest, One, Docs, Same0
<1>5. Frames(r)
  BY <1>1, SameFrames, DeleteFrames DEF Same0
<1>6. Replacing(r)' /\ Outcome(r)'
  BY <1>1, <1>2, <1>3, <1>4 DEF Replacing, Outcome, Known
<1> QED  BY <1>3, <1>5, <1>6 DEF Goes, Progress, Running, Answer

\* The same of the suspended document.
LEMMA PurgeSuspendedGoes ==
  ASSUME DocsInv, ControlInv, NEW r \in Request, Progress(r), Outcome(r), PurgeSuspended(r),
         UNCHANGED console
  PROVE  Goes(r)
<1> DEFINE i == Imsi(r)
<1>1. /\ pc[r] = "purgeSuspended" /\ subs' = subs /\ got' = got /\ body' = body /\ recs' = recs
      /\ pc' = [pc EXCEPT ![r] = IF body[r].op = "add" THEN "insertNew" ELSE "audit"]
      /\ \/ Same0(suspended, suspended', i)
         \/ \E d \in suspended : d.imsi = i /\ suspended' = suspended \ {d}
  BY DeletesAre DEF PurgeSuspended, At, Goto, console
<1>2. Replacing(r) /\ \A d \in subs : d.imsi # i
  BY <1>1 DEF Progress, Replacing
<1>3. pc'[r] = (IF body[r].op = "add" THEN "insertNew" ELSE "audit") /\ i' = i /\ Turns(r)
  BY <1>1 DEF Imsi, ControlInv, Turns, Running, Answer
<1>4. AtRest(i)' /\ \A d \in Docs' : d.imsi # i
  BY <1>1, <1>2, <1>3 DEF Replacing, AtRest, One, Docs, Same0
<1>5. Frames(r)
  BY <1>1, SameFrames, DeleteFrames DEF Same0
<1>6. CASE body[r].op = "add"
  <2>1. Replacing(r)' /\ Outcome(r)'
    BY <1>1, <1>2, <1>3, <1>4, <1>6 DEF Replacing, Outcome, Known, Docs
  <2> QED  BY <1>3, <1>5, <1>6, <2>1 DEF Goes, Progress, Running, Answer
<1>7. CASE body[r].op = "remove"
  <2>1. ~Known(i)'
    BY <1>1, <1>2, <1>3, <1>7 DEF Replacing, Known
  <2>2. Settled(i)'
    BY <1>3, <1>4, <2>1 DEF Settled
  <2>3. Outcome(r)'
    BY <1>1, <1>3, <1>7 DEF Outcome, Granted
  <2> QED  BY <1>1, <1>3, <1>5, <1>7, <2>2, <2>3 DEF Goes, Progress, Running, Answer, Changes
<1> QED  BY <1>2, <1>6, <1>7 DEF Replacing

\* InsertOne of a new subscriber.
LEMMA InsertNewGoes ==
  ASSUME DocsInv, ControlInv, NEW r \in Request, Progress(r), Outcome(r), InsertNew(r),
         UNCHANGED console
  PROVE  Goes(r)
<1> DEFINE i == Imsi(r)
           e == NewDoc(r, i)
<1>1. /\ pc[r] = "insertNew" /\ suspended' = suspended /\ got' = got /\ body' = body /\ recs' = recs
      /\ pc' = [pc EXCEPT ![r] = "audit"] /\ subs' = subs \cup {e}
  BY DEF InsertNew, At, Goto, console
<1>2. /\ body[r].op = "add" /\ AtRest(i) /\ \A d \in Docs : d.imsi # i
      /\ Known(i) /\ recs[i] = [barred |-> FALSE, ambr |-> DefaultAmbr, ip |-> NoIp]
  BY <1>1 DEF Progress, Replacing, Docs
<1>3. pc'[r] = "audit" /\ i' = i /\ Turns(r)
  BY <1>1 DEF Imsi, ControlInv, Turns, Running, Answer
<1>4. /\ Whole(e) /\ e.id = r /\ e.imsi = i /\ Down(e) /\ e.ambr = DefaultAmbr /\ e.ip = NoIp
  BY NewIs
<1> HIDE DEF e
<1>5. Frames(r)
  BY <1>1, <1>4, InsertFrames
<1>6. e \in subs' /\ (\A x \in Docs' : x.imsi = i => x = e) /\ \A x \in suspended' : x.imsi # i
  BY <1>1, <1>2 DEF Docs
<1>7. AtRest(i)'
  BY <1>3, <1>4, <1>6 DEF AtRest, One, Docs
<1>8. Known(i)' /\ recs'[i] = RecordOf(e, e \notin subs')
  BY <1>1, <1>2, <1>3, <1>4, <1>6 DEF Known, RecordOf
<1>9. e \in Docs'
  BY <1>6 DEF Docs
<1>10. Settled(i)'
  BY <1>3, <1>4, <1>6, <1>7, <1>8, <1>9 DEF Settled, RecordOf
<1>11. Outcome(r)'
  BY <1>1, <1>2, <1>3 DEF Outcome, Granted
<1> QED  BY <1>1, <1>2, <1>3, <1>5, <1>10, <1>11 DEF Goes, Progress, Running, Answer, Changes

\* InsertOne in the audit.
LEMMA AuditGoes ==
  ASSUME DocsInv, ControlInv, NEW r \in Request, Progress(r), Outcome(r), AppendAudit(r),
         UNCHANGED console
  PROVE  Goes(r)
<1> DEFINE i == Imsi(r)
<1>1. /\ pc[r] = "audit" /\ subs' = subs /\ suspended' = suspended /\ got' = got
      /\ body' = body /\ recs' = recs /\ pc' = [pc EXCEPT ![r] = "mirrorSubs"]
  BY DEF AppendAudit, At, Goto, console, collections
<1>2. body[r].op \in Changes /\ Settled(i)
  BY <1>1 DEF Progress
<1>3. pc'[r] = "mirrorSubs" /\ i' = i /\ Turns(r)
  BY <1>1 DEF Imsi, ControlInv, Turns, Running, Answer
<1>4. Frames(r) /\ Settled(i)'
  BY <1>1, <1>2, SameFrames, NothingMoves
<1>5. Outcome(r)'
  BY <1>1, <1>3 DEF Outcome, Granted, Known
<1> QED  BY <1>1, <1>2, <1>3, <1>4, <1>5 DEF Goes, Progress, Running, Answer

\* The notes of the last action.
LEMMA MirrorGoes ==
  ASSUME DocsInv, ControlInv, NEW r \in Request, Progress(r), Outcome(r),
         MirrorSubs(r) \/ MirrorSuspended(r), UNCHANGED console
  PROVE  Goes(r)
<1> DEFINE i == Imsi(r)
<1>1. /\ got' = got /\ body' = body /\ recs' = recs
      /\ \/ pc[r] = "mirrorSubs" /\ pc' = [pc EXCEPT ![r] = "mirrorSuspended"]
         \/ pc[r] = "mirrorSuspended" /\ pc' = [pc EXCEPT ![r] = "ok"]
  BY DEF MirrorSubs, MirrorSuspended, At, Goto, console
<1>2. \/ subs' = subs /\ suspended' = suspended
      \/ \E d : \/ Swap(subs, subs', i, d, Mirrored(r, d)) /\ suspended' = suspended
                \/ Swap(suspended, suspended', i, d, Mirrored(r, d)) /\ subs' = subs
  <2>1. CASE MirrorSubs(r)
    BY <2>1, UpdatesAre DEF MirrorSubs, Same0
  <2>2. CASE MirrorSuspended(r)
    BY <2>2, UpdatesAre DEF MirrorSuspended, Same0
  <2> QED  BY <2>1, <2>2
<1>3. body[r].op \in Changes /\ Settled(i)
  BY <1>1 DEF Progress
<1>4. (pc'[r] = "mirrorSuspended" \/ pc'[r] = "ok") /\ i' = i /\ Turns(r)
  BY <1>1 DEF Imsi, ControlInv, Turns, Running, Answer
<1>5. Frames(r) /\ Settled(i)'
  <2>1. CASE subs' = subs /\ suspended' = suspended
    BY <1>1, <1>3, <2>1, SameFrames, NothingMoves
  <2>2. ASSUME NEW d, \/ Swap(subs, subs', i, d, Mirrored(r, d)) /\ suspended' = suspended
                      \/ Swap(suspended, suspended', i, d, Mirrored(r, d)) /\ subs' = subs
        PROVE  Frames(r) /\ Settled(i)'
    <3> DEFINE e == Mirrored(r, d)
    <3>1. Whole(d)
      BY <2>2 DEF Swap, DocsInv, Docs
    <3>2. /\ Like(d, e) /\ (Up(e) <=> Up(d)) /\ (Down(e) <=> Down(d))
          /\ e.ip = d.ip /\ e.ambr = d.ambr
      BY <3>1, MirrorsAre
    <3>3. \/ Swap(subs, subs', i, d, e) /\ suspended' = suspended
          \/ Swap(suspended, suspended', i, d, e) /\ subs' = subs
      BY <2>2
    <3> HIDE DEF e
    <3>4. Frames(r)
      BY <3>2, <3>3, SwapFrames
    <3>5. /\ d \in Docs /\ e \in Docs' /\ d.imsi = i /\ e.imsi = i
          /\ (e \notin subs') <=> (d \notin subs)
          /\ \A x \in Docs' : x.imsi = i => x = e
          /\ AtRest(i)'
      BY <1>3, <1>4, <3>2, <3>3, SwapAtRest DEF Settled
    <3>6. Known(i) /\ recs[i] = RecordOf(e, e \notin subs')
      BY <1>3, <3>2, <3>5 DEF Settled, RecordOf
    <3>7. Settled(i)'
      BY <1>1, <1>4, <3>5, <3>6 DEF Settled, Known, RecordOf
    <3> QED  BY <3>4, <3>7
  <2> QED  BY <1>2, <2>1, <2>2
<1>6. Outcome(r)'
  <2>1. body[r].op \notin Reads
    BY <1>3 DEF Reads, Changes
  <2> QED  BY <1>1, <1>4, <2>1 DEF Outcome, Granted, Known
<1> QED  BY <1>1, <1>3, <1>4, <1>5, <1>6 DEF Goes, Progress, Running, Answer

\* The records of a set of documents, one of each subscriber.
LEMMA RecordsAre ==
  ASSUME NEW docs, \A d, e \in docs : d.imsi = e.imsi => d = e,
         NEW f, f = [i \in DOMAIN f |-> f[i]],
         \A i : i \in DOMAIN f <=> \E d \in docs : d.imsi = i,
         \A d \in docs : f[d.imsi] = RecordOf(d, d \notin subs)
  PROVE  RecordsOf(docs) = f
<1>1. DOMAIN f = Imsis(docs)
  BY DEF Imsis
<1>2. ASSUME NEW i \in Imsis(docs)
      PROVE  f[i] = LET d == CHOOSE d \in docs : d.imsi = i IN RecordOf(d, d \notin subs)
  <2> DEFINE d == CHOOSE d \in docs : d.imsi = i
  <2>1. d \in docs /\ d.imsi = i
    BY <1>2 DEF Imsis
  <2> QED  BY <2>1
<1> QED  BY <1>1, <1>2 DEF RecordsOf

\* Find, or FindOne, in the live collection.
LEMMA ReadSubsGoes ==
  ASSUME DocsInv, ControlInv, NEW r \in Request, Progress(r), Outcome(r), ReadSubs(r),
         UNCHANGED console
  PROVE  Goes(r)
<1> DEFINE i == Imsi(r)
<1>1. /\ pc[r] = "readSubs" /\ subs' = subs /\ suspended' = suspended
      /\ body' = body /\ recs' = recs
      /\ \E docs \in Found(r, subs) : got' = [got EXCEPT ![r] = docs]
      /\ pc' = [pc EXCEPT ![r] = IF body[r].op = "get" /\ Holds(subs, i)
                                   THEN "ok" ELSE "readSuspended"]
  BY DEF ReadSubs, At, Goto, console, collections
<1>2. body[r].op \in {"get", "list"} /\ Settled(i)
  BY <1>1 DEF Progress, Reading, Reads
<1>3. /\ pc'[r] = (IF body[r].op = "get" /\ Holds(subs, i) THEN "ok" ELSE "readSuspended")
      /\ got'[r] \in Found(r, subs) /\ i' = i /\ Turns(r)
  BY <1>1 DEF Imsi, ControlInv, Turns, Running, Answer
<1>4. Frames(r) /\ Settled(i)'
  BY <1>1, <1>2, SameFrames, NothingMoves
<1>5. CASE body[r].op = "list"
  <2>1. got'[r] = subs' /\ pc'[r] = "readSuspended"
    BY <1>1, <1>3, <1>5 DEF Found
  <2>2. Reading(r)' /\ Outcome(r)'
    BY <1>1, <1>2, <1>3, <1>4, <1>5, <2>1 DEF Reading, Outcome, Reads
  <2> QED  BY <1>3, <1>4, <2>1, <2>2 DEF Goes, Progress, Running, Answer
<1>6. CASE body[r].op = "get" /\ Holds(subs, i)
  <2>1. pc'[r] = "ok"
    BY <1>3, <1>6
  <2>2. PICK d \in subs : d.imsi = i /\ got'[r] = {d}
    BY <1>3, <1>6 DEF Found, Matching
  <2>3. Known(i) /\ recs[i] = RecordOf(d, d \notin subs)
    BY <1>2, <2>2 DEF Settled, Docs
  <2> DEFINE f == InMemory!Get(recs, i)
  <2>4. DOMAIN f = {i} /\ f[i] = recs[i] /\ f = [x \in DOMAIN f |-> f[x]]
    <3>1. DOMAIN recs \cap {i} = {i}
      BY <2>3 DEF Known
    <3>2. f = [x \in {i} |-> recs[x]]
      BY <3>1, Zenon DEF InMemory!Get, InMemory!Restrict
    <3> HIDE DEF f
    <3> QED  BY <3>2
  <2> HIDE DEF f
  <2>5. RecordsOf(got'[r]) = f
    BY <2>2, <2>3, <2>4, RecordsAre
  <2>6. RecordsOf(got[r])' = ApplyRows(body[r])'
    BY <1>1, <1>3, <1>6, <2>5 DEF f, ApplyRows, RecordsOf, Imsis, RecordOf, Imsi
  <2>7. Outcome(r)'
    BY <1>1, <1>2, <1>3, <1>6, <2>1, <2>3, <2>6 DEF Outcome, Known, Changes
  <2> QED  BY <1>3, <1>4, <2>1, <2>7 DEF Goes, Running, Answer
<1>7. CASE body[r].op = "get" /\ ~Holds(subs, i)
  <2>1. got'[r] = {} /\ pc'[r] = "readSuspended" /\ \A d \in subs : d.imsi # i
    BY <1>3, <1>7 DEF Found, Holds, Matching
  <2>2. Reading(r)' /\ Outcome(r)'
    BY <1>1, <1>2, <1>3, <1>4, <1>7, <2>1 DEF Reading, Outcome, Reads
  <2> QED  BY <1>3, <1>4, <2>1, <2>2 DEF Goes, Progress, Running, Answer
<1> QED  BY <1>2, <1>5, <1>6, <1>7

\* The same in the suspended collection, and the answer.
LEMMA ReadSuspendedGoes ==
  ASSUME DocsInv, ControlInv, NEW r \in Request, Progress(r), Outcome(r), ReadSuspended(r),
         UNCHANGED console, body[r].op = "list" => \A j : Settled(j)
  PROVE  Goes(r)
<1> DEFINE i == Imsi(r)
<1>1. /\ pc[r] = "readSuspended" /\ subs' = subs /\ suspended' = suspended
      /\ body' = body /\ recs' = recs
      /\ \E docs \in Found(r, suspended) : got' = [got EXCEPT ![r] = got[r] \cup docs]
      /\ pc' = [pc EXCEPT ![r] = IF body[r].op = "get" /\ ~Holds(suspended, i)
                                   THEN "notFound" ELSE "ok"]
  BY DEF ReadSuspended, At, Goto, console, collections
<1>2. /\ body[r].op \in {"get", "list"} /\ Settled(i)
      /\ body[r].op = "list" => got[r] = subs
      /\ body[r].op = "get" => got[r] = {} /\ \A d \in subs : d.imsi # i
  BY <1>1 DEF Progress, Reading, Reads
<1>3. /\ pc'[r] = (IF body[r].op = "get" /\ ~Holds(suspended, i) THEN "notFound" ELSE "ok")
      /\ \E docs \in Found(r, suspended) : got'[r] = got[r] \cup docs
      /\ i' = i /\ Turns(r)
  BY <1>1 DEF Imsi, ControlInv, Turns, Running, Answer
<1>4. Frames(r) /\ Settled(i)'
  BY <1>1, <1>2, SameFrames, NothingMoves
<1>5. CASE body[r].op = "list"
  <2>1. got'[r] = Docs /\ pc'[r] = "ok"
    BY <1>1, <1>2, <1>3, <1>5 DEF Found, Docs
  <2>2. RecordsOf(Docs) = recs
    <3>1. \A d, e \in Docs : d.imsi = e.imsi => d = e
      BY <1>5 DEF Settled, AtRest, One
    <3>2. \A j : j \in DOMAIN recs <=> \E d \in Docs : d.imsi = j
      BY <1>5 DEF Settled, Known
    <3>3. \A d \in Docs : recs[d.imsi] = RecordOf(d, d \notin subs)
      BY <1>5 DEF Settled
    <3> QED  BY <3>1, <3>2, <3>3, RecordsAre DEF ControlInv
  <2>3. RecordsOf(got[r])' = ApplyRows(body[r])'
    BY <1>1, <1>5, <2>1, <2>2 DEF ApplyRows, RecordsOf, Imsis, RecordOf, InMemory!List
  <2>4. Outcome(r)'
    BY <1>1, <1>2, <1>3, <1>5, <2>1, <2>3 DEF Outcome, Changes
  <2> QED  BY <1>3, <1>4, <2>1, <2>4 DEF Goes, Running, Answer
<1>6. CASE body[r].op = "get" /\ Holds(suspended, i)
  <2>1. pc'[r] = "ok"
    BY <1>3, <1>6
  <2>2. PICK d \in suspended : d.imsi = i /\ got'[r] = {d}
    BY <1>2, <1>3, <1>6 DEF Found, Matching
  <2>3. Known(i) /\ recs[i] = RecordOf(d, d \notin subs)
    BY <1>2, <2>2 DEF Settled, Docs
  <2> DEFINE f == InMemory!Get(recs, i)
  <2>4. DOMAIN f = {i} /\ f[i] = recs[i] /\ f = [x \in DOMAIN f |-> f[x]]
    <3>1. DOMAIN recs \cap {i} = {i}
      BY <2>3 DEF Known
    <3>2. f = [x \in {i} |-> recs[x]]
      BY <3>1, Zenon DEF InMemory!Get, InMemory!Restrict
    <3> HIDE DEF f
    <3> QED  BY <3>2
  <2> HIDE DEF f
  <2>5. RecordsOf(got'[r]) = f
    BY <2>2, <2>3, <2>4, RecordsAre
  <2>6. RecordsOf(got[r])' = ApplyRows(body[r])'
    BY <1>1, <1>3, <1>6, <2>5 DEF f, ApplyRows, RecordsOf, Imsis, RecordOf, Imsi
  <2>7. Outcome(r)'
    BY <1>1, <1>2, <1>3, <1>6, <2>1, <2>3, <2>6 DEF Outcome, Known, Changes
  <2> QED  BY <1>3, <1>4, <2>1, <2>7 DEF Goes, Running, Answer
<1>7. CASE body[r].op = "get" /\ ~Holds(suspended, i)
  <2>1. got'[r] = {} /\ pc'[r] = "notFound" /\ \A d \in Docs : d.imsi # i
    BY <1>2, <1>3, <1>7 DEF Found, Holds, Matching, Docs
  <2>2. ~Known(i)'
    BY <1>1, <1>2, <1>3, <2>1 DEF Settled, Known
  <2>3. Outcome(r)'
    BY <1>1, <1>2, <1>3, <1>7, <2>1, <2>2 DEF Outcome
  <2> QED  BY <1>3, <1>4, <2>1, <2>3 DEF Goes, Running, Answer
<1> QED  BY <1>2, <1>5, <1>6, <1>7

-----------------------------------------------------------------------------
(* The invariant: what holds between commands, and how far the one that runs is.   *)

SaidInv ==
  /\ \A r \in Request : Running(r) => said.by = {r} /\ Progress(r)
  /\ \A r \in said.by : /\ r \in Request /\ pc[r] # "idle"
                        /\ said.answer = ApplyAnswer(body[r])
                        /\ said.rows = ApplyRows(body[r])
                        /\ Outcome(r)
  /\ \A r \in Request : pc[r] = "idle" => body[r].op = "list"

RestInv == \A j : (\A r \in Request : Running(r) => Imsi(r) # j) => Settled(j)

\* The address of this subscriber has been cleared.
Unset(j) == \E r \in Request : body[r].op = "ip" /\ body[r].ip = NoIp /\ Imsi(r) = j

\* The in-memory store has its entry already, the Mongo store not yet.
Waits(r) ==
  /\ Running(r) /\ pc[r] \notin {"mirrorSubs", "mirrorSuspended"}
  /\ body[r].op \in Changes /\ said.answer = "ok"

HistoryInv ==
  /\ Sequence(audit) /\ Sequence(log)
  /\ \A j : \/ Unset(j)
            \/ /\ \A r \in Request : Waits(r) => Imsi(r) # j
               /\ InMemory!History(audit, j) = InMemory!History(log, j)
            \/ \E r \in Request :
                 /\ Waits(r) /\ Imsi(r) = j
                 /\ InMemory!History(log, j) =
                      Append(InMemory!History(audit, j), [imsi |-> j, op |-> body[r].op])

ConsoleInv == ControlInv /\ DocsInv /\ SaidInv /\ RestInv /\ HistoryInv

\* Every step of a command goes as it should.
LEMMA ServingGoes ==
  ASSUME ControlInv, DocsInv, SaidInv, RestInv, NEW r \in Request, Serving(r), UNCHANGED console
  PROVE  Running(r) /\ Goes(r)
<1>1. Running(r)
  BY DEF Serving, MoveStep, FieldStep, ReplaceStep, ReadStep, Flag, FindRaw, CountTarget, InsertRaw,
         DeleteRaw, ClearFlags, SetSubs, SetSuspended, UnsetSubs, UnsetSuspended, PurgeSubs,
         PurgeSuspended, InsertNew, ReadSubs, ReadSuspended, AppendAudit, MirrorSubs,
         MirrorSuspended, At, Running, Answer
<1>2. said.by = {r} /\ Progress(r) /\ Outcome(r)
  BY <1>1 DEF SaidInv
<1>3. CASE MoveStep(r)
  BY <1>2, <1>3, FlagGoes, FindGoes, CountGoes, InsertGoes, DeleteGoes, ClearGoes, <1>1 DEF MoveStep
<1>4. CASE FieldStep(r)
  BY <1>1, <1>2, <1>4, SetSubsGoes, SetSuspendedGoes, UnsetSubsGoes, UnsetSuspendedGoes
     DEF FieldStep
<1>5. CASE ReplaceStep(r)
  BY <1>1, <1>2, <1>5, PurgeSubsGoes, PurgeSuspendedGoes, InsertNewGoes DEF ReplaceStep
<1>6. CASE ReadSubs(r)
  BY <1>1, <1>2, <1>6, ReadSubsGoes
<1>7. CASE ReadSuspended(r)
  <2>1. body[r].op = "list" => \A j : Settled(j)
    <3>1. Settled(Imsi(r))
      BY <1>2, <1>7 DEF Progress, Reading, ReadSuspended, At
    <3>2. \A q \in Request : Running(q) => q = r
      BY <1>2 DEF SaidInv
    <3>3. \A j : j # Imsi(r) => Settled(j)
      BY <3>2 DEF RestInv
    <3> QED  BY <3>1, <3>3
  <2> QED  BY <1>1, <1>2, <1>7, <2>1, ReadSuspendedGoes
<1>8. CASE AppendAudit(r)
  BY <1>1, <1>2, <1>8, AuditGoes
<1>9. CASE MirrorSubs(r) \/ MirrorSuspended(r)
  BY <1>1, <1>2, <1>9, MirrorGoes
<1> QED  BY <1>3, <1>4, <1>5, <1>6, <1>7, <1>8, <1>9 DEF Serving, ReadStep

\* A step that goes as it should keeps the invariant, the history aside.
LEMMA ServingKeeps ==
  ASSUME ControlInv, DocsInv, SaidInv, RestInv,
         NEW r \in Request, Running(r), Goes(r), UNCHANGED console
  PROVE  ControlInv' /\ DocsInv' /\ SaidInv' /\ RestInv'
<1>1. /\ recs' = recs /\ said' = said /\ body' = body
      /\ DOMAIN pc' = Request /\ DOMAIN got' = Request
      /\ \A q \in Request : q # r => pc'[q] = pc[q] /\ got'[q] = got[q]
      /\ pc'[r] \notin {"idle", "purgeSubs"} /\ (pc'[r] = "insertNew" => pc[r] = "purgeSuspended")
      /\ pc'[r] = "purgeSuspended" => pc[r] = "purgeSubs"
  BY DEF console, Goes, Turns
<1>2. /\ \A d : d.imsi # Imsi(r) => /\ d \in subs' <=> d \in subs
                                    /\ d \in suspended' <=> d \in suspended
      /\ \A d \in Docs' : /\ Whole(d)
                          /\ \/ \E e \in Docs : e.id = d.id /\ e.imsi = d.imsi
                             \/ d.id = r /\ d.imsi = Imsi(r) /\ pc[r] = "insertNew"
  BY DEF Goes, Frames
<1>3. ControlInv'
  BY <1>1 DEF ControlInv
<1>4. said.by = {r} /\ \A q \in Request : Running(q) => q = r
  BY DEF SaidInv
<1>5. \A q \in Request : Running(q)' => q = r
  BY <1>1, <1>4 DEF Running
<1>6. DocsInv'
  <2>1. \A d \in Docs' : Whole(d)
    BY <1>2
  <2>2. \A d, e \in Docs' : d.id = e.id => d.imsi = e.imsi
    <3>1. \A e \in Docs : pc[r] = "insertNew" => e.id # r
      BY StoreAssumption DEF DocsInv
    <3> QED  BY <1>2, <3>1 DEF DocsInv
  <2>3. ASSUME NEW d \in Docs'
        PROVE  \/ d.id \in IMSI
               \/ /\ d.id \in Request
                  /\ pc'[d.id] \notin {"idle", "purgeSubs", "purgeSuspended", "insertNew"}
    <3>1. CASE \E e \in Docs : e.id = d.id /\ e.imsi = d.imsi
      BY <1>1, <3>1 DEF DocsInv
    <3>2. CASE d.id = r /\ d.imsi = Imsi(r) /\ pc[r] = "insertNew"
      BY <1>1, <3>2
    <3> QED  BY <1>2, <3>1, <3>2
  <2> QED  BY <2>1, <2>2, <2>3 DEF DocsInv
<1>7. SaidInv'
  <2>1. \A q \in Request : Running(q)' => said'.by = {q} /\ Progress(q)'
    BY <1>1, <1>4, <1>5 DEF Goes
  <2>2. ApplyAnswer(body[r])' = ApplyAnswer(body[r]) /\ ApplyRows(body[r])' = ApplyRows(body[r])
    BY <1>1 DEF ApplyAnswer, ApplyRows
  <2>3. Outcome(r)'
    BY DEF Goes
  <2>4. \A q \in Request : pc'[q] = "idle" => body'[q].op = "list"
    BY <1>1 DEF SaidInv
  <2>5. \A q \in said'.by : /\ q \in Request /\ pc'[q] # "idle"
                            /\ said'.answer = ApplyAnswer(body[q])'
                            /\ said'.rows = ApplyRows(body[q])' /\ Outcome(q)'
    BY <1>1, <1>4, <2>2, <2>3 DEF SaidInv
  <2> QED  BY <2>1, <2>4, <2>5 DEF SaidInv
<1>8. ASSUME NEW j, j' = j, \A q \in Request : Running(q)' => Imsi(q)' # j
      PROVE  Settled(j)'
  <2>1. CASE j = Imsi(r)
    <3>1. ~Running(r)'
      BY <1>1, <1>8, <2>1 DEF Imsi
    <3>2. Settled(Imsi(r))' /\ Imsi(r)' = Imsi(r)
      BY <1>1, <3>1 DEF Goes, Imsi
    <3> QED  BY <1>8, <2>1, <3>2 DEF Settled, AtRest, One, Known
  <2>2. CASE j # Imsi(r)
    <3>1. Settled(j)
      BY <1>4, <2>2 DEF RestInv
    <3>2. \A d : d.imsi = j => /\ d \in subs' <=> d \in subs
                               /\ d \in suspended' <=> d \in suspended
                               /\ d \in Docs' <=> d \in Docs
      BY <1>2, <2>2 DEF Docs
    <3>3. AtRest(j)'
      BY <1>8, <3>1, <3>2 DEF Settled, AtRest, One
    <3> QED  BY <1>1, <1>8, <3>1, <3>2, <3>3 DEF Settled, Known
  <2> QED  BY <2>1, <2>2
<1>9. RestInv'
  BY <1>8 DEF RestInv
<1> QED  BY <1>3, <1>6, <1>7, <1>9

\* Which calls are left, for those steps that are not about the audit.
LEMMA CallsAre ==
  ASSUME ControlInv, SaidInv, NEW r \in Request, Running(r),
         MoveStep(r) \/ FieldStep(r) \/ ReplaceStep(r) \/ ReadStep(r)
  PROVE  /\ audit' = audit
         /\ pc[r] \notin {"audit", "mirrorSubs", "mirrorSuspended"}
         /\ pc'[r] \notin {"mirrorSubs", "mirrorSuspended"}
         /\ pc'[r] = "ok" => body[r].op \in Reads
<1>1. CASE MoveStep(r)
  <2>1. audit' = audit /\ pc[r] \in {"flag", "find", "count", "insert", "delete", "clear"}
    BY <1>1 DEF MoveStep, Flag, FindRaw, CountTarget, InsertRaw, DeleteRaw, ClearFlags, At
  <2>2. \E c \in {"find", "insert", "count", "notFound", "delete", "failed", "audit", "clear"} :
          pc' = [pc EXCEPT ![r] = c]
    BY <1>1 DEF MoveStep, Flag, FindRaw, CountTarget, InsertRaw, InsertInto, DeleteRaw, ClearFlags,
                Goto, AfterMove
  <2> QED  BY <2>1, <2>2 DEF ControlInv
<1>2. CASE FieldStep(r)
  <2>1. audit' = audit /\ pc[r] \in {"setSubs", "setSuspended", "unsetSubs", "unsetSuspended"}
    BY <1>2 DEF FieldStep, SetSubs, SetSuspended, UnsetSubs, UnsetSuspended, At
  <2>2. \E c \in {"setSuspended", "unsetSuspended", "audit", "notFound"} :
          pc' = [pc EXCEPT ![r] = c]
    BY <1>2 DEF FieldStep, SetSubs, SetSuspended, UnsetSubs, UnsetSuspended, Goto
  <2> QED  BY <2>1, <2>2 DEF ControlInv
<1>3. CASE ReplaceStep(r)
  <2>1. audit' = audit /\ pc[r] \in {"purgeSubs", "purgeSuspended", "insertNew"}
    BY <1>3 DEF ReplaceStep, PurgeSubs, PurgeSuspended, InsertNew, At
  <2>2. \E c \in {"purgeSuspended", "insertNew", "audit"} : pc' = [pc EXCEPT ![r] = c]
    BY <1>3 DEF ReplaceStep, PurgeSubs, PurgeSuspended, InsertNew, Goto
  <2> QED  BY <2>1, <2>2 DEF ControlInv
<1>4. CASE ReadStep(r)
  <2>1. audit' = audit /\ pc[r] \in {"readSubs", "readSuspended"}
    BY <1>4 DEF ReadStep, ReadSubs, ReadSuspended, At
  <2>2. \E c \in {"readSuspended", "ok", "notFound"} : pc' = [pc EXCEPT ![r] = c]
    BY <1>4 DEF ReadStep, ReadSubs, ReadSuspended, Goto
  <2>3. body[r].op \in Reads
    BY <2>1 DEF SaidInv, Progress, Reading
  <2> QED  BY <2>1, <2>2, <2>3 DEF ControlInv
<1> QED  BY <1>1, <1>2, <1>3, <1>4

\* A command that is not waiting to be audited is done with it, or it is no change.
LEMMA ServingHistory ==
  ASSUME ControlInv, DocsInv, SaidInv, RestInv, HistoryInv,
         NEW r \in Request, Serving(r), UNCHANGED console, Running(r), Goes(r)
  PROVE  HistoryInv'
<1> DEFINE i == Imsi(r)
<1>1. /\ log' = log /\ said' = said /\ body' = body /\ recs' = recs
      /\ \A q \in Request : q # r => pc'[q] = pc[q]
  BY DEF console, Goes, Turns
<1>2. said.by = {r} /\ (\A q \in Request : Running(q) => q = r) /\ Progress(r) /\ Outcome(r)
      /\ said.answer = ApplyAnswer(body[r])
  BY DEF SaidInv
<1>4. \A q \in Request : (Waits(q) => q = r) /\ (Waits(q)' => q = r)
  BY <1>1, <1>2 DEF Waits, Running
<1>5. \A q \in Request : Imsi(q)' = Imsi(q)
  BY <1>1 DEF Imsi
<1>6. ASSUME NEW j, j' = j PROVE Unset(j)' <=> Unset(j)
  BY <1>1, <1>5, <1>6 DEF Unset
<1>7. CASE AppendAudit(r)
  <2> DEFINE e == [imsi |-> i, op |-> body[r].op]
  <2>1. pc[r] = "audit" /\ pc' = [pc EXCEPT ![r] = "mirrorSubs"] /\ audit' = Append(audit, e)
    BY <1>7 DEF AppendAudit, At, Goto
  <2>2. ~Waits(r)'
    BY <2>1 DEF Waits, ControlInv
  <2>3. /\ Sequence(audit)' /\ Sequence(log)'
        /\ \A j : InMemory!History(audit', j) =
                    IF i = j THEN Append(InMemory!History(audit, j), e)
                             ELSE InMemory!History(audit, j)
    <3>1. /\ Sequence(Append(audit, e))
          /\ \A j : InMemory!History(Append(audit, e), j) =
                      IF e.imsi = j THEN Append(InMemory!History(audit, j), e)
                                    ELSE InMemory!History(audit, j)
      BY AppendSequence DEF HistoryInv
    <3> HIDE DEF e
    <3>2. Sequence(log)'
      BY <1>1 DEF HistoryInv, Sequence
    <3>3. Sequence(audit)'
      BY <2>1, <3>1 DEF Sequence
    <3>4. e.imsi = i
      BY DEF e
    <3> QED  BY <2>1, <3>1, <3>2, <3>3, <3>4
  <2> HIDE DEF e
  <2>4. ASSUME NEW j, j' = j, ~Unset(j)
        PROVE  InMemory!History(audit', j) = InMemory!History(log, j)
    <3>1. CASE j # i
      BY <1>4, <2>3, <2>4, <3>1 DEF HistoryInv
    <3>2. CASE j = i
      <4>1. body[r].op \in Changes /\ Granted(r)
        BY <1>2, <2>1 DEF Progress, Outcome
      <4>2. ~(body[r].op = "ip" /\ body[r].ip = NoIp)
        BY <2>4, <3>2 DEF Unset
      <4>3. said.answer = "ok"
        BY <1>2, <4>1, <4>2 DEF Granted, ApplyAnswer, InMemory!Known, Known, Imsi
      <4>4. Waits(r)
        BY <2>1, <4>1, <4>3 DEF Waits, Running, Answer
      <4>5. InMemory!History(log, j) =
              Append(InMemory!History(audit, j), [imsi |-> j, op |-> body[r].op])
        BY <1>4, <2>4, <3>2, <4>4 DEF HistoryInv
      <4> QED  BY <2>3, <3>2, <4>5 DEF e
    <3> QED  BY <3>1, <3>2
  <2>5. ASSUME NEW j, j' = j
        PROVE  \/ Unset(j)'
               \/ /\ \A q \in Request : Waits(q)' => Imsi(q)' # j
                  /\ InMemory!History(audit', j) = InMemory!History(log', j)
    BY <1>1, <1>4, <1>6, <2>2, <2>4, <2>5
  <2> QED  BY <2>3, <2>5 DEF HistoryInv
<1>8. CASE ~AppendAudit(r)
  <2>1. audit' = audit /\ (Waits(r)' <=> Waits(r))
    <3>1. CASE MirrorSubs(r) \/ MirrorSuspended(r)
      <4>1. /\ pc[r] \in {"mirrorSubs", "mirrorSuspended"} /\ audit' = audit
            /\ \E c \in {"mirrorSuspended", "ok"} : pc' = [pc EXCEPT ![r] = c]
        BY <3>1 DEF MirrorSubs, MirrorSuspended, At, Goto
      <4> QED  BY <4>1 DEF Waits, Running, Answer, ControlInv
    <3>2. CASE MoveStep(r) \/ FieldStep(r) \/ ReplaceStep(r) \/ ReadStep(r)
      <4>1. /\ audit' = audit
            /\ pc[r] \notin {"audit", "mirrorSubs", "mirrorSuspended"}
            /\ pc'[r] \notin {"mirrorSubs", "mirrorSuspended", "idle"}
            /\ pc'[r] = "ok" => body[r].op \in Reads
        BY <3>2, CallsAre DEF Goes, Turns
      <4>2. /\ pc'[r] # "failed"
            /\ pc'[r] = "notFound" => said.answer # "ok" \/ body[r].op \notin Changes
        <5>1. Outcome(r)'
          BY DEF Goes
        <5>2. ApplyAnswer(body[r])' = ApplyAnswer(body[r])
          BY <1>1 DEF ApplyAnswer
        <5> QED  BY <1>1, <1>2, <5>1, <5>2 DEF Outcome, ApplyAnswer, InMemory!Known, Known, Imsi
      <4>3. body[r].op \in Changes => body[r].op \notin Reads
        BY DEF Changes, Reads
      <4> QED  BY <1>1, <4>1, <4>2, <4>3 DEF Waits, Running, Answer
    <3> QED  BY <1>8, <3>1, <3>2 DEF Serving
  <2>2. \A q \in Request : Waits(q)' <=> Waits(q)
    BY <1>4, <2>1
  <2>3. Sequence(audit)' /\ Sequence(log)'
    BY <1>1, <2>1 DEF HistoryInv, Sequence
  <2>4. ASSUME NEW j, j' = j
        PROVE  \/ Unset(j)'
               \/ /\ \A q \in Request : Waits(q)' => Imsi(q)' # j
                  /\ InMemory!History(audit', j) = InMemory!History(log', j)
               \/ \E q \in Request :
                    /\ Waits(q)' /\ Imsi(q)' = j
                    /\ InMemory!History(log', j) =
                         Append(InMemory!History(audit', j), [imsi |-> j, op |-> body'[q].op])
    <3>1. CASE Unset(j)
      BY <1>6, <2>4, <3>1
    <3>2. CASE ~Unset(j)
      <4>1. \/ /\ \A q \in Request : Waits(q) => Imsi(q) # j
               /\ InMemory!History(audit, j) = InMemory!History(log, j)
            \/ \E q \in Request :
                 /\ Waits(q) /\ Imsi(q) = j
                 /\ InMemory!History(log, j) =
                      Append(InMemory!History(audit, j), [imsi |-> j, op |-> body[q].op])
        BY <3>2 DEF HistoryInv
      <4> QED  BY <1>1, <1>5, <2>1, <2>2, <4>1
    <3> QED  BY <3>1, <3>2
  <2> QED  BY <2>3, <2>4 DEF HistoryInv
<1> QED  BY <1>7, <1>8

-----------------------------------------------------------------------------
(* A line is typed: nothing runs.                                                  *)

\* Then both stores tell the same of everybody.
LEMMA NothingRuns ==
  ASSUME Quiet, RestInv, HistoryInv
  PROVE  /\ \A q \in Request : ~Running(q)
         /\ \A j : Settled(j)
         /\ \A j : Unset(j) \/ InMemory!History(audit, j) = InMemory!History(log, j)
<1>1. \A q \in Request : ~Running(q)
  BY DEF Quiet, Running
<1> QED  BY <1>1 DEF RestInv, HistoryInv, Waits

\* A refused request changes neither store.
LEMMA RefuseKeeps ==
  ASSUME ControlInv, DocsInv, SaidInv, RestInv, HistoryInv, Quiet,
         NEW r \in Request, pc[r] = "idle", NEW req, Refuse(r, req),
         UNCHANGED <<collections, audit, got>>
  PROVE  ConsoleInv'
<1>1. /\ subs' = subs /\ suspended' = suspended /\ audit' = audit /\ got' = got
      /\ body' = body /\ recs' = recs /\ log' = log /\ said' = said
      /\ pc'[r] \in Answer /\ DOMAIN pc' = Request
      /\ \A q \in Request : q # r => pc'[q] = pc[q]
  BY DEF Refuse, collections, ControlInv, Answer
<1>2. /\ \A q \in Request : ~Running(q)
      /\ \A j : Settled(j)
      /\ \A j : Unset(j) \/ InMemory!History(audit, j) = InMemory!History(log, j)
  BY NothingRuns
<1>3. \A q \in Request : ~Running(q)'
  BY <1>1, <1>2 DEF Running
<1>4. ControlInv'
  BY <1>1 DEF ControlInv
<1>5. DocsInv'
  BY <1>1 DEF DocsInv, Docs, Answer
<1>6. SaidInv'
  <2>1. r \notin said.by
    BY DEF SaidInv
  <2>2. \A q \in said.by : /\ q \in Request /\ pc'[q] = pc[q] /\ pc[q] # "idle"
                           /\ said.answer = ApplyAnswer(body[q])
                           /\ said.rows = ApplyRows(body[q]) /\ Outcome(q)
    BY <1>1, <2>1 DEF SaidInv
  <2>3. \A q \in said.by : Outcome(q)'
    <3> SUFFICES ASSUME NEW q \in said.by PROVE Outcome(q)'
      OBVIOUS
    <3>1. /\ RecordsOf(got[q])' = RecordsOf(got[q]) /\ ApplyRows(body[q])' = ApplyRows(body[q])
          /\ Imsi(q)' = Imsi(q) /\ Known(Imsi(q))' <=> Known(Imsi(q))
      BY <1>1 DEF RecordsOf, Imsis, RecordOf, ApplyRows, Imsi, Known
    <3>2. Granted(q)' <=> Granted(q)
      BY <1>1 DEF Granted, Known, Imsi
    <3>3. pc'[q] = pc[q] /\ Outcome(q)
      BY <2>2
    <3> QED  BY <1>1, <3>1, <3>2, <3>3 DEF Outcome, Known, Imsi
  <2>4. \A q \in said.by : /\ ApplyAnswer(body[q])' = ApplyAnswer(body[q])
                           /\ ApplyRows(body[q])' = ApplyRows(body[q])
    BY <1>1 DEF ApplyAnswer, ApplyRows
  <2>5. \A q \in Request : pc'[q] = "idle" => body'[q].op = "list"
    BY <1>1 DEF SaidInv, Answer
  <2> QED  BY <1>1, <1>3, <2>2, <2>3, <2>4, <2>5 DEF SaidInv
<1>7. ASSUME NEW j, j' = j PROVE Settled(j)'
  BY <1>1, <1>2, <1>7 DEF Settled, AtRest, One, Docs, Known
<1>8. RestInv'
  BY <1>7 DEF RestInv
<1>9. HistoryInv'
  <2>1. \A q \in Request : Imsi(q)' = Imsi(q) /\ ~Waits(q)'
    BY <1>1, <1>3 DEF Imsi, Waits
  <2>2. ASSUME NEW j, j' = j PROVE Unset(j)' <=> Unset(j)
    BY <1>1, <2>1, <2>2 DEF Unset
  <2>3. Sequence(audit)' /\ Sequence(log)'
    BY <1>1 DEF HistoryInv, Sequence
  <2>4. ASSUME NEW j, j' = j
        PROVE  \/ Unset(j)'
               \/ /\ \A q \in Request : Waits(q)' => Imsi(q)' # j
                  /\ InMemory!History(audit', j) = InMemory!History(log', j)
    BY <1>1, <1>2, <2>1, <2>2, <2>4
  <2> QED  BY <2>3, <2>4 DEF HistoryInv
<1> QED  BY <1>4, <1>5, <1>6, <1>8, <1>9 DEF ConsoleInv

\* A field of a record that is set has the value it is set to.
LEMMA RecordEdits ==
  ASSUME NEW x, NEW B, NEW M, NEW P, x \in [barred: B, ambr: M, ip: P], NEW a
  PROVE  /\ [x EXCEPT !.barred = a] = [barred |-> a, ambr |-> x.ambr, ip |-> x.ip]
         /\ [x EXCEPT !.ambr = a] = [barred |-> x.barred, ambr |-> a, ip |-> x.ip]
         /\ [x EXCEPT !.ip = a] = [barred |-> x.barred, ambr |-> x.ambr, ip |-> a]
OBVIOUS

\* What the in-memory store makes of a request, record by record.
Applied(f, b, i, d) ==
  /\ f = [j \in DOMAIN f |-> f[j]]
  /\ \A j : j # i => /\ j \in DOMAIN f <=> j \in DOMAIN recs
                     /\ j \in DOMAIN recs => f[j] = recs[j]
  /\ b.op = "add" => i \in DOMAIN f /\ f[i] = [barred |-> FALSE, ambr |-> b.ambr, ip |-> b.ip]
  /\ b.op = "remove" => i \notin DOMAIN f
  /\ b.op \in Reads => f = recs
  /\ b.op \notin {"add", "remove"} => (i \in DOMAIN f <=> Known(i))
  /\ Known(i) =>
       /\ b.op = "suspend" => f[i] = RecordOf(d, TRUE)
       /\ b.op = "resume" => f[i] = RecordOf(d, FALSE)
       /\ b.op = "plan" => f[i] = [barred |-> d \notin subs, ambr |-> b.ambr, ip |-> d.ip]
       /\ b.op = "ip" => f[i] = [barred |-> d \notin subs, ambr |-> d.ambr, ip |-> b.ip]

LEMMA ApplyIs ==
  ASSUME ControlInv, NEW b, b.op \in Reads \cup Changes, NEW d,
         Known(b.imsi) => recs[b.imsi] = RecordOf(d, d \notin subs),
         NEW i, i = b.imsi, NEW f, f = Apply(b)
  PROVE  Applied(f, b, i, d)
<1> USE DEF Applied
<1>1. recs = [j \in DOMAIN recs |-> recs[j]]
  BY DEF ControlInv
<1>2. CASE b.op = "add"
  <2>1. f = [j \in DOMAIN recs \cup {i} |->
               IF j = i THEN [barred |-> FALSE, ambr |-> b.ambr, ip |-> b.ip] ELSE recs[j]]
    <3>1. f = InMemory!Insert(recs, i, b.ambr, b.ip)
      BY <1>2 DEF Apply
    <3> QED  BY <3>1, Zenon DEF InMemory!Insert
  <2>2. b.op \notin Reads
    BY <1>2 DEF Reads
  <2> QED  BY <1>2, <2>1, <2>2
<1>3. CASE b.op = "remove"
  <2>1. f = [j \in DOMAIN recs \ {i} |-> recs[j]]
    <3>1. f = InMemory!Delete(recs, i)
      BY <1>3 DEF Apply
    <3> QED  BY <3>1, Zenon DEF InMemory!Delete, InMemory!Restrict
  <2>2. b.op \notin Reads
    BY <1>3 DEF Reads
  <2> QED  BY <1>3, <2>1, <2>2
<1>4. CASE b.op \in Reads
  <2>1. f = recs /\ b.op \notin {"add", "remove", "suspend", "resume", "plan", "ip"}
    BY <1>4 DEF Apply, Reads
  <2> QED  BY <1>1, <2>1 DEF Known
<1>5. CASE b.op \in {"suspend", "resume", "plan", "ip"}
  <2>1. b.op \notin Reads /\ b.op \notin {"add", "remove"}
    BY <1>5 DEF Reads
  <2>2. f = IF Known(i) THEN [recs EXCEPT ![i] =
                                CASE b.op = "suspend" -> [recs[i] EXCEPT !.barred = TRUE]
                                  [] b.op = "resume" -> [recs[i] EXCEPT !.barred = FALSE]
                                  [] b.op = "plan" -> [recs[i] EXCEPT !.ambr = b.ambr]
                                  [] b.op = "ip" -> [recs[i] EXCEPT !.ip = b.ip]]
                        ELSE recs
    <3>1. CASE b.op = "suspend"
      <4>1. f = InMemory!SetStatus(recs, i, TRUE)
        BY <3>1 DEF Apply
      <4>2. f = IF Known(i) THEN [recs EXCEPT ![i] = [recs[i] EXCEPT !.barred = TRUE]] ELSE recs
        BY <4>1, Zenon DEF InMemory!SetStatus, InMemory!mutate, InMemory!Known, Known
      <4> QED  BY <3>1, <4>2
    <3>2. CASE b.op = "resume"
      <4>1. f = InMemory!SetStatus(recs, i, FALSE)
        BY <3>2 DEF Apply
      <4>2. f = IF Known(i) THEN [recs EXCEPT ![i] = [recs[i] EXCEPT !.barred = FALSE]] ELSE recs
        BY <4>1, Zenon DEF InMemory!SetStatus, InMemory!mutate, InMemory!Known, Known
      <4> QED  BY <3>2, <4>2
    <3>3. CASE b.op = "plan"
      <4>1. f = InMemory!SetAMBR(recs, i, b.ambr)
        BY <3>3 DEF Apply
      <4>2. f = IF Known(i) THEN [recs EXCEPT ![i] = [recs[i] EXCEPT !.ambr = b.ambr]] ELSE recs
        BY <4>1, Zenon DEF InMemory!SetAMBR, InMemory!mutate, InMemory!Known, Known
      <4> QED  BY <3>3, <4>2
    <3>4. CASE b.op = "ip"
      <4>1. f = InMemory!SetStaticIP(recs, i, b.ip)
        BY <3>4 DEF Apply
      <4>2. f = IF Known(i) THEN [recs EXCEPT ![i] = [recs[i] EXCEPT !.ip = b.ip]] ELSE recs
        BY <4>1, Zenon DEF InMemory!SetStaticIP, InMemory!mutate, InMemory!Known, Known
      <4> QED  BY <3>4, <4>2
    <3> QED  BY <1>5, <3>1, <3>2, <3>3, <3>4
  <2>3. CASE ~Known(i)
    BY <1>1, <2>1, <2>2, <2>3 DEF Known
  <2>4. CASE Known(i)
    <3> DEFINE x == [barred |-> d \notin subs, ambr |-> d.ambr, ip |-> d.ip]
    <3>1. recs[i] = x
      BY <2>4 DEF RecordOf
    <3>7. /\ x \in [barred: BOOLEAN, ambr: {d.ambr}, ip: {d.ip}]
          /\ x.barred = (d \notin subs) /\ x.ambr = d.ambr /\ x.ip = d.ip
      OBVIOUS
    <3> HIDE DEF x
    <3>8. \A a : /\ [x EXCEPT !.barred = a] = [barred |-> a, ambr |-> x.ambr, ip |-> x.ip]
                 /\ [x EXCEPT !.ambr = a] = [barred |-> x.barred, ambr |-> a, ip |-> x.ip]
                 /\ [x EXCEPT !.ip = a] = [barred |-> x.barred, ambr |-> x.ambr, ip |-> a]
      BY <3>7, RecordEdits
    <3>2. /\ [x EXCEPT !.barred = TRUE] = RecordOf(d, TRUE)
          /\ [x EXCEPT !.barred = FALSE] = RecordOf(d, FALSE)
          /\ [x EXCEPT !.ambr = b.ambr] = [barred |-> d \notin subs, ambr |-> b.ambr, ip |-> d.ip]
          /\ [x EXCEPT !.ip = b.ip] = [barred |-> d \notin subs, ambr |-> d.ambr, ip |-> b.ip]
      BY <3>7, <3>8, Zenon DEF RecordOf
    <3> DEFINE y == CASE b.op = "suspend" -> [x EXCEPT !.barred = TRUE]
                      [] b.op = "resume" -> [x EXCEPT !.barred = FALSE]
                      [] b.op = "plan" -> [x EXCEPT !.ambr = b.ambr]
                      [] b.op = "ip" -> [x EXCEPT !.ip = b.ip]
    <3>3. f = [recs EXCEPT ![i] = y]
      BY <2>2, <2>4, <3>1
    <3>4. /\ b.op = "suspend" => y = RecordOf(d, TRUE)
          /\ b.op = "resume" => y = RecordOf(d, FALSE)
          /\ b.op = "plan" => y = [barred |-> d \notin subs, ambr |-> b.ambr, ip |-> d.ip]
          /\ b.op = "ip" => y = [barred |-> d \notin subs, ambr |-> d.ambr, ip |-> b.ip]
      BY <3>2
    <3> HIDE DEF y
    <3>5. i \in DOMAIN recs /\ Known(i)
      BY <2>4 DEF Known
    <3>6. f = [j \in DOMAIN recs |-> IF j = i THEN y ELSE recs[j]]
      BY <1>1, <3>3
    <3> QED  BY <2>1, <3>4, <3>5, <3>6
  <2> QED  BY <2>3, <2>4
<1> QED  BY <1>2, <1>3, <1>4, <1>5 DEF Changes

\* The record of a document with a plan or an address that is set.
LEMMA FieldEdits ==
  ASSUME NEW d, Whole(d), NEW a, NEW z
  PROVE  /\ RecordOf([d EXCEPT !.ambr = a], z) = [barred |-> z, ambr |-> a, ip |-> d.ip]
         /\ RecordOf([d EXCEPT !.ip = a], z) = [barred |-> z, ambr |-> d.ambr, ip |-> a]
<1>1. /\ [d EXCEPT !.ambr = a].ambr = a /\ [d EXCEPT !.ambr = a].ip = d.ip
      /\ [d EXCEPT !.ip = a].ip = a /\ [d EXCEPT !.ip = a].ambr = d.ambr
  BY DEF Whole
<1> QED  BY <1>1, Zenon DEF RecordOf

\* The in-memory store is ahead by one request.
LEMMA ServeBegins ==
  ASSUME ControlInv, DocsInv, NEW r \in Request, NEW b, b.op \in Reads \cup Changes,
         b.op = "add" => b.ambr = DefaultAmbr /\ b.ip = NoIp,
         \A j : Settled(j),
         DOMAIN pc' = Request, pc'[r] = FirstCall(b), DOMAIN body' = Request, body'[r] = b,
         recs' = Apply(b), UNCHANGED collections
  PROVE  /\ Progress(r)' /\ Running(r)'
         /\ pc'[r] \in {"flag", "find", "setSubs", "unsetSubs", "purgeSubs", "readSubs"}
         /\ recs' = [j \in DOMAIN recs' |-> recs'[j]]
         /\ \A j : j # b.imsi => /\ j \in DOMAIN recs' <=> j \in DOMAIN recs
                                 /\ j \in DOMAIN recs => recs'[j] = recs[j]
         /\ b.op \notin {"add", "remove"} => (b.imsi \in DOMAIN recs' <=> b.imsi \in DOMAIN recs)
         /\ b.op \in Reads => recs' = recs
<1> DEFINE i == b.imsi
<1>1. PICK d : Known(i) => d \in Docs /\ d.imsi = i /\ recs[i] = RecordOf(d, d \notin subs)
  BY DEF Settled
<1> HIDE DEF i
<1>10. i = b.imsi
  BY DEF i
<1>11. ASSUME NEW g, g = Apply(b) PROVE Applied(g, b, i, d)
  <2>1. Known(b.imsi) => recs[b.imsi] = RecordOf(d, d \notin subs)
    BY <1>1, <1>10
  <2> QED  BY <1>10, <1>11, <2>1, ApplyIs, Zenon
<1>2. /\ recs' = [j \in DOMAIN recs' |-> recs'[j]]
      /\ \A j : j # i => /\ j \in DOMAIN recs' <=> j \in DOMAIN recs
                         /\ j \in DOMAIN recs => recs'[j] = recs[j]
      /\ b.op = "add" =>
           i \in DOMAIN recs' /\ recs'[i] = [barred |-> FALSE, ambr |-> b.ambr, ip |-> b.ip]
      /\ b.op = "remove" => i \notin DOMAIN recs'
      /\ b.op \in Reads => recs' = recs
      /\ b.op \notin {"add", "remove"} => (i \in DOMAIN recs' <=> Known(i))
      /\ Known(i) =>
           /\ b.op = "suspend" => recs'[i] = RecordOf(d, TRUE)
           /\ b.op = "resume" => recs'[i] = RecordOf(d, FALSE)
           /\ b.op = "plan" => recs'[i] = [barred |-> d \notin subs, ambr |-> b.ambr, ip |-> d.ip]
           /\ b.op = "ip" => recs'[i] = [barred |-> d \notin subs, ambr |-> d.ambr, ip |-> b.ip]
  <2>1. \A g : g = Apply(b) => Applied(g, b, i, d)
    BY <1>11
  <2> QED  BY <2>1 DEF Applied
<1>3. /\ subs' = subs /\ suspended' = suspended /\ Docs' = Docs /\ Imsi(r)' = i
      /\ AtRest(i) /\ (Known(i) <=> \E e \in Docs : e.imsi = i)
      /\ \A e \in Docs : e.imsi = i => e = d
  BY <1>1, <1>10 DEF collections, Docs, Imsi, Settled, AtRest, One
<1>4. AtRest(Imsi(r))' /\ One(Imsi(r))'
  BY <1>3 DEF AtRest, One
<1>5. /\ b.op = "suspend" => pc'[r] = "flag"
      /\ b.op = "resume" => pc'[r] = "find"
      /\ b.op = "plan" => pc'[r] = "setSubs"
      /\ b.op = "ip" => pc'[r] = IF b.ip = NoIp THEN "unsetSubs" ELSE "setSubs"
      /\ b.op \in {"add", "remove"} => pc'[r] = "purgeSubs"
      /\ b.op \in Reads => pc'[r] = "readSubs"
  BY DEF FirstCall, Reads
<1>6. pc'[r] \in {"flag", "find", "setSubs", "unsetSubs", "purgeSubs", "readSubs"}
  BY <1>5 DEF Changes
<1>7. Running(r)'
  BY <1>6 DEF Running, Answer
<1>8. b.op \in {"suspend", "resume", "plan", "ip"} => Kept(r)'
  <2> SUFFICES ASSUME b.op \in {"suspend", "resume", "plan", "ip"} PROVE Kept(r)'
    OBVIOUS
  <2>1. Known(Imsi(r))' <=> \E e \in Docs' : e.imsi = i
    BY <1>2, <1>3 DEF Known
  <2>2. ASSUME NEW e \in Docs, e.imsi = i
        PROVE  recs'[i] = RecordOf(Made(r, e)', Bars(r, e)')
    <3>1. e = d /\ Known(i) /\ Whole(e)
      BY <1>3, <2>2 DEF DocsInv
    <3>5. \A a, z :
            /\ RecordOf([e EXCEPT !.ambr = a], z) = [barred |-> z, ambr |-> a, ip |-> e.ip]
            /\ RecordOf([e EXCEPT !.ip = a], z) = [barred |-> z, ambr |-> e.ambr, ip |-> a]
      BY <3>1, FieldEdits
    <3>2. CASE b.op \in {"suspend", "resume"}
      <4>1. Made(r, e)' = e /\ (b.op = "suspend" => Bars(r, e)' = TRUE)
            /\ (b.op = "resume" => Bars(r, e)' = FALSE)
        BY <3>2 DEF Made, Bars
      <4> QED  BY <1>2, <3>1, <3>2, <4>1
    <3>3. CASE b.op = "plan"
      <4>1. Bars(r, e)' = (e \notin subs)
        BY <1>3, <3>3 DEF Bars
      <4>2. Made(r, e)' = [e EXCEPT !.ambr = b.ambr]
        BY <3>3, Zenon DEF Made, Fields
      <4>3. RecordOf([e EXCEPT !.ambr = b.ambr], e \notin subs) =
              [barred |-> e \notin subs, ambr |-> b.ambr, ip |-> e.ip]
        BY <3>5, Zenon
      <4>4. recs'[i] = [barred |-> e \notin subs, ambr |-> b.ambr, ip |-> e.ip]
        BY <1>2, <3>1, <3>3
      <4> QED  BY <4>1, <4>2, <4>3, <4>4, Zenon
    <3>4. CASE b.op = "ip"
      <4>1. Bars(r, e)' = (e \notin subs)
        BY <1>3, <3>4 DEF Bars
      <4>2. Made(r, e)' = [e EXCEPT !.ip = b.ip]
        BY <3>4, Zenon DEF Made, Fields
      <4>3. RecordOf([e EXCEPT !.ip = b.ip], e \notin subs) =
              [barred |-> e \notin subs, ambr |-> e.ambr, ip |-> b.ip]
        BY <3>5, Zenon
      <4>4. recs'[i] = [barred |-> e \notin subs, ambr |-> e.ambr, ip |-> b.ip]
        BY <1>2, <3>1, <3>4
      <4> QED  BY <4>1, <4>2, <4>3, <4>4, Zenon
    <3> QED  BY <3>2, <3>3, <3>4
  <2> QED  BY <1>3, <2>1, <2>2 DEF Kept, RecordOf
<1>9. Progress(r)'
  <2>1. CASE b.op \in {"suspend", "resume"}
    BY <1>3, <1>4, <1>5, <1>8, <2>1 DEF Progress, Moving
  <2>2. CASE b.op \in {"plan", "ip"}
    BY <1>3, <1>4, <1>5, <1>8, <2>2 DEF Progress, Editing
  <2>3. CASE b.op \in {"add", "remove"}
    BY <1>2, <1>3, <1>4, <1>5, <2>3 DEF Progress, Replacing, Known
  <2>4. CASE b.op \in Reads
    <3>1. Settled(i)
      OBVIOUS
    <3>2. Settled(Imsi(r))'
      BY <1>2, <1>3, <1>4, <2>4, <3>1 DEF Settled, Known
    <3> QED  BY <1>5, <2>4, <3>2 DEF Progress, Reading
  <2> QED  BY <2>1, <2>2, <2>3, <2>4 DEF Changes
<1> QED  BY <1>2, <1>6, <1>7, <1>9, <1>10 DEF Known

\* A request that is served begins its calls, and keeps the invariant.
LEMMA ServeKeeps ==
  ASSUME ControlInv, DocsInv, SaidInv, RestInv, HistoryInv, Quiet,
         NEW r \in Request, pc[r] = "idle", NEW req, Serve(r, req),
         req.op \in Commands, req.op # "set-ip" => req.ip = None,
         UNCHANGED <<collections, audit, got>>
  PROVE  ConsoleInv'
<1>1. PICK b \in Bodies(req) :
        /\ body' = [body EXCEPT ![r] = b] /\ pc' = [pc EXCEPT ![r] = FirstCall(b)]
        /\ recs' = Apply(b)
        /\ log' = IF b.op \in Changes /\ ApplyAnswer(b) = "ok"
                    THEN Append(log, [imsi |-> b.imsi, op |-> b.op]) ELSE log
        /\ said' = [by |-> {r}, answer |-> ApplyAnswer(b), rows |-> ApplyRows(b)]
  BY DEF Serve
<1>2. /\ b.op \in Reads \cup Changes
      /\ b.op = "add" => b.ambr = DefaultAmbr /\ b.ip = NoIp
  BY BodiesAre
<1>3. /\ \A q \in Request : ~Running(q)
      /\ \A j : Settled(j)
      /\ \A j : Unset(j) \/ InMemory!History(audit, j) = InMemory!History(log, j)
  BY NothingRuns
<1>4. /\ subs' = subs /\ suspended' = suspended /\ audit' = audit /\ got' = got
      /\ DOMAIN pc' = Request /\ DOMAIN body' = Request
      /\ pc'[r] = FirstCall(b) /\ body'[r] = b /\ Imsi(r)' = b.imsi
      /\ \A q \in Request : q # r => pc'[q] = pc[q] /\ body'[q] = body[q] /\ Imsi(q)' = Imsi(q)
  BY <1>1 DEF ControlInv, collections, Imsi
<1>5. /\ said'.by = {r} /\ said'.answer = ApplyAnswer(b) /\ said'.rows = ApplyRows(b)
  BY <1>1
<1>6. /\ Progress(r)' /\ Running(r)'
      /\ pc'[r] \in {"flag", "find", "setSubs", "unsetSubs", "purgeSubs", "readSubs"}
      /\ recs' = [j \in DOMAIN recs' |-> recs'[j]]
      /\ \A j : j # b.imsi => /\ j \in DOMAIN recs' <=> j \in DOMAIN recs
                              /\ j \in DOMAIN recs => recs'[j] = recs[j]
      /\ b.op \notin {"add", "remove"} => (b.imsi \in DOMAIN recs' <=> b.imsi \in DOMAIN recs)
      /\ b.op \in Reads => recs' = recs
  BY <1>1, <1>2, <1>3, <1>4, ServeBegins
<1>7. \A q \in Request : q # r => ~Running(q)'
  BY <1>3, <1>4 DEF Running
<1>8. ControlInv'
  BY <1>2, <1>4, <1>6 DEF ControlInv
<1>9. DocsInv'
  <2>1. \A d \in Docs : d.id # r
    BY StoreAssumption DEF DocsInv
  <2> QED  BY <1>4, <2>1 DEF DocsInv, Docs
<1>10. SaidInv'
  <2>1. Outcome(r)'
    BY <1>6 DEF Outcome
  <2>2. ApplyAnswer(body[r])' = ApplyAnswer(b)
    BY <1>4, <1>6 DEF ApplyAnswer, InMemory!Known
  <2>3. ApplyRows(body[r])' = ApplyRows(b)
    <3>1. CASE b.op \in Reads
      BY <1>4, <1>6, <3>1 DEF ApplyRows
    <3>2. CASE b.op \notin Reads
      BY <1>4, <3>2 DEF ApplyRows, Reads
    <3> QED  BY <3>1, <3>2
  <2>4. \A q \in Request : pc'[q] = "idle" => body'[q].op = "list"
    BY <1>4, <1>6 DEF SaidInv
  <2>5. \A q \in Request : Running(q)' => said'.by = {q} /\ Progress(q)'
    BY <1>5, <1>6, <1>7
  <2> QED  BY <1>5, <1>6, <2>1, <2>2, <2>3, <2>4, <2>5 DEF SaidInv
<1>11. ASSUME NEW j, j' = j, \A q \in Request : Running(q)' => Imsi(q)' # j
       PROVE  Settled(j)'
  <2>1. j # b.imsi /\ Settled(j)
    BY <1>3, <1>4, <1>6, <1>11
  <2> QED  BY <1>4, <1>6, <1>11, <2>1 DEF Settled, AtRest, One, Docs, Known
<1>12. RestInv'
  BY <1>11 DEF RestInv
<1>13. HistoryInv'
  <2> DEFINE e == [imsi |-> b.imsi, op |-> b.op]
  <2>1. Waits(r)' <=> b.op \in Changes /\ ApplyAnswer(b) = "ok"
    BY <1>4, <1>5, <1>6 DEF Waits
  <2>2. \A q \in Request : q # r => ~Waits(q)'
    BY <1>7 DEF Waits
  <2>3. ASSUME NEW j, j' = j, Unset(j) PROVE Unset(j)'
    <3>1. \A q \in Request : body[q].op = "ip" => q # r
      BY DEF SaidInv
    <3> QED  BY <1>4, <2>3, <3>1 DEF Unset
  <2>4. Sequence(audit)'
    BY <1>4 DEF HistoryInv, Sequence
  <2>5. CASE Waits(r)'
    <3>1. log' = Append(log, e)
      BY <1>1, <2>1, <2>5
    <3>2. /\ Sequence(Append(log, e))
          /\ \A j : InMemory!History(Append(log, e), j) =
                      IF e.imsi = j THEN Append(InMemory!History(log, j), e)
                                    ELSE InMemory!History(log, j)
      BY AppendSequence DEF HistoryInv
    <3>3. e.imsi = b.imsi /\ e.op = b.op
      OBVIOUS
    <3> HIDE DEF e
    <3>4. Sequence(log)'
      BY <3>1, <3>2 DEF Sequence
    <3>5. ASSUME NEW j, j' = j
          PROVE  \/ Unset(j)'
                 \/ /\ \A q \in Request : Waits(q)' => Imsi(q)' # j
                    /\ InMemory!History(audit', j) = InMemory!History(log', j)
                 \/ \E q \in Request :
                      /\ Waits(q)' /\ Imsi(q)' = j
                      /\ InMemory!History(log', j) =
                           Append(InMemory!History(audit', j), [imsi |-> j, op |-> body'[q].op])
      <4>1. CASE Unset(j)
        BY <2>3, <3>5, <4>1
      <4>2. CASE ~Unset(j) /\ j # b.imsi
        BY <1>3, <1>4, <2>2, <3>1, <3>2, <3>3, <4>2
      <4>3. CASE ~Unset(j) /\ j = b.imsi
        <5>1. InMemory!History(log', j) = Append(InMemory!History(audit', j), e)
          BY <1>3, <1>4, <3>1, <3>2, <3>3, <4>3
        <5>2. e = [imsi |-> j, op |-> body'[r].op]
          BY <1>4, <4>3 DEF e
        <5> QED  BY <1>4, <2>5, <4>3, <5>1, <5>2
      <4> QED  BY <4>1, <4>2, <4>3
    <3> QED  BY <2>4, <3>4, <3>5 DEF HistoryInv
  <2>6. CASE ~Waits(r)'
    <3>1. log' = log
      BY <1>1, <2>1, <2>6
    <3>2. Sequence(log)'
      BY <3>1 DEF HistoryInv, Sequence
    <3>3. ASSUME NEW j, j' = j
          PROVE  \/ Unset(j)'
                 \/ /\ \A q \in Request : Waits(q)' => Imsi(q)' # j
                    /\ InMemory!History(audit', j) = InMemory!History(log', j)
      BY <1>3, <1>4, <2>2, <2>3, <2>6, <3>1, <3>3
    <3> QED  BY <2>4, <3>2, <3>3 DEF HistoryInv
  <2> QED  BY <2>5, <2>6
<1> QED  BY <1>8, <1>9, <1>10, <1>12, <1>13 DEF ConsoleInv

\* Whatever line is typed.
LEMMA TypeKeeps ==
  ASSUME ConsoleInv, NEW r \in Request, Type(r)
  PROVE  ConsoleInv'
<1> DEFINE Sent(cmd, words) ==
             LET req == main(cmd, words)
             IN IF Routed(req) /\ Valid(req) THEN Serve(r, req) ELSE Refuse(r, req)
<1>0. PICK cmd \in Commands : \E words : Sent(cmd, words)
  BY DEF Type
<1>1. PICK words : Sent(cmd, words)
  BY <1>0
<1> DEFINE req == main(cmd, words)
<1>2. req.op = cmd /\ (cmd # "set-ip" => req.ip = None)
  BY MainKeepsCommand
<1>3. Serve(r, req) \/ Refuse(r, req)
  BY <1>1
<1> HIDE DEF req
<1>4. Quiet /\ pc[r] = "idle" /\ UNCHANGED <<collections, audit, got>>
  BY DEF Type
<1> QED  BY <1>2, <1>3, <1>4, ServeKeeps, RefuseKeeps DEF ConsoleInv

\* What Init takes to be there is at rest.
LEMMA InitConsole == ConsoleInit => ConsoleInv
<1> SUFFICES ASSUME ConsoleInit PROVE ConsoleInv
  OBVIOUS
<1>1. PICK stashed \in SUBSET Seeded :
        /\ subs = {NewDoc(i, i) : i \in Seeded \ stashed}
        /\ suspended = {Barred(NewDoc(i, i)) : i \in stashed}
  BY DEF ConsoleInit, Init
<1>2. /\ audit = <<>> /\ log = <<>> /\ said.by = {} /\ recs = RecordsOf(Docs)
      /\ pc = [r \in Request |-> "idle"] /\ got = [r \in Request |-> {}]
      /\ DOMAIN body = Request /\ \A r \in Request : body[r].op = "list"
  BY DEF ConsoleInit, Init, Docs
<1>3. /\ \A d \in subs : \E i \in Seeded \ stashed : d = NewDoc(i, i)
      /\ \A d \in suspended : \E i \in stashed : d = Barred(NewDoc(i, i))
  BY <1>1
<1>4. /\ \A d \in subs : Whole(d) /\ d.id = d.imsi /\ d.imsi \in Seeded \ stashed /\ Down(d)
      /\ \A d \in suspended : Whole(d) /\ d.id = d.imsi /\ d.imsi \in stashed /\ Up(d)
                            /\ d = Barred(NewDoc(d.imsi, d.imsi))
  <2>1. \A i : /\ Whole(NewDoc(i, i)) /\ NewDoc(i, i).id = i /\ NewDoc(i, i).imsi = i
               /\ Down(NewDoc(i, i))
    BY NewIs
  <2>2. \A i : /\ Whole(Barred(NewDoc(i, i))) /\ Up(Barred(NewDoc(i, i)))
               /\ Barred(NewDoc(i, i)).id = i /\ Barred(NewDoc(i, i)).imsi = i
    BY <2>1, EditsAre DEF Like
  <2>3. ASSUME NEW d \in subs
        PROVE  Whole(d) /\ d.id = d.imsi /\ d.imsi \in Seeded \ stashed /\ Down(d)
    <3>1. PICK i \in Seeded \ stashed : d = NewDoc(i, i)
      BY <1>3
    <3> QED  BY <2>1, <3>1
  <2>4. ASSUME NEW d \in suspended
        PROVE  /\ Whole(d) /\ d.id = d.imsi /\ d.imsi \in stashed /\ Up(d)
               /\ d = Barred(NewDoc(d.imsi, d.imsi))
    <3>1. PICK i \in stashed : d = Barred(NewDoc(i, i))
      BY <1>3
    <3> QED  BY <2>2, <3>1
  <2> QED  BY <2>3, <2>4
<1>5. \A d, e \in Docs : d.imsi = e.imsi => d = e
  <2>1. \A d \in subs : d = NewDoc(d.imsi, d.imsi)
    BY <1>3, NewIs
  <2> QED  BY <1>4, <2>1 DEF Docs
<1>6. \A r \in Request : ~Running(r)
  BY <1>2 DEF Running
<1>7. recs = [i \in DOMAIN recs |-> recs[i]] /\ DOMAIN recs = Imsis(Docs)
  BY <1>2 DEF RecordsOf
<1>8. ASSUME NEW d \in Docs PROVE recs[d.imsi] = RecordOf(d, d \notin subs)
  <2> DEFINE c == CHOOSE c \in Docs : c.imsi = d.imsi
  <2>1. c \in Docs /\ c.imsi = d.imsi
    OBVIOUS
  <2>2. c = d
    BY <1>5, <2>1
  <2>3. d.imsi \in Imsis(Docs)
    BY DEF Imsis
  <2> HIDE DEF c
  <2>4. recs[d.imsi] = RecordOf(c, c \notin subs)
    BY <1>2, <2>3 DEF RecordsOf, c
  <2> QED  BY <2>2, <2>4
<1>9. ControlInv
  BY <1>2, <1>7 DEF ControlInv, Reads
<1>10. DocsInv
  BY <1>4, <1>5, StoreAssumption DEF DocsInv, Docs
<1>11. SaidInv
  BY <1>2, <1>6 DEF SaidInv
<1>12. ASSUME NEW j PROVE Settled(j)
  <2>1. AtRest(j)
    BY <1>4, <1>5 DEF AtRest, One, Docs
  <2>2. Known(j) <=> \E d \in Docs : d.imsi = j
    BY <1>7 DEF Known, Imsis
  <2> QED  BY <1>8, <2>1, <2>2 DEF Settled
<1>13. RestInv
  BY <1>12 DEF RestInv
<1>14. HistoryInv
  <2>1. Sequence(<<>>)
    <3>1. <<>> \in Seq({})
      OBVIOUS
    <3> QED  BY <3>1 DEF Sequence
  <2>2. \A r \in Request : ~Waits(r)
    BY <1>6 DEF Waits
  <2> QED  BY <1>2, <2>1, <2>2 DEF HistoryInv
<1> QED  BY <1>9, <1>10, <1>11, <1>13, <1>14 DEF ConsoleInv

\* Nothing happens.
LEMMA IdleKeeps ==
  ASSUME ConsoleInv, UNCHANGED consoleVars
  PROVE  ConsoleInv'
<1>1. /\ subs' = subs /\ suspended' = suspended /\ audit' = audit /\ body' = body /\ pc' = pc
      /\ got' = got /\ recs' = recs /\ log' = log /\ said' = said
  BY DEF consoleVars, console, vars
<1>2. ControlInv' /\ DocsInv'
  BY <1>1 DEF ConsoleInv, ControlInv, DocsInv, Docs
<1>3. ASSUME NEW r, r' = r
      PROVE  /\ Progress(r)' <=> Progress(r)
             /\ Outcome(r)' <=> Outcome(r)
  <2>1. /\ Imsi(r)' = Imsi(r) /\ (Kept(r)' <=> Kept(r))
        /\ (AtRest(Imsi(r))' <=> AtRest(Imsi(r))) /\ (One(Imsi(r))' <=> One(Imsi(r)))
        /\ (Settled(Imsi(r))' <=> Settled(Imsi(r))) /\ (Known(Imsi(r))' <=> Known(Imsi(r)))
    BY <1>1, <1>3 DEF Imsi, Kept, Known, Made, Bars, Fields, RecordOf, AtRest, One, Settled, Docs
  <2>2. Moving(r)' <=> Moving(r)
    BY <1>1, <1>3, <2>1 DEF Moving, From, Target, Stamped, Stamp, Docs
  <2>3. /\ Editing(r)' <=> Editing(r)
        /\ Replacing(r)' <=> Replacing(r)
        /\ Reading(r)' <=> Reading(r)
    BY <1>1, <1>3, <2>1 DEF Editing, Replacing, Reading
  <2>4. ApplyRows(body[r])' = ApplyRows(body[r]) /\ RecordsOf(got[r])' = RecordsOf(got[r])
    BY <1>1, <1>3 DEF ApplyRows, RecordsOf, Imsis, RecordOf
  <2>5. Granted(r)' <=> Granted(r)
    BY <1>1, <1>3, <2>1 DEF Granted
  <2> QED  BY <1>1, <1>3, <2>1, <2>2, <2>3, <2>4, <2>5 DEF Progress, Outcome
<1>4. SaidInv'
  <2>1. \A r : /\ ApplyAnswer(body[r])' = ApplyAnswer(body[r])
               /\ ApplyRows(body[r])' = ApplyRows(body[r])
    BY <1>1 DEF ApplyAnswer, ApplyRows
  <2> QED  BY <1>1, <1>3, <2>1 DEF ConsoleInv, SaidInv, Running
<1>5. RestInv'
  <2>1. ASSUME NEW j, j' = j PROVE Settled(j)' <=> Settled(j)
    BY <1>1, <2>1 DEF Settled, AtRest, One, Docs, Known
  <2> QED  BY <1>1, <2>1 DEF ConsoleInv, RestInv, Running, Imsi
<1>6. HistoryInv'
  BY <1>1 DEF ConsoleInv, HistoryInv, Sequence, Unset, Waits, Running, Imsi
<1> QED  BY <1>2, <1>4, <1>5, <1>6 DEF ConsoleInv

\* The invariant holds of every behaviour.
LEMMA ConsoleHolds == ConsoleSpec => []ConsoleInv
<1>1. ConsoleInv /\ [ConsoleNext]_consoleVars => ConsoleInv'
  <2> SUFFICES ASSUME ConsoleInv, [ConsoleNext]_consoleVars PROVE ConsoleInv'
    OBVIOUS
  <2>1. CASE UNCHANGED consoleVars
    BY <2>1, IdleKeeps
  <2>2. ASSUME NEW r \in Request, Type(r) PROVE ConsoleInv'
    BY <2>2, TypeKeeps
  <2>3. ASSUME NEW r \in Request, Serving(r), UNCHANGED console PROVE ConsoleInv'
    <3>1. Running(r) /\ Goes(r)
      BY <2>3, ServingGoes DEF ConsoleInv
    <3>2. ControlInv' /\ DocsInv' /\ SaidInv' /\ RestInv'
      BY <2>3, <3>1, ServingKeeps DEF ConsoleInv
    <3>3. HistoryInv'
      BY <2>3, <3>1, ServingHistory DEF ConsoleInv
    <3> QED  BY <3>2, <3>3 DEF ConsoleInv
  <2> QED  BY <2>1, <2>2, <2>3 DEF ConsoleNext
<1> QED  BY <1>1, InitConsole, PTL DEF ConsoleSpec

-----------------------------------------------------------------------------
(* What the operator sees.                                                         *)

\* The handlers give the answer of the in-memory store, and get and list show its
\* records, when the Mongo store is read call by call and the handler answers
\* (GetSubscriber, List and SetStatus to SetStaticIP in mongo.go, against fake.go).
THEOREM AnswersAgree == ConsoleSpec => []SameAnswer
<1>1. ASSUME ConsoleInv PROVE SameAnswer
  <2> SUFFICES ASSUME NEW r \in said.by, pc[r] \in Answer
               PROVE  \/ /\ pc[r] = said.answer
                         /\ body[r].op \in Reads => RecordsOf(got[r]) = said.rows
                      \/ body[r].op = "ip" /\ body[r].ip = NoIp /\ said.answer = "notFound"
    BY DEF SameAnswer
  <2>1. /\ said.answer = ApplyAnswer(body[r]) /\ said.rows = ApplyRows(body[r])
        /\ Outcome(r) /\ body[r].op \in Reads \cup Changes
    BY <1>1 DEF ConsoleInv, SaidInv, ControlInv
  <2>2. said.answer = IF body[r].op \in {"list", "add", "remove"} \/ Known(Imsi(r))
                        THEN "ok" ELSE "notFound"
    BY <2>1 DEF ApplyAnswer, InMemory!Known, Known, Imsi
  <2>3. CASE pc[r] = "ok" /\ body[r].op \in Changes
    <3>1. body[r].op \notin Reads
      BY <2>3 DEF Changes, Reads
    <3> QED  BY <2>1, <2>2, <2>3, <3>1 DEF Outcome, Granted
  <2>4. CASE pc[r] = "ok" /\ body[r].op \in Reads
    BY <2>1, <2>2, <2>4 DEF Outcome, Reads
  <2>5. CASE pc[r] = "notFound"
    <3>1. pc[r] = said.answer
      BY <2>1, <2>2, <2>5 DEF Outcome
    <3>2. ASSUME body[r].op \in Reads PROVE RecordsOf(got[r]) = said.rows
      <4>1. body[r].op = "get" /\ got[r] = {} /\ ~Known(Imsi(r))
        BY <2>1, <2>5, <3>2 DEF Outcome, Reads
      <4>2. RecordsOf({}) = [j \in {} |-> recs[j]]
        <5> DEFINE f == [j \in {} |-> recs[j]]
        <5>1. f = [j \in DOMAIN f |-> f[j]] /\ DOMAIN f = {}
          OBVIOUS
        <5> HIDE DEF f
        <5>2. \A i : i \in DOMAIN f <=> \E d \in {} : d.imsi = i
          BY <5>1
        <5>3. RecordsOf({}) = f
          BY <5>1, <5>2, RecordsAre
        <5> QED  BY <5>3 DEF f
      <4>3. DOMAIN recs \cap {Imsi(r)} = {}
        BY <4>1 DEF Known
      <4>4. ApplyRows(body[r]) = InMemory!Get(recs, Imsi(r))
        BY <4>1 DEF ApplyRows, Imsi
      <4>5. InMemory!Get(recs, Imsi(r)) = [j \in DOMAIN recs \cap {Imsi(r)} |-> recs[j]]
        BY Zenon DEF InMemory!Get, InMemory!Restrict
      <4> QED  BY <2>1, <4>1, <4>2, <4>3, <4>4, <4>5
    <3> QED  BY <3>1, <3>2
  <2>6. CASE pc[r] = "failed"
    BY <2>1, <2>6 DEF Outcome
  <2> QED  BY <2>1, <2>3, <2>4, <2>5, <2>6 DEF Answer
<1> QED  BY <1>1, ConsoleHolds, PTL

\* Between commands the two collections hold the subscribers of the in-memory store,
\* with its status, plan and address, and the audit is its history of each.
THEOREM RecordsAgree == ConsoleSpec => []SameRecords
<1>1. ASSUME ConsoleInv PROVE SameRecords
  <2> SUFFICES ASSUME Quiet
               PROVE  /\ RecordsOf(subs \cup suspended) = recs
                      /\ \A i \in IMSI :
                           InMemory!History(audit, i) = InMemory!History(log, i)
                             \/ \E r \in Request :
                                  body[r].op = "ip" /\ body[r].ip = NoIp /\ Imsi(r) = i
    BY DEF SameRecords
  <2>1. /\ \A j : Settled(j)
        /\ \A j : Unset(j) \/ InMemory!History(audit, j) = InMemory!History(log, j)
    BY <1>1, NothingRuns DEF ConsoleInv
  <2>2. \A d, e \in Docs : d.imsi = e.imsi => d = e
    BY <2>1 DEF Settled, AtRest, One
  <2>3. recs = [i \in DOMAIN recs |-> recs[i]]
    BY <1>1 DEF ConsoleInv, ControlInv
  <2>4. /\ \A i : i \in DOMAIN recs <=> \E d \in Docs : d.imsi = i
        /\ \A d \in Docs : recs[d.imsi] = RecordOf(d, d \notin subs)
    BY <2>1 DEF Settled, Known
  <2>5. RecordsOf(Docs) = recs
    BY <2>2, <2>3, <2>4, RecordsAre
  <2> QED  BY <2>1, <2>5 DEF Docs, Unset
<1> QED  BY <1>1, ConsoleHolds, PTL

\* Between commands each subscriber has one document, with no barring flag if he is
\* live and all three if he is suspended (SetStatus and move in mongo.go).
THEOREM FlagsRest == ConsoleSpec => []FlagsAtRest
<1>1. ASSUME ConsoleInv PROVE FlagsAtRest
  <2> SUFFICES ASSUME Quiet
               PROVE  /\ \A d, e \in subs \cup suspended : d.imsi = e.imsi => d = e
                      /\ \A d \in subs : d.status = 0 /\ d.odb = 0 /\ ~d.rcl
                      /\ \A d \in suspended : d.status = 1 /\ d.odb = 1 /\ d.rcl
    BY DEF FlagsAtRest
  <2>1. \A j : Settled(j)
    BY <1>1, NothingRuns DEF ConsoleInv
  <2>2. \A d, e \in subs \cup suspended : d.imsi = e.imsi => d = e
    BY <2>1 DEF Settled, AtRest, One, Docs
  <2>3. /\ \A d \in subs : Down(d)
        /\ \A d \in suspended : Up(d)
    BY <2>1 DEF Settled, AtRest
  <2> QED  BY <2>2, <2>3 DEF Down, Up
<1> QED  BY <1>1, ConsoleHolds, PTL

\* A number that strconv takes is one of which parseUint reads every digit.
LEMMA ParsedIs ==
  ASSUME NEW s \in Seq(Char), Parses(s)
  PROVE  parseUint(s) = ValueOf(s)
<1>1. ~\E k \in 1..Len(s) : s[k] = Other
  BY DEF Parses, Numeric
<1>2. SelectInSeq(s, LAMBDA c : c = Other) = 0
  BY <1>1 DEF SelectInSeq
<1>3. LeadingDigits(s) = s
  BY <1>2 DEF LeadingDigits
<1>4. Word \in Nat /\ ValueOf(s) \in 0..Word - 1
  BY MsinAssumption DEF Parses
<1> QED  BY <1>3, <1>4 DEF parseUint

\* Between commands MaxMSIN of mongo.go and that of fake.go find the same number, if
\* every stored MSIN is one that strconv takes.
THEOREM MaxMSINAgrees == ConsoleSpec => []SameMaxMSIN
<1>1. ASSUME ConsoleInv PROVE SameMaxMSIN
  <2> SUFFICES ASSUME Quiet, \A i \in DOMAIN recs \cap DOMAIN MsinOf : Parses(MsinOf[i])
               PROVE  MaxMSIN = MaxOfFake(Msins(DOMAIN recs))
    BY DEF SameMaxMSIN
  <2>1. \A j : Settled(j)
    BY <1>1, NothingRuns DEF ConsoleInv
  <2>2. Imsis(subs) \cup Imsis(suspended) = DOMAIN recs
    BY <2>1 DEF Settled, Known, Imsis, Docs
  <2> DEFINE M == Msins(DOMAIN recs)
  <2>3. \A s \in M : s \in Seq(Char) /\ Parses(s)
    BY ConsoleAssumption DEF Msins
  <2> HIDE DEF M
  <2>4. M \ {<<>>} = M /\ {t \in M : Parses(t)} = M
    BY <2>3 DEF Parses
  <2>5. {parseUint(s) : s \in M} = {ValueOf(s) : s \in M}
    BY <2>3, ParsedIs
  <2>6. MaxOfMongo(M) = MaxOfFake(M)
    BY <2>4, <2>5 DEF MaxOfMongo, MaxOfFake
  <2> QED  BY <2>2, <2>6 DEF MaxMSIN, M
<1> QED  BY <1>1, ConsoleHolds, PTL
==============================================================================
