----------------------------- MODULE FakeRecords -----------------------------
(***************************************************************************)
(* The in-memory Store of the unit tests (internal/store/fake.go): what     *)
(* each operation makes of its map of records.  A mutex makes every one of  *)
(* them a single step.  It keeps no last action on a record.                *)
(***************************************************************************)
EXTENDS Functions, FiniteSets, Sequences, Naturals

Insert(recs, i, ambr, ip) ==
  [j \in DOMAIN recs \cup {i} |->
     IF j = i THEN [barred |-> FALSE, ambr |-> ambr, ip |-> ip] ELSE recs[j]]

Delete(recs, i) == Restrict(recs, DOMAIN recs \ {i})

\* Get and mutate answer ErrNotFound for an unknown IMSI and then change nothing.
Known(recs, i) == i \in DOMAIN recs

mutate(recs, i, Fn(_)) ==
  IF Known(recs, i) THEN [recs EXCEPT ![i] = Fn(@)] ELSE recs

SetStatus(recs, i, barred) == mutate(recs, i, LAMBDA r : [r EXCEPT !.barred = barred])
SetAMBR(recs, i, ambr) == mutate(recs, i, LAMBDA r : [r EXCEPT !.ambr = ambr])
SetStaticIP(recs, i, ip) == mutate(recs, i, LAMBDA r : [r EXCEPT !.ip = ip])

\* The records that Get and List return, by IMSI.
Get(recs, i) == Restrict(recs, DOMAIN recs \cap {i})
List(recs) == recs

\* The entries of one subscriber, in their order.
History(entries, i) ==
  LET first[n \in 0..Len(entries)] ==
        IF n = 0 THEN <<>>
        ELSE IF entries[n].imsi = i THEN Append(first[n - 1], entries[n]) ELSE first[n - 1]
  IN first[Len(entries)]
==============================================================================
