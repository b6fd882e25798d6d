------------------------------- MODULE Telcoctl -------------------------------
(***************************************************************************)
(* telcoctl (cmd/telcoctl/main.go): from the line an operator types to the  *)
(* HTTP request that the client (internal/api/client.go) sends.             *)
(*                                                                          *)
(* A line is the command and a sequence of words.  Flags are taken out of   *)
(* it one by one, wherever they stand; the words that are left are the      *)
(* positional arguments.                                                    *)
(***************************************************************************)
EXTENDS Naturals, SequencesExt

\* Every other word of an instance is taken not to begin with a dash.
Flags == {"--reason", "--note", "--json", "--count", "--apn", "--write-ue-conf",
          "--imsi", "--ki", "--opc", "--dl", "--ul", "--clear"}

Dashed(word) == word \in Flags

\* No value, no address, no positional argument.
None == ""

\* The words at these positions, in order.
Words(args, keep(_)) ==
  LET at == SelectSeq([k \in DOMAIN args |-> k], keep)
  IN [k \in DOMAIN at |-> args[at[k]]]

IsValueOf(args, flag, k) ==
  k > 1 /\ args[k - 1] = flag /\ args[k] # None /\ ~Dashed(args[k])

\* Wrong: the value of a flag is read and not taken out.
popFlagLeaving(args, flag) ==
  LET values == Words(args, LAMBDA k : IsValueOf(args, flag, k))
  IN [val |-> IF values = <<>> THEN None ELSE Last(values),
      present |-> Contains(args, flag),
      rest |-> Words(args, LAMBDA k : args[k] # flag)]

\* A flag takes the next word as its value unless that is another flag or empty;
\* given twice, the last value counts.
popFlag(args, flag) ==
  LET values == Words(args, LAMBDA k : IsValueOf(args, flag, k))
  IN [val |-> IF values = <<>> THEN None ELSE Last(values),
      present |-> Contains(args, flag),
      rest |-> Words(args, LAMBDA k : args[k] # flag /\ ~IsValueOf(args, flag, k))]

arg0(a) == IF a # <<>> THEN a[1] ELSE None

\* With one argument only, the second is the first.
arg1(a) == IF Len(a) > 1 THEN a[2] ELSE arg0(a)

NoRequest == [op |-> None, imsi |-> None, reason |-> None,
              keys |-> FALSE, dl |-> None, ul |-> None, ip |-> None]

\* What main sends for a line: --reason, --note and --json are taken out first
\* whatever the command, then the command's own flags in the order of the code.
\* Notes, counts and APNs do not matter to the store, nor do the keys but for being
\* there.
main(cmd, line) ==
  LET reason == popFlag(line, "--reason")
      note == popFlag(reason.rest, "--note")
      json == popFlag(note.rest, "--json")
      imsi == popFlag(json.rest, "--imsi")
      ki == popFlag(imsi.rest, "--ki")
      opc == popFlag(ki.rest, "--opc")
      dl == popFlag(json.rest, "--dl")
      ul == popFlag(dl.rest, "--ul")
      clear == popFlag(json.rest, "--clear")
      sent == [NoRequest EXCEPT !.op = cmd, !.reason = reason.val]
  IN CASE cmd \in {"remove", "get", "history"} ->
            [NoRequest EXCEPT !.op = cmd, !.imsi = arg0(json.rest)]
       [] cmd = "list" -> [NoRequest EXCEPT !.op = cmd]
       [] cmd = "issue-sim" -> sent
       [] cmd = "add" -> [sent EXCEPT !.imsi = imsi.val,
                                      !.keys = ki.val # None /\ opc.val # None]
       [] cmd \in {"suspend", "resume"} -> [sent EXCEPT !.imsi = arg0(json.rest)]
       [] cmd = "set-plan" -> [sent EXCEPT !.imsi = arg0(ul.rest),
                                           !.dl = dl.val, !.ul = ul.val]
       [] cmd = "set-ip" ->
            [sent EXCEPT !.imsi = arg0(clear.rest),
                         !.ip = IF clear.present THEN None ELSE arg1(clear.rest)]

-----------------------------------------------------------------------------
(* The lines of usage(): of a command, its positional words, its flags in the     *)
(* order of the text, and the request that the operator means; a set-ip without   *)
(* an address means none.                                                         *)

Commands == {"issue-sim", "add", "suspend", "resume", "set-plan", "set-ip", "get",
             "remove", "list"}

Form(positional, flags, meant) ==
  [positional |-> positional, flags |-> flags, meant |-> meant]

Usage(cmd, imsis, reasons, plans, addresses) ==
  LET Plain(i) == [NoRequest EXCEPT !.op = cmd, !.imsi = i]
      For(i, w) == [Plain(i) EXCEPT !.reason = w]
      Why(w) == <<"--reason", w>>
  IN CASE cmd = "issue-sim" -> {Form(<<>>, <<Why(w)>>, For(None, w)) : w \in reasons}
       [] cmd = "add" ->
            {Form(<<>>, <<<<"--imsi", i>>, <<"--ki", "k">>, <<"--opc", "o">>, Why(w)>>,
                  [For(i, w) EXCEPT !.keys = TRUE]) : i \in imsis, w \in reasons}
       [] cmd \in {"suspend", "resume"} ->
            {Form(<<i>>, <<Why(w), <<"--note", "n">>>>, For(i, w)) :
               i \in imsis, w \in reasons}
       [] cmd = "set-plan" ->
            {Form(<<i>>, <<<<"--dl", p.dl>>, <<"--ul", p.ul>>, Why(w)>>,
                  [For(i, w) EXCEPT !.dl = p.dl, !.ul = p.ul]) :
               i \in imsis, p \in plans, w \in reasons}
       [] cmd = "set-ip" ->
                 {Form(<<i, a>>, <<Why(w)>>, [For(i, w) EXCEPT !.ip = a]) :
                    i \in imsis, a \in addresses, w \in reasons}
            \cup {Form(<<i>>, <<<<"--clear">>, Why(w)>>, For(i, w)) :
                    i \in imsis, w \in reasons}
            \cup {Form(<<i>>, <<Why(w)>>, NoRequest) : i \in imsis, w \in reasons}
       [] cmd = "get" -> {Form(<<i>>, <<<<"--json">>>>, Plain(i)) : i \in imsis}
       [] cmd = "remove" -> {Form(<<i>>, <<>>, Plain(i)) : i \in imsis}
       [] cmd = "list" -> {Form(<<>>, <<<<"--json">>>>, Plain(None))}

\* The lines of a form: the positional words stand anywhere between the flags.
Lines(form) ==
  {FlattenSeq(InsertAt(form.flags, k, form.positional)) : k \in 1..Len(form.flags) + 1}

\* A flag that wants no value takes a positional word for one, even from behind
\* other flags, which are taken out before it.
Bare == {"--json", "--clear"}

Positional(line, k) ==
  ~Dashed(line[k]) /\ (k > 1 => line[k - 1] \notin Flags \ Bare)

Swallows(line) ==
  \E j, k \in DOMAIN line : j < k /\ line[j] \in Bare /\ Positional(line, k)
==============================================================================
