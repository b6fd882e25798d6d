--------------------------------- MODULE Msin ---------------------------------
(***************************************************************************)
(* The numbers in an IMSI: how the largest MSIN is found among the stored   *)
(* subscribers (parseUint of internal/store/mongo.go, strconv.ParseUint in  *)
(* internal/store/fake.go) and how the next one is written (nextIMSI of     *)
(* internal/api/server.go).                                                 *)
(*                                                                          *)
(* An MSIN is the part of an IMSI after the operator's prefix, a sequence   *)
(* of characters.  The code has base 10, 10 digits and words of 64 bits;    *)
(* an instance scales them down.  `add` checks neither length nor digits.   *)
(***************************************************************************)
EXTENDS Naturals, SequencesExt

CONSTANTS
  Base,  \* digits are 0..Base-1
  Width, \* the digits of an MSIN in an IMSI of full length
  Word   \* arithmetic is modulo this

ASSUME MsinAssumption ==
  /\ {Base, Width, Word} \subseteq Nat
  /\ Base > 1 /\ Width > 0 /\ Base^Width < Word

\* A character that is no digit.
Other == Base

Char == 0..Other

Numeric(s) == \A k \in DOMAIN s : s[k] # Other

LeadingDigits(s) ==
  LET k == SelectInSeq(s, LAMBDA c : c = Other)
  IN IF k = 0 THEN s ELSE SubSeq(s, 1, k - 1)

ValueOf(digits) == FoldLeft(LAMBDA n, c : n * Base + c, 0, digits)

\* Stops at the first character that is no digit, and wraps.
parseUint(s) == ValueOf(LeadingDigits(s)) % Word

\* strconv.ParseUint: an error for anything but a number that fits a word.
Parses(s) == s # <<>> /\ Numeric(s) /\ ValueOf(s) \in 0..Word - 1

Largest(numbers) == Max({0} \cup numbers)

MaxOfMongo(msins) == Largest({parseUint(s) : s \in msins \ {<<>>}})

MaxOfFake(msins) == Largest({ValueOf(s) : s \in {t \in msins : Parses(t)}})

\* Printf("%0*d"): at least Width digits, more if the number has more.
Padded(n) ==
  LET w == Max({Width} \cup {u \in 1..Word : Base^(u - 1) <= n})
  IN [k \in 1..w |-> (n \div Base^(w - k)) % Base]

\* Wrong: the largest MSIN is taken for the first free one.
nextMsinSame(max) == Padded(max)

\* nextIMSI: imsiBase is the MSIN 0.
nextMsin(max) == Padded((max + 1) % Word)
==============================================================================
