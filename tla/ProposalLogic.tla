--------------------------- MODULE ProposalLogic ---------------------------
(***************************************************************************)
(* The proposal rules of internal/core/proposal_logic.go and the arithmetic *)
(* of a journal line.                                                      *)
(*                                                                         *)
(* Decimals are scaled integers: an amount counts AmtUnit-ths of a cent,   *)
(* an exchange rate counts RateUnit-ths.  The base amount of a line is the *)
(* exact product amount * rate, in (AmtUnit * RateUnit)-ths of a cent; the *)
(* columns debit_base and credit_base are NUMERIC(14,2), so PostgreSQL     *)
(* rounds it to whole cents, half away from zero, line by line.            *)
(*                                                                         *)
(* Text is abstracted to what the code tells apart: a field that is empty  *)
(* or reads "null" is Blank, one that does not parse as the number or date *)
(* it should be is Malformed, and the two spellings of a zero rate that    *)
(* Normalize recognises are the number 0, while another spelling ("0.00")  *)
(* is OtherZero.                                                           *)
(***************************************************************************)
EXTENDS Decimals, Sequences, SequencesExt

CONSTANTS
  AmtUnit,   \* amount units in one cent
  RateUnit,  \* rate units in the rate 1.0
  Blank,     \* an empty or "null" amount, rate, date or code
  Malformed, \* a text that is no number or no date
  OtherZero  \* a zero rate spelled otherwise than "0" or "0.0"

ASSUME UnitAssumption == AmtUnit \in Nat \ {0} /\ RateUnit \in Nat \ {0}

\* What a caller may submit as numbers: any amount, any rate, any lines.
ProposalNumbers(p) ==
  /\ p.rate \in Int \cup {Blank, Malformed, OtherZero}
  /\ Len(p.lines) \in Nat /\ DOMAIN p.lines = 1 .. Len(p.lines)
  /\ \A i \in DOMAIN p.lines :
       p.lines[i].debit \in BOOLEAN /\ p.lines[i].amt \in Int \cup {Blank, Malformed}

(***************************************************************************)
(* Normalize: a missing rate, or a rate written 0, becomes 1.0; a missing  *)
(* amount becomes 0.00; a missing document date becomes the posting date.  *)
(***************************************************************************)
NormalRate(r) == IF r \in {Blank, 0} THEN RateUnit ELSE r
NormalAmount(a) == IF a = Blank THEN 0 ELSE a

Normalize(p) ==
  [p EXCEPT !.rate = NormalRate(p.rate),
            !.docDate = IF p.docDate = Blank THEN p.postDate ELSE p.docDate,
            !.lines = [i \in DOMAIN p.lines |->
                         [p.lines[i] EXCEPT !.amt = NormalAmount(p.lines[i].amt)]]]

(***************************************************************************)
(* Validate.  Totals are exact: Validate adds the unrounded products.      *)
(***************************************************************************)
ExactBase(l, rate) == l.amt * rate

ExactTotal(lines, rate, isDebit) ==
  FoldSeq(LAMBDA l, sum : sum + IF l.debit = isDebit THEN ExactBase(l, rate) ELSE 0,
          0, lines)

ExactlyBalanced(p) ==
  ExactTotal(p.lines, p.rate, TRUE) = ExactTotal(p.lines, p.rate, FALSE)

\* Mutant of Validate: the balance check is missing.
ValidateUnbalanced(p) ==
  /\ Blank \notin {p.type, p.company, p.currency, p.postDate}
  /\ p.rate \notin {Blank, Malformed, OtherZero} /\ p.rate > 0
  /\ Len(p.lines) >= 2
  /\ \A i \in DOMAIN p.lines :
       p.lines[i].amt \notin {Blank, Malformed} /\ p.lines[i].amt > 0

\* Mutant of Validate: it refuses negative amounts only.
ValidateZero(p) ==
  /\ Blank \notin {p.type, p.company, p.currency, p.postDate}
  /\ Malformed \notin {p.postDate, p.docDate}
  /\ p.rate \notin {Blank, Malformed, OtherZero} /\ p.rate > 0
  /\ Len(p.lines) >= 2
  /\ \A i \in DOMAIN p.lines :
       p.lines[i].amt \notin {Blank, Malformed} /\ p.lines[i].amt >= 0
  /\ ExactlyBalanced(p)

Validate(p) ==
  /\ Blank \notin {p.type, p.company, p.currency, p.postDate}
  /\ Malformed \notin {p.postDate, p.docDate}
  /\ p.rate \notin {Blank, Malformed, OtherZero} /\ p.rate > 0
  /\ Len(p.lines) >= 2
  /\ \A i \in DOMAIN p.lines :
       p.lines[i].amt \notin {Blank, Malformed} /\ p.lines[i].amt > 0
  /\ ExactlyBalanced(p)

(***************************************************************************)
(* The rows executeCore writes: the base amount goes to the debit or the   *)
(* credit column and is rounded to whole cents there.                      *)
(***************************************************************************)
\* Mutant of StoredBase: the base amount is computed from the amount column,
\* which is already rounded.
StoredBaseTwice(l, rate) == RoundTo(RoundTo(l.amt, AmtUnit) * rate, RateUnit)

StoredBase(l, rate) == RoundTo(ExactBase(l, rate), AmtUnit * RateUnit)

StoredLine(l, rate) ==
  [acct   |-> l.acct,
   amt    |-> RoundTo(l.amt, AmtUnit),
   debit  |-> IF l.debit THEN StoredBase(l, rate) ELSE 0,
   credit |-> IF l.debit THEN 0 ELSE StoredBase(l, rate)]

StoredLines(p) == [i \in DOMAIN p.lines |-> StoredLine(p.lines[i], p.rate)]

\* Mutants of InvertedLine: the same line again, or with the signs changed.
SameLine(l) == l
NegatedLine(l) == [l EXCEPT !.debit = -l.debit, !.credit = -l.credit]

\* The inverted copy a reversal inserts for a stored line.
InvertedLine(l) == [l EXCEPT !.debit = l.credit, !.credit = l.debit]

(***************************************************************************)
(* What a set of stored lines adds up to.                                  *)
(***************************************************************************)
DebitTotal(lines)  == FoldSeq(LAMBDA l, sum : sum + l.debit, 0, lines)
CreditTotal(lines) == FoldSeq(LAMBDA l, sum : sum + l.credit, 0, lines)
=============================================================================
