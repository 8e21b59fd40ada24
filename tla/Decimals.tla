------------------------------ MODULE Decimals ------------------------------
(***************************************************************************)
(* Decimals as scaled integers, and what storing one does to it.  A column  *)
(* of the database (src/migrations) is NUMERIC(p, s): PostgreSQL rounds      *)
(* what it is given to s decimals, half away from zero, where the services   *)
(* compute with exact decimals.                                            *)
(***************************************************************************)
EXTENDS Integers

\* A number that is not negative, in units of unit, to the nearest integer.
RoundTo(x, unit) == (2 * x + unit) \div (2 * unit)

Rounded(x, unit) == IF x < 0 THEN -RoundTo(-x, unit) ELSE RoundTo(x, unit)

\* What a column of multiples of step stores for x.
Column(x, step) == Rounded(x, step) * step
=============================================================================
