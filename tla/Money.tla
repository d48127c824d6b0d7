------------------------------- MODULE Money --------------------------------
(***************************************************************************)
(* money.py: amounts as whole units and billionths of a unit (nanos) of    *)
(* the same sign, added up in 64-bit fields.  A running total takes one    *)
(* amount after the other, with allow_overflow or without.                 *)
(*                                                                         *)
(* One currency.  Billion and Int64Max are constants, so that the boundary *)
(* cases fit a small instance.                                             *)
(***************************************************************************)
EXTENDS Integers

CONSTANTS
  Billion,    \* nanos in a unit
  Int64Max,   \* the largest units field
  Amounts     \* the amounts that are added, [units, nanos]

\* check_valid: what an amount must be.
Valid64(u) == u \in (-Int64Max - 1)..Int64Max
Agree(u, n) == ~(u > 0 /\ n < 0) /\ ~(u < 0 /\ n > 0)
ValidMoney(m) == /\ Valid64(m.units) /\ Agree(m.units, m.nanos)
                 /\ m.nanos \in (1 - Billion)..(Billion - 1)

ASSUME MoneyAssumption ==
  /\ Billion \in Nat \ {0, 1} /\ Int64Max \in Nat \ {0}
  /\ \A m \in Amounts : ValidMoney(m)

VARIABLES
  total,      \* the Money that holds the sum
  exact,      \* history: the sum itself, in nanos
  outcome     \* history: what the last add did

moneyVars == <<total, exact, outcome>>

InNanos(m) == m.units * Billion + m.nanos

\* _sum_nanos: a sum of exactly one billion is not carried, minus one is.
Carry(n) == IF n > Billion THEN 1 ELSE IF n <= -Billion THEN -1 ELSE 0

\* Mutant of Adjusted: units above zero are not adjusted.
AdjustedBelow(u, n) ==
  IF u < 0 /\ n > 0 THEN [units |-> u + 1, nanos |-> n - Billion]
  ELSE [units |-> u, nanos |-> n]

\* The adjustment of a sum whose parts have different signs.
Adjusted(u, n) ==
  IF u > 0 /\ n < 0 THEN [units |-> u - 1, nanos |-> n + Billion]
  ELSE IF u < 0 /\ n > 0 THEN [units |-> u + 1, nanos |-> n - Billion]
  ELSE [units |-> u, nanos |-> n]

\* _sign_of.
Sign(m) == IF InNanos(m) > 0 THEN 1 ELSE IF InNanos(m) < 0 THEN -1 ELSE 0

Sum64(a, b) ==
  LET n == a.nanos + b.nanos
  IN Adjusted(a.units + b.units + Carry(n), n - Carry(n) * Billion)

OverflowsUp(a, b) ==
  Sign(a) > 0 /\ Sign(b) > 0 /\ Sum64(a, b).units >= Int64Max

OverflowsDown(a, b) ==
  /\ Sign(a) < 0 /\ Sign(b) < 0
  /\ a.units + b.units <= -Int64Max \/ Sum64(a, b).units <= -Int64Max

Largest == [units |-> Int64Max, nanos |-> Billion - 1]
Smallest == [units |-> -Int64Max - 1, nanos |-> 1 - Billion]

\* add, when it does not overflow; a result beyond 64 bits raises ValueError.
AddExactly(m) ==
  /\ ~OverflowsUp(total, m) /\ ~OverflowsDown(total, m)
  /\ Valid64(Sum64(total, m).units)
  /\ total' = Sum64(total, m)
  /\ exact' = exact + InNanos(m)
  /\ outcome' = "added"

\* add without allow_overflow raises OverflowError.
Overflow(m) ==
  /\ OverflowsUp(total, m) \/ OverflowsDown(total, m)
  /\ outcome' = IF OverflowsUp(total, m) THEN "above" ELSE "below"
  /\ exact' = exact + InNanos(m)
  /\ UNCHANGED total

\* add with allow_overflow: the largest or the smallest value.
Saturate(m) ==
  /\ OverflowsUp(total, m) \/ OverflowsDown(total, m)
  /\ outcome' = IF OverflowsUp(total, m) THEN "above" ELSE "below"
  /\ total' = IF OverflowsUp(total, m) THEN Largest ELSE Smallest
  /\ exact' = exact + InNanos(m)

MoneyInit ==
  /\ total \in Amounts
  /\ exact = InNanos(total)
  /\ outcome = "added"

\* A behaviour ends with the first overflow.
MoneyNext ==
  \E m \in Amounts :
    outcome = "added" /\ (AddExactly(m) \/ Overflow(m) \/ Saturate(m))

MoneySpec == MoneyInit /\ [][MoneyNext]_moneyVars

-----------------------------------------------------------------------------
\* Whatever amounts are added, of whatever signs, the total is their exact sum
\* with parts of one sign.  An overflow is only reported in its own direction, at
\* a sum within a unit of the limit or past it: the carry, the adjustment and the
\* overflow tests of add() fit together.
SumExact ==
  CASE outcome = "added" -> InNanos(total) = exact /\ Agree(total.units, total.nanos)
    [] outcome = "above" -> exact >= Int64Max * Billion
    [] outcome = "below" -> exact <= (1 - Int64Max) * Billion

\* The sum of valid amounts is one that check_valid accepts: its nanos are
\* "between -999999999 and 999999999".  Nanos that add up to a billion are not
\* carried, and are not.
SumValid == ValidMoney(total)
=============================================================================
