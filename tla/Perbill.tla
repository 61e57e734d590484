------------------------------ MODULE Perbill ------------------------------
(***************************************************************************)
(* The fixed-point fractions of sp_arithmetic, as the staking pallet uses  *)
(* them: Perbill::from_rational rounds down, multiplying an amount by a    *)
(* Perbill rounds to the nearest unit, a half down.                        *)
(***************************************************************************)
EXTENDS Integers

CONSTANT Accuracy     \* parts of one: 10^9 for a Perbill

ASSUME PerbillAssumption == Accuracy \in Nat \ {0}

Parts == 0..Accuracy

\* Perbill::from_rational(p, q): p is capped by q, and q is at least one.
FromRational(p, q) ==
    IF q = 0 THEN IF p = 0 THEN 0 ELSE Accuracy
    ELSE IF p >= q THEN Accuracy
    ELSE (p * Accuracy) \div q

\* part * x, rounded to the nearest unit (Rounding::NearestPrefDown).
MulNearest(part, x) ==
    (part * x) \div Accuracy
      + (IF 2 * ((part * x) % Accuracy) > Accuracy THEN 1 ELSE 0)
=============================================================================
