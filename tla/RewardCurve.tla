---------------------------- MODULE RewardCurve ----------------------------
(***************************************************************************)
(* The inflation curve: what reward-curve's `build!` macro computes when   *)
(* the runtime is compiled, what reward-fn computes for one stake rate,    *)
(* and what inflation.rs makes of a curve at the end of an era.  The       *)
(* macro's loop is the state machine of this module, the rest is           *)
(* arithmetic on natural numbers; BigUint is as wide as its operands, so   *)
(* nothing overflows there.                                                *)
(*                                                                         *)
(* All fractions are in units of 1/Million, which is 10^6 in the code and  *)
(* small here; the constants of the code are scaled with it.  Checked with *)
(* TLC only.                                                               *)
(***************************************************************************)
EXTENDS Integers, SequencesExt

CONSTANTS
    Million,            \* MILLION
    Inputs,             \* the parameters of `curve!` that are tried
    TotalTokens,        \* the issuance a payout is computed for
    EraDurations,       \* the lengths of an era, in milliseconds
    MillisecondsPerYear,
    MaxTaylorTerms,     \* the most terms of the series (299)
    Tolerance           \* how far two computations of one value may differ

VARIABLES
    input,              \* INposInput
    points,             \* the points found so far
    delta_y,            \* the vertical step that is tried next
    y,                  \* the height of the last point
    status              \* "running", "done", or "panic"

vars == <<input, points, delta_y, y, status>>

-----------------------------------------------------------------------------
(***************************************************************************)
(* The parameters and their bounds.                                        *)
(***************************************************************************)

\* Bounds::check.
InBounds(b, value) ==
    /\ IF b.min_strict THEN value > b.min ELSE value >= b.min
    /\ IF b.max_strict THEN value < b.max ELSE value <= b.max

\* Parse for INposInput: what the macro accepts.
ParsedInput(i) ==
    LET within(min, strict, max) == [min |-> min, min_strict |-> strict,
                                     max |-> max, max_strict |-> FALSE]
    IN  /\ InBounds(within(0, TRUE, Million), i.min_inflation)
        /\ InBounds(within(i.min_inflation, TRUE, Million), i.max_inflation)
        /\ InBounds(within(Million \div 10, FALSE, (9 * Million) \div 10),
                    i.ideal_stake)
        /\ InBounds(within(Million \div 100, FALSE, Million), i.falloff)
        /\ InBounds(within(2, FALSE, 1000), i.max_piece_count)

-----------------------------------------------------------------------------
(***************************************************************************)
(* log.rs: log2(p / q) in units of 1/Million, by a Taylor series that ends *)
(* with the first term that rounds to zero.                                *)
(***************************************************************************)

\* _2_div_ln_2
TwoDivLn2 == (2885390 * Million) \div 1000000

\* taylor_term: every division rounds down.
TaylorTerm(k, num, den) ==
    LET res[j \in 1..k] ==
          IF j = 1 THEN (TwoDivLn2 * num^3) \div den^3
          ELSE (res[j - 1] * num^2) \div den^2
    IN  IF k = 0 THEN (TwoDivLn2 * num) \div den
        ELSE res[k] \div (2 * k + 1)

\* More terms than any p and q here have.
MaxTerms == 12

Log2(p, q) ==
    LET n == CHOOSE i \in 0..31 : q * 2^i <= p /\ p < q * 2^(i + 1)
        num == p - q * 2^n
        den == p + q * 2^n
        terms == Min({k \in 0..MaxTerms : TaylorTerm(k, num, den) = 0})
        sum[k \in 0..terms] ==
          IF k = 0 THEN n * Million
          ELSE sum[k - 1] + TaylorTerm(k - 1, num, den)
    IN  IF p = q THEN 0 ELSE sum[terms]

-----------------------------------------------------------------------------
(***************************************************************************)
(* compute_points.  The loop lowers the height by delta_y, or shortens     *)
(* delta_y for good when that would make the segment too long.  The        *)
(* subtractions are those of a u32: one that is negative stops the macro,  *)
(* by the overflow check or, where that is off, by log2's `p >= q`.        *)
(***************************************************************************)

\* compute_opposite_after_x_ideal, for a height above the minimum.
ComputeOppositeAfterXIdeal(i, height) ==
    i.ideal_stake
      + (i.falloff * Log2(i.max_inflation - i.min_inflation,
                          height - i.min_inflation)) \div Million

MaxLength(i) ==
    (i.max_inflation - i.min_inflation + Million - i.ideal_stake)
      \div (i.max_piece_count - 1)

Init ==
    \* with 10^6 units a segment is never shorter than 100 of them
    /\ input \in {i \in Inputs : ParsedInput(i) /\ MaxLength(i) > 0}
    /\ points = <<<<0, input.min_inflation>>,
                  <<input.ideal_stake, input.max_inflation>>>>
    /\ delta_y = MaxLength(input)
    /\ y = input.max_inflation
    /\ status = "running"

NextY == y - delta_y
NextX == ComputeOppositeAfterXIdeal(input, NextY)

Running == status = "running" /\ delta_y # 0

\* The height would reach the minimum: `continue` with a smaller step.
TooLow == NextY <= input.min_inflation

\* The segment would be longer than max_length.
TooLong == NextX - Last(points)[1] > MaxLength(input)

Panic ==
    /\ Running
    /\ NextY < 0
    /\ status' = "panic"
    /\ UNCHANGED <<input, points, delta_y, y>>

\* MUTANT: only a segment that is too long shortens the step.
ShortenTooLong ==
    /\ Running
    /\ NextY >= 0
    /\ ~TooLow /\ TooLong
    /\ delta_y' = delta_y - 1
    /\ UNCHANGED <<input, points, y, status>>

Shorten ==
    /\ Running
    /\ NextY >= 0
    /\ IF TooLow THEN TRUE ELSE TooLong
    /\ delta_y' = delta_y - 1
    /\ UNCHANGED <<input, points, y, status>>

Fits == Running /\ NextY >= 0 /\ ~(IF TooLow THEN TRUE ELSE TooLong)

\* MUTANT: the part of the fall is added to the point before the end.
HeightAtEndFromPrev(prev, next) ==
    prev[2] + ((next[1] - Million) * (prev[2] - next[2]))
                \div (next[1] - prev[1])

\* The height at x = Million on the segment that crosses it.
HeightAtEnd(prev, next) ==
    next[2] + ((next[1] - Million) * (prev[2] - next[2]))
                \div (next[1] - prev[1])

\* The point lies beyond the end: the curve is cut there.
CutAtEnd ==
    /\ Fits
    /\ NextX >= Million
    /\ points' = Append(points, <<Million, HeightAtEnd(Last(points),
                                                       <<NextX, NextY>>)>>)
    /\ status' = "done"
    /\ UNCHANGED <<input, delta_y, y>>

PushPoint ==
    /\ Fits
    /\ NextX < Million
    /\ points' = Append(points, <<NextX, NextY>>)
    /\ y' = NextY
    /\ UNCHANGED <<input, delta_y, status>>

\* No step is left: the last segment falls to the minimum.
Finish ==
    /\ status = "running"
    /\ delta_y = 0
    /\ points' = Append(points, <<Million, input.min_inflation>>)
    /\ status' = "done"
    /\ UNCHANGED <<input, delta_y, y>>

Next == Panic \/ Shorten \/ CutAtEnd \/ PushPoint \/ Finish

\* The compiler runs the macro to its end.
Spec == Init /\ [][Next]_vars /\ WF_vars(Next)

-----------------------------------------------------------------------------
(***************************************************************************)
(* Using a curve.  generate_piecewise_linear's Perbill points are the      *)
(* points themselves, in units of 1/Million.                               *)
(***************************************************************************)

\* part * n of a Perbill: the nearest unit, a half down.
Portion(part, n) ==
    (part * n) \div Million
      + (IF 2 * ((part * n) % Million) > Million THEN 1 ELSE 0)

\* PiecewiseLinear::calculate_for_fraction_times_denominator (sp_runtime):
\* the curve at n/d, times d.
CurveTimes(ps, n, d) ==
    LET m == IF n < d THEN n ELSE d
        beyond == {i \in DOMAIN ps : m < Portion(ps[i][1], d)}
        next == Min(beyond)
        prev == next - 1
        rise == ((m - Portion(ps[prev][1], d))
                   * (IF ps[next][2] > ps[prev][2]
                      THEN ps[next][2] - ps[prev][2]
                      ELSE ps[prev][2] - ps[next][2]))
                  \div (IF ps[next][1] = ps[prev][1] THEN 1
                        ELSE ps[next][1] - ps[prev][1])
        base == Portion(ps[prev][2], d)
    IN  IF beyond = {} THEN Portion(Last(ps)[2], d)
        ELSE IF ps[next][2] > ps[prev][2] THEN base + rise
        ELSE IF rise > base THEN 0 ELSE base - rise

\* The `maximum` of the generated curve.
Maximum(ps) == Max({ps[i][2] : i \in DOMAIN ps})

\* inflation.rs: the share of the year, of what the curve gives.
EraPortion(duration) ==
    IF duration >= MillisecondsPerYear THEN Million
    ELSE (duration * Million) \div MillisecondsPerYear

TotalPayout(ps, staked, tokens, duration) ==
    Portion(EraPortion(duration), CurveTimes(ps, staked, tokens))

MaximumPayout(ps, tokens, duration) ==
    Portion(EraPortion(duration), Portion(Maximum(ps), tokens))

-----------------------------------------------------------------------------
(***************************************************************************)
(* reward-fn: the curve at one stake rate, without the macro.              *)
(***************************************************************************)

\* div_by_stripped: the branch for operands of equal length multiplies by
\* 10^10 and divides it out again, which rounds down to the same quotient.
DivByStripped(a, b) == IF b = 0 THEN 0 ELSE a \div b

\* LN2, as a fraction.
Ln2 == (693147 * Million) \div 1000000

\* compute_taylor_term: from the term before it.
ComputeTaylorTerm(k, previous, over, ln2_div_d) ==
    DivByStripped(DivByStripped((previous * over * ln2_div_d) \div k,
                                Million), Million)

\* compute_taylor_serie_part: the sum and its sign, ended by the first term
\* that is zero.
ComputeTaylorSeriePart(over, ln2_div_d) ==
    LET add(s, k, term) ==
          IF s.positive = (k % 2 = 0)
          THEN [s EXCEPT !.sum = @ + term]
          ELSE IF s.sum >= term THEN [s EXCEPT !.sum = @ - term]
          ELSE [positive |-> ~s.positive, sum |-> term - s.sum]
        f[k \in 0..MaxTaylorTerms] ==
          IF k = 0
          THEN [last |-> Million, acc |-> [positive |-> TRUE, sum |-> Million]]
          ELSE LET before == f[k - 1]
                   term == ComputeTaylorTerm(k, before.last, over, ln2_div_d)
               IN  IF before.last = 0 THEN before
                   ELSE IF term = 0 THEN [before EXCEPT !.last = 0]
                   ELSE [last |-> term, acc |-> add(before.acc, k, term)]
        total == f[MaxTaylorTerms].acc
    IN  IF total.positive THEN total.sum ELSE 0

\* MUTANT: the decay does not depend on the falloff.
ComputeInflationNoFalloff(stake, ideal_stake, falloff) ==
    IF stake < ideal_stake THEN (stake * Million) \div ideal_stake
    ELSE ComputeTaylorSeriePart(stake - ideal_stake, Ln2)

\* compute_inflation: the share of the inflation's range at one stake rate.
ComputeInflation(stake, ideal_stake, falloff) ==
    IF stake < ideal_stake THEN (stake * Million) \div ideal_stake
    ELSE IF falloff < Million \div 100 THEN 0
    ELSE LET res == ComputeTaylorSeriePart(
                      stake - ideal_stake,
                      DivByStripped(Ln2 * Million, falloff))
         IN  IF res <= Million THEN res ELSE 0

-----------------------------------------------------------------------------
(***************************************************************************)
(* Properties.                                                             *)
(***************************************************************************)

Difference(a, b) == IF a >= b THEN a - b ELSE b - a

\* At every step of the loop the points go from left to right, rise to the
\* ideal stake and fall after it, and stay between the two inflations.  No
\* stake and no era length then make the payout of the finished curve exceed
\* the maximum payout that compute_total_payout returns with it.
CurveIsSound ==
    /\ \A i \in 1..(Len(points) - 1) :
         /\ points[i][1] <= points[i + 1][1]
         /\ i > 1 => points[i][2] >= points[i + 1][2]
    /\ \A i \in DOMAIN points :
         /\ points[i][1] \in 0..Million
         /\ points[i][2] \in input.min_inflation..input.max_inflation
    /\ status = "done" =>
         \A staked \in 0..TotalTokens, duration \in EraDurations :
           TotalPayout(points, staked, TotalTokens, duration)
             <= MaximumPayout(points, TotalTokens, duration)

\* The curve at a stake rate and reward-fn's series, two computations of the
\* same inflation by different means.
AgreesAt(ps, x) ==
    Difference(CurveTimes(ps, x, Million),
               input.min_inflation
                 + Portion(ComputeInflation(x, input.ideal_stake,
                                            input.falloff),
                           input.max_inflation - input.min_inflation))
      <= Tolerance + MaxLength(input)
           + (2 * input.falloff) \div MaxLength(input)

\* The curve that the macro ends with and reward-fn agree for every stake
\* rate: up to rounding, to the height of a segment, and to how high the curve
\* may still be where no step of one unit fits and the last segment begins
\* (falloff / ln 2 / MaxLength).
CurveAgreesWithInflation ==
    [][status # "done" /\ status' = "done" =>
         \A x \in 0..Million : AgreesAt(points', x)]_vars

\* The loop ends for every input the macro accepts.
MacroEnds == <>(status \in {"done", "panic"})
=============================================================================
