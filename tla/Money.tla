------------------------------- MODULE Money -------------------------------
(***************************************************************************)
(* Amounts (money/money.go): reading them at a currency's scale, rounding, *)
(* rounding to a cash unit, and splitting a total by weights.              *)
(*                                                                         *)
(* A decimal is [coef, places], worth coef / 10^places.  The text of a     *)
(* decimal, its 38 digits and the precision of the quotient of RoundCash   *)
(* (80 digits) are left out.  Weights are whole: only their ratios count.  *)
(***************************************************************************)
EXTENDS Integers, FiniteSets, FiniteSetsExt, Sequences, SequencesExt

CONSTANT Scenarios   \* requests

VARIABLES
    scenario,   \* the request
    outcome     \* [at: "asked", "answered" or "refused", value]

mvars == <<scenario, outcome>>

Answer(v) == [at |-> "answered", value |-> v]
Refused == [at |-> "refused", value |-> 0]
Modes == {"half_away_from_zero", "half_even"}
Abs(n) == IF n < 0 THEN -n ELSE n

\* n / d to a whole number: the magnitude is rounded, a half up or to the even neighbour.
rounder(n, d, mode) ==
    LET q == Abs(n) \div d
        twice == 2 * (Abs(n) % d)
        up == twice > d \/ (twice = d /\ (mode = "half_even" => q % 2 = 1))
        m == IF up THEN q + 1 ELSE q
    IN  IF n < 0 THEN -m ELSE m

Round(d, scale, mode) == [coef |-> rounder(d.coef * 10 ^ scale, 10 ^ d.places, mode), places |-> scale]

Worth(d, e) == d.coef * 10 ^ e.places = e.coef * 10 ^ d.places

\* More significant places than the scale are refused.
ParseAmount(d, scale) ==
    LET r == Round(d, scale, "half_away_from_zero") IN IF Worth(r, d) THEN Answer(r) ELSE Refused

RoundCash(d, unit, scale, mode) ==
    LET q == rounder(d.coef * 10 ^ unit.places, unit.coef * 10 ^ d.places, mode)
    IN  IF unit.coef <= 0 THEN Refused
        ELSE Answer(Round([coef |-> q * unit.coef, places |-> unit.places], scale, mode))

Weight(ws) == FoldFunctionOnSet(LAMBDA a, b : a + b, 0, ws, DOMAIN ws)

\* n units by the weights ws; the units left go to the largest remainders, to the earlier part of two equal ones.
largestRemainder(n, ws) ==
    LET base == [i \in DOMAIN ws |-> (n * ws[i]) \div Weight(ws)]
        rem == [i \in DOMAIN ws |-> (n * ws[i]) % Weight(ws)]
        order == SetToSortSeq(DOMAIN ws, LAMBDA i, j : rem[i] > rem[j] \/ (rem[i] = rem[j] /\ i < j))
        left == n - Weight(base)
    IN  [i \in DOMAIN ws |-> base[i] + (IF \E k \in 1 .. left : order[k] = i THEN 1 ELSE 0)]

\* The parts in minor units (10^-scale).
Allocate(total, ws, scale) ==
    LET units == Abs(total.coef) * 10 ^ scale
        parts == largestRemainder(units \div 10 ^ total.places, ws)
    IN  IF units % 10 ^ total.places # 0 \/ (\E i \in DOMAIN ws : ws[i] < 0) \/ Weight(ws) = 0 THEN Refused
        ELSE Answer([i \in DOMAIN ws |-> IF total.coef < 0 THEN -parts[i] ELSE parts[i]])

-----------------------------------------------------------------------------
(* The requests.                                                           *)

Asked(op) == scenario.op = op /\ outcome.at = "asked" /\ UNCHANGED scenario

Parses == Asked("parse") /\ outcome' = ParseAmount(scenario.d, scenario.scale)
Rounds == Asked("round") /\ outcome' = Answer(Round(scenario.d, scenario.scale, scenario.mode))
RoundsCash == Asked("cash") /\ outcome' = RoundCash(scenario.d, scenario.unit, scenario.scale, scenario.mode)
Allocates == Asked("allocate") /\ outcome' = Allocate(scenario.d, scenario.weights, scenario.scale)

Init == scenario \in Scenarios /\ outcome = [at |-> "asked", value |-> 0]
Next == Parses \/ Rounds \/ RoundsCash \/ Allocates
Spec == Init /\ [][Next]_mvars

-----------------------------------------------------------------------------
(* Properties.                                                             *)

Answered(op) == scenario.op = op /\ outcome.at = "answered"

\* How far the parts of n units are from the exact shares, in all.
Error(n, ws, parts) ==
    Weight([i \in DOMAIN ws |-> Abs(parts[i] * Weight(ws) - n * ws[i])])

\* The parts of a split sum exactly to the total, each within a unit of its exact share, and no other split of the
\* total into whole units is nearer to the shares; of equal weights the earlier part is not the smaller, and a negative
\* total is split like its magnitude (Allocate, largestRemainder).
SplitIsExactAndFair == Answered("allocate") =>
    LET ws == scenario.weights
        n == (Abs(scenario.d.coef) * 10 ^ scenario.scale) \div 10 ^ scenario.d.places
        parts == [i \in DOMAIN ws |-> IF scenario.d.coef < 0 THEN -outcome.value[i] ELSE outcome.value[i]]
    IN  /\ Weight(parts) = n
        /\ \A i \in DOMAIN ws : Abs(parts[i] * Weight(ws) - n * ws[i]) < Weight(ws)
        /\ \A p \in [DOMAIN ws -> 0 .. n] : Weight(p) = n => Error(n, ws, parts) <= Error(n, ws, p)
        /\ \A i, j \in DOMAIN ws : i < j /\ ws[i] = ws[j] => parts[i] >= parts[j]

\* r is a multiple of step nearest to d (numerators over one denominator), of two the one the mode names.
Nearest(r, d, step, mode) ==
    /\ r % step = 0 /\ 2 * Abs(r - d) <= step
    /\ 2 * Abs(r - d) = step =>
        IF mode = "half_even" THEN (r \div step) % 2 = 0 ELSE Abs(r) > Abs(d)

\* A rounded amount is the nearest at its scale, a cash amount the nearest whole multiple of the unit where the unit
\* is exact at the scale, ties by the mode, for negative amounts as for positive ones; an amount that is read is worth
\* what was written, and is refused only when it is not exact at the scale (Round, RoundCash, ParseAmount).
RoundsToNearest ==
    LET whole == 10000   \* every request's places and scale are at most 4
        num(d) == d.coef * (whole \div 10 ^ d.places)
        minor == whole \div 10 ^ scenario.scale
    IN  /\ Answered("round") => Nearest(num(outcome.value), num(scenario.d), minor, scenario.mode)
        /\ Answered("cash") /\ num(scenario.unit) % minor = 0 =>
            Nearest(num(outcome.value), num(scenario.d), num(scenario.unit), scenario.mode)
        /\ scenario.op = "parse" /\ outcome.at # "asked" =>
            IF num(scenario.d) % minor = 0 THEN outcome.at = "answered" /\ num(outcome.value) = num(scenario.d) ELSE outcome = Refused
=============================================================================
