------------------------------ MODULE Figures ------------------------------
(***************************************************************************)
(* Figures that may be missing, and how the code rounds them: Decimal's    *)
(* quantize is half-even unless ROUND_HALF_UP is asked for.  A rate is     *)
(* counted in the unit it is rounded to (hundredths of a percent, ...).    *)
(***************************************************************************)
EXTENDS Integers, Sequences, FiniteSets, SequencesExt

None == -1000000 \* no figure (no price, no number of rooms, no change)

Known(S) == S \ {None}
LeastOf(S) == IF Known(S) = {} THEN None ELSE Min(Known(S))
GreatestOf(S) == IF Known(S) = {} THEN None ELSE Max(Known(S))

Abs(n) == IF n < 0 THEN -n ELSE n
Clamp(n, low, high) == IF n < low THEN low ELSE IF n > high THEN high ELSE n

(* n/d rounded to an integer, d > 0: away from zero when half-way, or to   *)
(* the even neighbour.                                                     *)
HalfUp(n, d) == IF n >= 0 THEN (2 * n + d) \div (2 * d) ELSE -((d - 2 * n) \div (2 * d))
HalfEven(n, d) ==
    LET q == n \div d  r == n % d IN
    IF 2 * r > d \/ (2 * r = d /\ q % 2 = 1) THEN q + 1 ELSE q

(* pct_change: the change in hundredths of a percent.                      *)
PctChange(old, new) ==
    IF old \in {None, 0} \/ new = None THEN None ELSE HalfUp((new - old) * 10000, old)

(* median of the figures of pairs <<figure, what it is of>>: the middle    *)
(* one, or half the sum of the middle two.                                 *)
MiddleOf(pairs) ==
    LET n == Cardinality(pairs)  xs == SetToSortSeq(pairs, LAMBDA p, q : p[1] <= q[1]) IN
    IF n = 0 THEN None
    ELSE IF n % 2 = 1 THEN xs[n \div 2 + 1][1]
    ELSE HalfEven(xs[n \div 2][1] + xs[n \div 2 + 1][1], 2)
Median(S, f(_)) == MiddleOf({<<f(x), x>> : x \in S})

(* The sum of the figures g[x] of all x, of the figures f(x) of x \in S.   *)
SumOf(g) == MapThenSumSet(LAMBDA x : g[x], DOMAIN g)
SumBy(S, f(_)) == SumOf([x \in S |-> f(x)])

=============================================================================
