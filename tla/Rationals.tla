------------------------------ MODULE Rationals ------------------------------
(***************************************************************************)
(* The exact rational numbers of the route-first engine                    *)
(* (lib/domain/route-first/rational.ts): a pair of a numerator and a       *)
(* positive denominator in lowest terms, so that equal numbers are equal   *)
(* values.  The code's integers are unbounded, as those of TLA+.           *)
(***************************************************************************)
EXTENDS Integers

gcd[m \in Nat, n \in Nat] == IF n = 0 THEN m ELSE gcd[n, m % n]

Magnitude(n) == IF n < 0 THEN -n ELSE n

\* The number n / d, for a d that is not zero.
Rat(n, d) ==
    LET divisor == gcd[Magnitude(n), Magnitude(d)]
        sign == IF d < 0 THEN -1 ELSE 1
    IN  <<sign * (n \div divisor), Magnitude(d) \div divisor>>

Zero == <<0, 1>>
One == <<1, 1>>

Plus(x, y) == Rat(x[1] * y[2] + y[1] * x[2], x[2] * y[2])
Minus(x, y) == Plus(x, <<-y[1], y[2]>>)
Times(x, y) == Rat(x[1] * y[1], x[2] * y[2])
Over(x, y) == Rat(x[1] * y[2], x[2] * y[1])

Less(x, y) == x[1] * y[2] < y[1] * x[2]
AtMost(x, y) == ~Less(y, x)
Lower(x, y) == IF Less(x, y) THEN x ELSE y
Higher(x, y) == IF Less(x, y) THEN y ELSE x

\* compare(0) of the one times compare(0) of the other is negative.
OppositeSigns(x, y) == x[1] * y[1] < 0

\* The point a fraction of the way from x to y.
Between(x, y, fraction) == Plus(x, Times(Minus(y, x), fraction))
=============================================================================
