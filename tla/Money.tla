------------------------------- MODULE Money -------------------------------
(***************************************************************************)
(* Exact decimal amounts (packages/facturx/src/money.ts).  An amount is an *)
(* unscaled integer and the number of digits after its point; the code     *)
(* keeps both in a bigint pair, so integers here have no width.  The text  *)
(* of an amount, which is what crosses the XML, is a record of its sign,   *)
(* its digits before the point and its digits after it.                    *)
(***************************************************************************)
EXTENDS Integers, SequencesExt

MonetaryScale == 2

Dec(v, s) == [value |-> v, scale |-> s]

Zero == Dec(0, 0)

pow10[n \in Nat] == IF n = 0 THEN 1 ELSE 10 * pow10[n - 1]

Magnitude(v) == IF v < 0 THEN -v ELSE v

Signed(negative, v) == IF negative THEN -v ELSE v

\* Half away from zero when digits are dropped; lossless when they are added.
Rescale(d, s) ==
    IF s >= d.scale THEN Dec(d.value * pow10[s - d.scale], s)
    ELSE LET divisor == pow10[d.scale - s]
             whole == Magnitude(d.value) \div divisor
             up == IF 2 * (Magnitude(d.value) % divisor) >= divisor THEN 1 ELSE 0
         IN Dec(Signed(d.value < 0, whole + up), s)

CommonScale(a, b) == IF a.scale > b.scale THEN a.scale ELSE b.scale

Aligned(d, a, b) == Rescale(d, CommonScale(a, b)).value

Plus(a, b) == Dec(Aligned(a, a, b) + Aligned(b, a, b), CommonScale(a, b))

Minus(a, b) == Dec(Aligned(a, a, b) - Aligned(b, a, b), CommonScale(a, b))

Times(a, b) == Dec(a.value * b.value, a.scale + b.scale)

Total(amounts) == FoldLeft(Plus, Dec(0, MonetaryScale), amounts)

Less(a, b) == Aligned(a, a, b) < Aligned(b, a, b)

Same(a, b) == Aligned(a, a, b) = Aligned(b, a, b)

IsZero(d) == d.value = 0

Abs(d) == Dec(Magnitude(d.value), d.scale)

SameMoney(a, b) == Same(Rescale(a, MonetaryScale), Rescale(b, MonetaryScale))

\* format pads with zeros up to the scale, then cuts scale digits off the end;
\* parseDecimal joins the digits again and counts those after the point.
Format(d) ==
    [negative |-> d.value < 0,
     whole |-> Magnitude(d.value) \div pow10[d.scale],
     fraction |-> Magnitude(d.value) % pow10[d.scale],
     places |-> d.scale]

ParseDecimal(t) ==
    Dec(Signed(t.negative, t.whole * pow10[t.places] + t.fraction), t.places)

\* Every amount is written at two decimals, whatever the scale it has.
Written(d) == Format(Rescale(d, MonetaryScale))
=============================================================================
