------------------------------ MODULE Hipfloat ------------------------------
(***************************************************************************)
(* The calculator's numbers, hiptop/rpn/hipfloat.java: a mantissa of nine     *)
(* digits and an exponent, here of D digits to the base Base; what the code   *)
(* writes as 8 is D - 1.  One operation, on any numbers.                      *)
(***************************************************************************)
EXTENDS Integers, Sequences, FiniteSets, FiniteSetsExt, SequencesExt

CONSTANTS
    Base,        \* 10 in the code
    D,           \* 9 in the code
    MAX_EXP,     \* 9999 in the code
    Rhs          \* the numbers, as pairs of mantissa and exponent

VARIABLES hip    \* the operation: its name, operands and result

hipfloatVars == hip

P(n) == Base ^ n
Lim == P(D)
MaxE == MAX_EXP - (D - 1)
MinE == -(MAX_EXP + D - 1)
Magnitude(m) == IF m < 0 THEN -m ELSE m
Trunc(m, d) == IF m < 0 THEN -((-m) \div d) ELSE m \div d

Num(m, e) == [m |-> m, e |-> e, bad |-> FALSE]
NAN == [m |-> 2 * Lim + 1, e |-> 0, bad |-> TRUE]
OVF == [m |-> 2 * Lim + 2, e |-> 0, bad |-> TRUE]

-----------------------------------------------------------------------------
\* One digit less: half a unit is rounded up, also of a negative number, which so comes
\* nearer to zero.  The constructor from a long rounds by the last digit only.
Rounded(m, long) ==
    IF Magnitude(m) % Base >= Base \div 2 /\ (long => Magnitude(m) < Base * Lim) THEN m + Base ELSE m

RECURSIVE Raise(_, _), Shrink(_, _, _), Widen(_, _)
Raise(m, e) == IF e < MinE /\ m # 0 THEN Raise(Trunc(m, Base), e + 1) ELSE Num(m, e)
Shrink(m, e, long) ==
    IF Magnitude(m) >= Lim /\ e < MaxE THEN Shrink(Trunc(Rounded(m, long), Base), e + 1, long) ELSE Num(m, e)
Widen(m, e) == IF Magnitude(m) < P(D - 1) /\ e > MinE THEN Widen(m * Base, e - 1) ELSE Num(m, e)

\* Slip: the size of the mantissa is not looked at.
TooLargeExp(n) == n.e > MaxE

TooLarge(n) == n.e > MaxE \/ n.m >= Lim

\* normalize and the constructors; what they throw is caught and becomes the result.
Make(m, e, long) ==
    LET r == Raise(m, e)
        s == Shrink(r.m, r.e, long)
        w == Widen(s.m, s.e)
    IN  IF r.m = 0 THEN Num(0, -(D - 1)) ELSE IF TooLarge(w) THEN OVF ELSE w

hipfloat(m, e) == Make(m, e, FALSE)
ZERO == hipfloat(0, 0)
ONE == hipfloat(1, 0)
HALF == hipfloat(Base \div 2, -1)

-----------------------------------------------------------------------------
neg(x) == hipfloat(-x.m, x.e)

\* Slip: the operand is aligned one place too far.
AlignedFar(a, e) == Trunc(a.m, P(e - a.e + 1))

\* The mantissa of a at the exponent e: all digits but the last are cut, that is rounded.
Aligned(a, e) ==
    IF a.e = e THEN a.m
    ELSE LET cut == Trunc(a.m, P(e - 1 - a.e))
         IN  Trunc(IF Magnitude(cut) % Base >= Base \div 2 THEN cut + Base ELSE cut, Base)

AddOrdered(x, a) == hipfloat(x.m + Aligned(a, x.e), x.e)

add(x, a) ==
    IF x.bad THEN x ELSE IF a.bad THEN a
    ELSE IF x.m = 0 THEN a ELSE IF a.m = 0 THEN x
    ELSE IF a.e > x.e THEN AddOrdered(a, x) ELSE AddOrdered(x, a)

sub(x, a) == IF x.bad THEN x ELSE IF a.bad THEN a ELSE add(x, neg(a))

mul(x, a) == IF x.bad THEN x ELSE IF a.bad THEN a ELSE Make(x.m * a.m, x.e + a.e, TRUE)

\* compareTo: the sign of the difference, as sub() has it.
compareTo(x, a) == IF a.bad THEN 1 ELSE IF a.m = 0 THEN x.m ELSE sub(x, a).m

\* By the inverse.
div(x, a) ==
    IF x.bad THEN x ELSE IF a.bad THEN a
    ELSE IF compareTo(a, ZERO) = 0 THEN NAN
    ELSE mul(x, Make(Trunc(P(2 * D), a.m), -a.e - 2 * D, TRUE))

\* Slip: numbers without a fraction lose a digit.
floorEarly(x) ==
    IF x.e < -(D + 1) THEN ZERO ELSE IF x.e > 0 THEN x
    ELSE LET c == hipfloat(x.m, x.e) IN IF c.e >= 0 THEN c ELSE hipfloat(Trunc(c.m, P(1 - c.e)) * Base, 0)

\* floor cuts the digits behind the point, of negative numbers too; an error counts as
\* the number its mantissa is.
floor(x) ==
    IF x.e < -(D + 1) THEN ZERO ELSE IF x.e > 0 THEN x
    ELSE LET c == hipfloat(x.m, x.e) IN IF c.e >= 0 THEN c ELSE hipfloat(Trunc(c.m, P(-c.e)), 0)

ceil(x) == IF compareTo(x, floor(x)) = 0 THEN x ELSE floor(add(x, ONE))
round(x) == floor(add(x, HALF))

\* sqrt: eight steps of Newton's.
sqrt(x) ==
    LET Better(guess, i) == mul(add(div(x, guess), guess), HALF)
    IN  IF x.bad THEN x ELSE IF compareTo(x, ZERO) < 0 THEN NAN ELSE IF compareTo(x, ZERO) = 0 THEN ZERO
        ELSE FoldLeft(Better, hipfloat(1, Trunc(x.e + D - 1, 2)), [i \in 1..8 |-> i])

-----------------------------------------------------------------------------
\* toCharArray: the digits, how many stand before the point, and the exponent, if any.
DigitAt(frac, k) == (frac \div P(D - 1 - k)) % Base
sigfig(x) == 1 + Min({k \in 0..D - 1 : Magnitude(x.m) % P(D - 1 - k) = 0})

\* Slip: a number with all its digits has no room for its zeros, and is printed.
PlainAll(x) == x.e <= 0 /\ x.e + D - 1 >= -D

\* The numbers that are printed without an exponent.
Plain(x) == x.e <= 0 /\ x.e + D - 1 >= -D + sigfig(x)

toCharArray(x, Scientific) ==
    LET vexp == x.e + D - 1
        lead == IF vexp < 0 THEN -vexp ELSE 0
        frac == Magnitude(x.m) \div P(lead)
        shown == sigfig(x) + lead
        before == Max({vexp, 0}) + 1
        all == [k \in 1..D |-> DigitAt(Magnitude(x.m), k - 1)]
    IN  IF ~Scientific /\ vexp = -1 /\ sigfig(x) = D
        THEN [neg |-> x.m < 0, digits |-> <<0>> \o all, point |-> 1, exp |-> 0]
        ELSE IF ~Scientific /\ Plain(x)
        THEN [neg |-> x.m < 0, point |-> before, exp |-> 0,
              digits |-> [k \in 1..Max({shown, before}) |-> IF k <= Min({shown, D}) THEN DigitAt(frac, k - 1) ELSE 0]]
        ELSE [neg |-> x.m < 0, digits |-> all, point |-> 1, exp |-> vexp]

\* fromString: the digits are added one by one.
fromString(t) ==
    LET Next10(w, d) == add(mul(w, hipfloat(Base, 0)), hipfloat(d, 0))
        whole == FoldLeft(Next10, ZERO, SubSeq(t.digits, 1, t.point))
        With(w, k) == add(w, hipfloat(t.digits[t.point + k], -k))
        number == FoldLeft(With, whole, [k \in 1..Len(t.digits) - t.point |-> k])
        signed == IF t.neg THEN neg(number) ELSE number
    IN  IF t.exp > MAX_EXP + 1 THEN OVF ELSE IF t.exp = 0 THEN signed ELSE mul(signed, hipfloat(1, t.exp))

-----------------------------------------------------------------------------
Operand2 == {hipfloat(p[1], p[2]) : p \in Rhs}

HipfloatInit == \E x \in Operand2 : hip = [op |-> "none", x |-> ZERO, y |-> ZERO, r |-> x]

\* What the keys of CalcWindow do with one number and with two.
Two(op, y) ==
    hip' = [op |-> op, x |-> hip.r, y |-> y,
            r |-> CASE op = "add" -> add(hip.r, y) [] op = "sub" -> sub(hip.r, y)
                    [] op = "mul" -> mul(hip.r, y) [] op = "div" -> div(hip.r, y)]
One(op) ==
    hip' = [op |-> op, x |-> hip.r, y |-> ZERO,
            r |-> CASE op = "floor" -> floor(hip.r) [] op = "ceil" -> ceil(hip.r) [] op = "round" -> round(hip.r)
                    [] op = "neg" -> neg(hip.r) [] op = "sqrt" -> sqrt(hip.r)]

HipfloatNext == hip.op = "none" /\
    \/ \E op \in {"add", "sub", "mul", "div"}, y \in Operand2 : Two(op, y)
    \/ \E op \in {"floor", "ceil", "round", "neg", "sqrt"} : One(op)

HipfloatSpec == HipfloatInit /\ [][HipfloatNext]_hipfloatVars
-----------------------------------------------------------------------------
\* The reference: whole multiples of a unit smaller than any product of two numbers.
Fine == 2 * MinE
Val(x) == x.m * P(x.e - Fine)
Ulp(e) == P(e - Fine)
Exact == CASE hip.op = "add" -> Val(hip.x) + Val(hip.y)
           [] hip.op = "sub" -> Val(hip.x) - Val(hip.y)
           [] hip.op = "mul" -> hip.x.m * hip.y.m * P(hip.x.e + hip.y.e - Fine)
Sound(x) == ~x.bad /\ (x.m = 0 \/ (Magnitude(x.m) < Lim /\ x.e \in MinE..MaxE))

\* The unit of the last digit that the exact result, or the larger operand of a sum, has.
LastPlace ==
    LET fits == Min({e \in MinE..2 * MaxE + D : Magnitude(Exact) < Lim * Ulp(e)})
    IN  Ulp(IF hip.op = "mul" THEN fits ELSE Max({hip.x.e, hip.y.e, fits}))

\* A sum or product of positive numbers is right to one unit of the last place; with a
\* negative one, which may be rounded toward zero twice, to three.
ArithIsClose ==
    hip.op \in {"add", "sub", "mul"} /\ Sound(hip.x) /\ Sound(hip.y) /\ Sound(hip.r) =>
        LET positive == hip.op # "sub" /\ hip.x.m >= 0 /\ hip.y.m >= 0
        IN  Magnitude(Val(hip.r) - Exact) <= IF positive THEN LastPlace ELSE 3 * LastPlace

\* A result that is too large is told, if it is positive, and only such a one is; what
\* is not told is a positive number that can be used.
OverflowIsTold ==
    hip.op \in {"add", "sub", "mul"} /\ Sound(hip.x) /\ Sound(hip.y) =>
        /\ Exact >= Lim * Ulp(MaxE) => hip.r = OVF
        /\ hip.r = OVF => Magnitude(Exact) > (Lim - 1) * Ulp(MaxE)
        /\ hip.r # OVF /\ Exact >= 0 => Sound(hip.r)

\* Comparing never takes the smaller for the larger; it takes them for equal only if
\* they differ by no more than a unit of the larger one.
ComparesRight ==
    Sound(hip.x) /\ Sound(hip.y) /\ hip.x.m >= 0 /\ hip.y.m >= 0 =>
        LET c == compareTo(hip.x, hip.y)
        IN  /\ c > 0 => Val(hip.x) > Val(hip.y)
            /\ c < 0 => Val(hip.x) < Val(hip.y)
            /\ c = 0 => Magnitude(Val(hip.x) - Val(hip.y)) <= Ulp(Max({hip.x.e, hip.y.e}))

\* floor of a positive number is the whole number below, ceil is above by less than two,
\* and round no further away than a half, or one if all digits stand before the point.
WholeNumbers ==
    Sound(hip.x) /\ Sound(hip.r) /\ hip.x.m >= 0 /\ hip.r.e <= 0 =>
        /\ hip.op = "floor" => Val(hip.r) = (Val(hip.x) \div Ulp(0)) * Ulp(0)
        /\ hip.op = "round" => Magnitude(Val(hip.r) - Val(hip.x)) * (IF hip.x.e = 0 THEN 1 ELSE 2) <= Ulp(0)
        /\ hip.op = "ceil" => Val(hip.r) >= Val(hip.x) /\ Val(hip.r) < Val(hip.x) + 2 * Ulp(0)

\* A number that is printed, in either way, and typed again is the same number.
TextIsNumber ==
    Sound(hip.r) => \A Scientific \in BOOLEAN : fromString(toCharArray(hip.r, Scientific)) = hip.r

\* The decimal arithmetic of the calculator, by value: what it adds, multiplies,
\* compares, rounds, prints and reads.
NumbersRight ==
    /\ ArithIsClose
    /\ OverflowIsTold
    /\ ComparesRight
    /\ WholeNumbers
    /\ TextIsNumber
=============================================================================
