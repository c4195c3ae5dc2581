------------------------------ MODULE FixedPoint ------------------------------
(***************************************************************************)
(* The arithmetic under everything (core/math.rs): a number of Frac        *)
(* fraction bits in twice as many bits, its operations with their          *)
(* wrapping, saturation and truncation, the curves built from them, and    *)
(* the vector operations in their two builds, plain and "simd".            *)
(*                                                                         *)
(* The code has Frac = 16; the bit patterns of its constants are cut to    *)
(* Frac bits.  Limit is where exp gives up, and -Limit what ln says of     *)
(* what has no logarithm: 10 in the code.                                  *)
(***************************************************************************)
EXTENDS Integers, Sequences

CONSTANTS Frac, Limit,
          Dim, Entries      \* a vector's length and what its places hold

VARIABLES x, v              \* the number and the vector looked at

vars == <<x, v>>

ONE == 2 ^ Frac
MAX == 2 ^ (2 * Frac - 1) - 1
MIN == -MAX - 1
LN2 == 45426 \div 2 ^ (16 - Frac)
LN2_2 == 102990 \div 2 ^ (16 - Frac)
LN2_3 == 38881 \div 2 ^ (16 - Frac)

\* "as i32", saturating_add and Rust's division, which cuts towards zero.
Wrap(n) == ((n - MIN) % (MAX - MIN + 1)) + MIN
Sat(n) == IF n > MAX THEN MAX ELSE IF n < MIN THEN MIN ELSE n
Abs(n) == IF n < 0 THEN -n ELSE n
Cut(n, d) == LET q == Abs(n) \div Abs(d) IN IF (n < 0) = (d < 0) THEN q ELSE -q

Add(a, b) == Sat(a + b)
Sub(a, b) == Sat(a - b)
Mul(a, b) == Wrap((a * b) \div ONE)
Div(a, b) == IF b = 0 THEN MAX ELSE Wrap(Cut(a * ONE, b))
Neg(a) == Wrap(-a)
FromInt(n) == Wrap(n * ONE)

\* x / ln 2 in exp, whose whole part shifts and whose fraction is the
\* argument of the polynomial.
Octaves(a) == Cut(a * ONE, LN2)
Frac01(a) == Octaves(a) % ONE

\* "(frac_part << 16) as i32 >> 16": the upper half becomes negative.
Signed(f) == IF f >= ONE \div 2 THEN f - ONE ELSE f

\* Shifts of exp: left loses the high bits, right keeps the sign.
Shifted(n, k) == IF k >= 0 THEN Wrap(n * 2 ^ k) ELSE n \div 2 ^ (-k)

Exp(a) ==
  IF a <= -Limit * ONE THEN 0
  ELSE IF a >= Limit * ONE THEN MAX
  ELSE LET f == Signed(Frac01(a))
           f2 == Mul(f, f)
           p == Add(Add(Add(ONE, Mul(LN2, f)), Mul(LN2_2, f2)),
                    Mul(LN2_3, Mul(f2, f)))
       IN Shifted(p, Octaves(a) \div ONE)

\* The exponent that brings a positive number to [1, 2], and the series.
Scale(a) ==
  IF a > 2 * ONE
  THEN CHOOSE e \in 1..Frac : /\ a \div 2 ^ e <= 2 * ONE
                              /\ a \div 2 ^ (e - 1) > 2 * ONE
  ELSE CHOOSE e \in -Frac..0 : /\ a * 2 ^ (-e) >= ONE
                               /\ e = 0 \/ a * 2 ^ (-e - 1) < ONE
Ln(a) ==
  IF a <= 0 THEN FromInt(-Limit)
  ELSE LET z == Shifted(a, -Scale(a)) - ONE
           z2 == Mul(z, z)
           series == Sub(Add(Sub(z, Div(z2, FromInt(2))),
                             Div(Mul(z2, z), FromInt(3))),
                         Div(Mul(Mul(z2, z), z), FromInt(4)))
       IN Add(Mul(FromInt(Scale(a)), LN2), series)

\* Newton's method, eight rounds.
Sqrt(a) ==
  LET newton[k \in 0..8] ==
        IF k = 0 THEN IF a < FromInt(100) THEN a ELSE FromInt(10)
        ELSE Div(Add(newton[k - 1], Div(a, newton[k - 1])), FromInt(2))
  IN IF a <= 0 THEN 0 ELSE IF a = ONE THEN a ELSE newton[8]

Sigmoid(a) == Div(ONE, Add(ONE, Exp(Neg(a))))
Tanh(a) == LET e == Exp(Mul(a, FromInt(2))) IN Div(Sub(e, ONE), Add(e, ONE))

\* Bhaskara's sine; rem_euclid is TLA+'s remainder.
PI == 205887 \div 2 ^ (16 - Frac)
Sin(a) ==
  LET angle == a % (2 * PI)
      y == IF angle > PI THEN 2 * PI - angle ELSE angle
      p == (y * (PI - y)) \div ONE
      den == 5 * ((PI * PI) \div ONE) - 4 * p
      r == IF den = 0 THEN 0 ELSE Cut(16 * p * ONE, den)
  IN IF angle > PI THEN -r ELSE r

Fract(a) == a % ONE
Floor(a) == a - Fract(a)
Ceil(a) == IF Fract(a) = 0 THEN a ELSE Wrap(Floor(a) + ONE)

\* elementwise_mul, and what dot adds up.
Times(s, t) == [i \in 1..Len(s) |-> Mul(s[i], t[i])]

\* a and then the first n places of s, added one after the other.
Folded(a, s, n) ==
  LET upto[k \in 0..n] == IF k = 0 THEN a ELSE Add(upto[k - 1], s[k])
  IN  upto[n]
\* sum, plain: one accumulator; simd: four, and the rest one by one.
SumPlain(s) == Folded(0, s, Len(s))
Chunks(s) == Len(s) \div 4
Lane(s, i) == Folded(0, [c \in 1..Chunks(s) |-> s[4 * (c - 1) + i]], Chunks(s))
Rest(s) == [c \in 1..(Len(s) % 4) |-> s[4 * Chunks(s) + c]]

\* Mutated form of SumSimd: what is left over of the fours is not added.
SumSimdShort(s) == Add(Add(Add(Lane(s, 1), Lane(s, 2)), Lane(s, 3)), Lane(s, 4))
SumSimd(s) ==
  Folded(Add(Add(Add(Lane(s, 1), Lane(s, 2)), Lane(s, 3)), Lane(s, 4)),
         Rest(s), Len(s) % 4)

\* Magnitudes that no accumulator of either build can saturate with.
Size(s) ==
  LET upto[k \in 0..Len(s)] == IF k = 0 THEN 0 ELSE upto[k - 1] + Abs(s[k])
  IN  upto[Len(s)]
Fits(s) == Size(s) <= MAX

\* Every number around the interesting ones, and every vector.
Top == (Limit + 1) * ONE
Zero == [i \in 1..Dim |-> 0]
Init == x = -Top /\ v = Zero
Walk == x' = (IF x = Top THEN -Top ELSE x + 1) /\ v' = Zero
Pick == x = -Top /\ v = Zero /\ v' \in [1..Dim -> Entries] /\ UNCHANGED x
Next == Walk \/ Pick
-----------------------------------------------------------------------------
\* The curves stay in their ranges and no product of theirs wraps, from where
\* exp gives up below to where it does above.
CurvesStayInRange ==
  /\ Exp(x) \in 0..MAX /\ Sigmoid(x) \in 0..ONE /\ Tanh(x) \in -ONE..ONE
  /\ Sin(x) \in -ONE..ONE /\ Floor(x) <= x /\ x <= Ceil(x)

\* ln and sqrt, which do not use exp, never fall by more than the last bit
\* where they are defined.
RootsRise ==
  (x > 0 => Ln(x) <= Ln(x + 1) + 1) /\ Sqrt(x) <= Sqrt(x + 1) + 1

CurvesHold == CurvesStayInRange /\ RootsRise

\* The two builds of sum and dot agree wherever no order of adding can
\* saturate; they may differ where one can.
BuildsAgree ==
  \A s \in {v, Times(v, v)} : Fits(s) => SumSimd(s) = SumPlain(s)
=============================================================================
