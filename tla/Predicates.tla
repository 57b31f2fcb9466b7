----------------------------- MODULE Predicates -----------------------------
(***************************************************************************)
(* The robust predicates of src/predicates.c.  A floating-point number has *)
(* Bits significant bits and any exponent; with integers as coordinates    *)
(* every number the code computes is an integer, and every roundoff too,   *)
(* but for the error bounds, which are <<m, e>> for m * 2^e.  A sum of     *)
(* numbers that keeps all of them (an expansion) is a sequence from the    *)
(* least to the greatest.  Corners are numbered and Turn goes round them,  *)
(* where the code spells the three, four or five cases out.                *)
(***************************************************************************)
EXTENDS Integers, Sequences

CONSTANTS
  Bits,      \* bits of a significand: 53 for double
  Fl(_),     \* the floating-point number that stands for a whole number: the processor rounds
  Figures,   \* tuples of points
  None

VARIABLES store, result

vars == <<store, result>>

Magnitude(n) == IF n < 0 THEN -n ELSE n
SignOf(n) == IF n > 0 THEN 1 ELSE IF n < 0 THEN -1 ELSE 0

-----------------------------------------------------------------------------
(* Arithmetic that rounds to nearest, and to even in the middle.           *)

a \oplus b == Fl(a + b)
a \ominus b == Fl(a - b)
a \otimes b == Fl(a * b)

\* borPredInit.
Splitter == 2^((Bits + 1) \div 2) + 1

TwoSumTail(a, b, x) == (a \ominus (x \ominus (x \ominus a))) \oplus (b \ominus (x \ominus a))
TwoSum(a, b) == <<a \oplus b, TwoSumTail(a, b, a \oplus b)>>
FastTwoSum(a, b) == <<a \oplus b, b \ominus ((a \oplus b) \ominus a)>>
TwoDiffTail(a, b, x) == (a \ominus (x \oplus (a \ominus x))) \oplus ((a \ominus x) \ominus b)
TwoDiff(a, b) == <<a \ominus b, TwoDiffTail(a, b, a \ominus b)>>

\* Halves of a with half the bits each.
HighHalf(a) == LET c == Splitter \otimes a IN c \ominus (c \ominus a)
Split(a) == <<HighHalf(a), a \ominus HighHalf(a)>>

\* Of x = a * b, rounded, and the halves s of a and t of b.
TwoProductTail(x, s, t) ==
  (s[2] \otimes t[2])
    \ominus (((x \ominus (s[1] \otimes t[1])) \ominus (s[2] \otimes t[1])) \ominus (s[1] \otimes t[2]))
TwoProduct(a, b) == <<a \otimes b, TwoProductTail(a \otimes b, Split(a), Split(b))>>

SquareTail(x, s) ==
  (s[2] \otimes s[2]) \ominus ((x \ominus (s[1] \otimes s[1])) \ominus ((s[1] \oplus s[1]) \otimes s[2]))
Square(a) == <<a \otimes a, SquareTail(a \otimes a, Split(a))>>

\* Pairs are <<value, roundoff>>; the results are expansions.
Above(low, s) == <<low, s[2], s[1]>>
TwoOneSum(a, b) == LET i == TwoSum(a[2], b) IN Above(i[2], TwoSum(a[1], i[1]))
TwoOneDiff(a, b) == LET i == TwoDiff(a[2], b) IN Above(i[2], TwoSum(a[1], i[1]))
TwoTwoSum(a, b) ==
  LET j == TwoOneSum(a, b[2]) IN <<j[1]>> \o TwoOneSum(<<j[3], j[2]>>, b[1])
TwoTwoDiff(a, b) ==
  LET j == TwoOneDiff(a, b[2]) IN <<j[1]>> \o TwoOneDiff(<<j[3], j[2]>>, b[1])
TwoOneProduct(a, b) ==
  LET i == TwoProduct(a[2], b)
      j == TwoProduct(a[1], b)
      k == TwoSum(i[1], j[2])
  IN <<i[2]>> \o Above(k[2], FastTwoSum(j[1], k[1]))

-----------------------------------------------------------------------------
(* Expansions of any length.                                               *)

NonZero(n) == n # 0
Eliminated(h, Q) ==
  LET kept == SelectSeq(h, NonZero)
  IN IF Q # 0 \/ kept = <<>> THEN Append(kept, Q) ELSE kept

\* The components of both in order of magnitude, as the comparisons of the code put them.
RECURSIVE Merged(_, _)
Merged(e, f) ==
  CASE e = <<>> -> f
    [] f = <<>> -> e
    [] OTHER -> IF (f[1] > e[1]) = (f[1] > -e[1]) THEN <<e[1]>> \o Merged(Tail(e), f)
                ELSE <<f[1]>> \o Merged(e, Tail(f))

RECURSIVE Summed(_, _, _)
Summed(Q, rest, h) ==
  IF rest = <<>> THEN Eliminated(h, Q)
  ELSE LET s == TwoSum(Q, rest[1]) IN Summed(s[1], Tail(rest), Append(h, s[2]))

\* fast_expansion_sum_zeroelim: the first addition is the fast one when both
\* expansions have a component left.
SumOf(g, fast) ==
  LET s == FastTwoSum(g[2], g[1])
  IN IF fast THEN Summed(s[1], Tail(Tail(g)), <<s[2]>>) ELSE Summed(g[1], Tail(g), <<>>)
ExpSum(e, f) ==
  LET fromE == (f[1] > e[1]) = (f[1] > -e[1])
  IN SumOf(Merged(e, f), IF fromE THEN Len(e) > 1 ELSE Len(f) > 1)

\* The product p of b and the next component joins the sum Q.
RECURSIVE Scaled(_, _, _, _), ScaledWith(_, _, _, _, _)
Scaled(Q, rest, b, h) ==
  IF rest = <<>> THEN Eliminated(h, Q) ELSE ScaledWith(Q, TwoProduct(rest[1], b), Tail(rest), b, h)
ScaledWith(Q, p, rest, b, h) ==
  LET s == TwoSum(Q, p[2])
      t == FastTwoSum(p[1], s[1])
  IN Scaled(t[1], rest, b, h \o <<s[2], t[2]>>)

\* scale_expansion_zeroelim.
ExpScale(e, b) ==
  LET from(p) == Scaled(p[1], Tail(e), b, <<p[2]>>) IN from(TwoProduct(e[1], b))

RECURSIVE Estimate(_)
Estimate(e) == IF Len(e) = 1 THEN e[1] ELSE Estimate(<<e[1] \oplus e[2]>> \o Tail(Tail(e)))

RECURSIVE AllAdded(_, _)
AllAdded(fin, terms) ==
  IF terms = <<>> THEN fin ELSE AllAdded(ExpSum(fin, terms[1]), Tail(terms))

Most(e) == e[Len(e)]
Neg(e) == [i \in DOMAIN e |-> -e[i]] \o <<>>
When(cond, terms) == IF cond THEN terms ELSE <<>>

\* For every corner, or every coordinate.
Joined2(f) == f[1] \o f[2]
Joined3(f) == f[1] \o f[2] \o f[3]
ExpSum3(f) == ExpSum(ExpSum(f[1], f[2]), f[3])
ExpSum4(f) == ExpSum(ExpSum(f[1], f[2]), ExpSum(f[3], f[4]))

-----------------------------------------------------------------------------
(* Error bounds.                                                           *)

Reduced(m, e) ==
  IF m = 0 THEN <<0, 0>>
  ELSE LET t == CHOOSE t \in 0 .. 30 : m % 2^t = 0 /\ (m \div 2^t) % 2 = 1
       IN <<m \div 2^t, e + t>>

\* (c0 + c1 * epsilon) * epsilon^k * x, with epsilon = 2^-Bits.
Bound(c0, c1, k, x) ==
  LET c == Reduced(Fl(c0 * 2^Bits + c1), -(Bits * (k + 1)))
      y == Reduced(x, 0)
  IN Reduced(c[1] \otimes y[1], c[2] + y[2])

BoundSum(b, d) ==
  LET e == IF b[2] < d[2] THEN b[2] ELSE d[2]
  IN Reduced((b[1] * 2^(b[2] - e)) \oplus (d[1] * 2^(d[2] - e)), e)

ResultBound(det) == Bound(3, 8, 1, Magnitude(det))

\* det >= errbound or -det >= errbound, and the same with >.
Reaches(det, b) ==
  IF b[2] >= 0 THEN Magnitude(det) >= b[1] * 2^b[2]
  ELSE Magnitude(det) >= (b[1] + 2^(-b[2]) - 1) \div 2^(-b[2])
Exceeds(det, b) ==
  IF b[2] >= 0 THEN Magnitude(det) > b[1] * 2^b[2]
  ELSE Magnitude(det) > b[1] \div 2^(-b[2])

-----------------------------------------------------------------------------
(* Differences to the last point, and what they lost.                      *)

Turn(i, n) == (i % n) + 1
Next1(i) == Turn(i, 3)
Next2(i) == Turn(Turn(i, 3), 3)

\* Corner i, coordinate c: d[i][c] is the difference, t[i][c] its tail.
Differences(pts) ==
  [i \in 1 .. Len(pts) - 1 |-> [c \in DOMAIN pts[1] |-> pts[i][c] \ominus pts[Len(pts)][c]] \o <<>>] \o <<>>
Tails(pts, d) ==
  [i \in 1 .. Len(pts) - 1 |->
     [c \in DOMAIN pts[1] |-> TwoDiffTail(pts[i][c], pts[Len(pts)][c], d[i][c])] \o <<>>] \o <<>>
NoTails(t) == \A i \in DOMAIN t : \A c \in DOMAIN t[i] : t[i][c] = 0

\* The determinant of corners i and j in the plane of x and y, exactly.
Minor(d, i, j) == TwoTwoDiff(TwoProduct(d[i][1], d[j][2]), TwoProduct(d[j][1], d[i][2]))

\* What the tails change in it, roughly, and the determinant itself, roughly.
MinorEps(d, t, i, j) ==
  ((d[i][1] \otimes t[j][2]) \oplus (d[j][2] \otimes t[i][1]))
    \ominus ((d[i][2] \otimes t[j][1]) \oplus (d[j][1] \otimes t[i][2]))
MinorFl(d, i, j) == (d[i][1] \otimes d[j][2]) \ominus (d[i][2] \otimes d[j][1])
MinorPlus(d, i, j) == Magnitude(d[i][1] \otimes d[j][2]) \oplus Magnitude(d[j][1] \otimes d[i][2])
Sum3(f) == (f[1] \oplus f[2]) \oplus f[3]

\* The stages of an adaptive test: the determinant det of the differences, then
\* with what the tails change in it, roughly, then exactly.
Staged(det, bound, noTails, change, bound2, exact) ==
  LET rough == det \oplus change
  IN IF Reaches(det, bound) \/ noTails THEN det
     ELSE IF Reaches(rough, BoundSum(bound2, ResultBound(det))) THEN rough
     ELSE exact

-----------------------------------------------------------------------------
(* Orientation of three points.                                            *)

Orient2dFast(pts) == MinorFl(Differences(pts), 1, 2)

Orient2dChange(d, t) ==
  ((d[1][1] \otimes t[2][2]) \oplus (d[2][2] \otimes t[1][1]))
    \ominus ((d[1][2] \otimes t[2][1]) \oplus (d[2][1] \otimes t[1][2]))

Orient2dAdapt(pts, detsum) ==
  LET d == Differences(pts)
      t == Tails(pts, d)
      cross(u, v) == TwoTwoDiff(TwoProduct(u[1][1], v[2][2]), TwoProduct(u[1][2], v[2][1]))
  IN Staged(Estimate(Minor(d, 1, 2)), Bound(2, 12, 1, detsum), NoTails(t), Orient2dChange(d, t),
            Bound(9, 64, 2, detsum), Most(AllAdded(Minor(d, 1, 2), <<cross(t, d), cross(d, t), cross(t, t)>>)))

Orient2d(pts) ==
  LET d == Differences(pts)
      detleft == d[1][1] \otimes d[2][2]
      detright == d[1][2] \otimes d[2][1]
      det == detleft \ominus detright
      detsum == Magnitude(detleft) \oplus Magnitude(detright)
  IN IF SignOf(detleft) * SignOf(detright) <= 0 \/ Reaches(det, Bound(3, 16, 1, detsum)) THEN det
     ELSE Orient2dAdapt(pts, detsum)

-----------------------------------------------------------------------------
(* Orientation of four points.                                             *)

\* The exact determinant of the rounded differences.
Orient3dFin(d) ==
  ExpSum3([i \in 1 .. 3 |-> ExpScale(Minor(d, Next1(i), Next2(i)), d[i][3])])

Orient3dChange(d, t) ==
  Sum3([i \in 1 .. 3 |-> (d[i][3] \otimes MinorEps(d, t, Next1(i), Next2(i)))
                            \oplus (t[i][3] \otimes MinorFl(d, Next1(i), Next2(i)))])

\* The tails of corner i against corner j (at_b and the like), a term of a product of two left out when it is zero.
TailMinor(d, t, i, j) ==
  LET x == t[i][1]
      y == t[i][2]
  IN CASE x = 0 /\ y = 0 -> <<0>>
       [] x = 0 /\ y # 0 -> LET p == TwoProduct(-y, d[j][1]) IN <<p[2], p[1]>>
       [] x # 0 /\ y = 0 -> LET p == TwoProduct(x, d[j][2]) IN <<p[2], p[1]>>
       [] OTHER -> TwoTwoDiff(TwoProduct(x, d[j][2]), TwoProduct(y, d[j][1]))
TailMinorBack(d, t, i, j) ==
  LET x == t[i][1]
      y == t[i][2]
  IN CASE x = 0 /\ y = 0 -> <<0>>
       [] x = 0 /\ y # 0 -> LET p == TwoProduct(y, d[j][1]) IN <<p[2], p[1]>>
       [] x # 0 /\ y = 0 -> LET p == TwoProduct(-x, d[j][2]) IN <<p[2], p[1]>>
       [] OTHER -> TwoTwoDiff(TwoProduct(y, d[j][1]), TwoProduct(x, d[j][2]))

\* bct, cat and abt.
TailMinors(d, t, i) ==
  ExpSum(TailMinor(d, t, Next1(i), Next2(i)), TailMinorBack(d, t, Next2(i), Next1(i)))

\* A bug the checks must find: the first product of two tails is lost.
TailProductsLost(d, t, i) ==
  LET j == Next1(i)
      k == Next2(i)
      p == TwoProduct(t[i][1], t[j][2])
      q == TwoProduct(-t[i][1], t[k][2])
  IN When(t[i][1] # 0,
          When(t[j][2] # 0, When(t[k][3] # 0, <<TwoOneProduct(p, t[k][3])>>))
          \o When(t[k][2] # 0, <<TwoOneProduct(q, d[j][3])>> \o When(t[j][3] # 0, <<TwoOneProduct(q, t[j][3])>>)))

\* The products of two and three tails at corner i.
TailProducts(d, t, i) ==
  LET j == Next1(i)
      k == Next2(i)
      p == TwoProduct(t[i][1], t[j][2])
      q == TwoProduct(-t[i][1], t[k][2])
  IN When(t[i][1] # 0,
          When(t[j][2] # 0, <<TwoOneProduct(p, d[k][3])>> \o When(t[k][3] # 0, <<TwoOneProduct(p, t[k][3])>>))
          \o When(t[k][2] # 0, <<TwoOneProduct(q, d[j][3])>> \o When(t[j][3] # 0, <<TwoOneProduct(q, t[j][3])>>)))

Orient3dExact(d, t) ==
  Most(AllAdded(Orient3dFin(d),
    [i \in 1 .. 3 |-> ExpScale(TailMinors(d, t, i), d[i][3])]
    \o Joined3([i \in 1 .. 3 |->
                 When(t[i][3] # 0, <<ExpScale(Minor(d, Next1(i), Next2(i)), t[i][3])>>)])
    \o Joined3([i \in 1 .. 3 |-> TailProducts(d, t, i)])
    \o Joined3([i \in 1 .. 3 |-> When(t[i][3] # 0, <<ExpScale(TailMinors(d, t, i), t[i][3])>>)])))

Orient3dAdapt(pts, permanent) ==
  LET d == Differences(pts)
      t == Tails(pts, d)
  IN Staged(Estimate(Orient3dFin(d)), Bound(3, 28, 1, permanent), NoTails(t), Orient3dChange(d, t),
            Bound(26, 288, 2, permanent), Orient3dExact(d, t))

Orient3d(pts) ==
  LET d == Differences(pts)
      det == Sum3([i \in 1 .. 3 |-> d[i][3] \otimes MinorFl(d, Next1(i), Next2(i))])
      permanent == Sum3([i \in 1 .. 3 |-> MinorPlus(d, Next1(i), Next2(i)) \otimes Magnitude(d[i][3])])
  IN IF Exceeds(det, Bound(7, 56, 1, permanent)) THEN det ELSE Orient3dAdapt(pts, permanent)

-----------------------------------------------------------------------------
(* A point and the circle of three others.                                 *)

Lift(d, i) == (d[i][1] \otimes d[i][1]) \oplus (d[i][2] \otimes d[i][2])

InCircleFast(pts) ==
  LET d == Differences(pts)
  IN Sum3([i \in 1 .. 3 |-> Lift(d, i) \otimes MinorFl(d, Next1(i), Next2(i))])

\* The expansion v times the square of x.
Twice(v, x) == ExpScale(ExpScale(v, x), x)
InCircleFin(d) ==
  LET lifted(m, p) == ExpSum(Twice(m, p[1]), Twice(m, p[2]))
  IN ExpSum3([i \in 1 .. 3 |-> lifted(Minor(d, Next1(i), Next2(i)), d[i])])

InCircleChange(d, t) ==
  Sum3([i \in 1 .. 3 |->
         (Lift(d, i) \otimes MinorEps(d, t, Next1(i), Next2(i)))
           \oplus ((2 * ((d[i][1] \otimes t[i][1]) \oplus (d[i][2] \otimes t[i][2])))
                     \otimes MinorFl(d, Next1(i), Next2(i)))])

\* aa, bb and cc.
ExactLift(d, i) == TwoTwoSum(Square(d[i][1]), Square(d[i][2]))

\* The terms with the tail of corner i and coordinate c alone; u and v are the other corners.
OneTail(d, t, i, c, u, v) ==
  When(t[i][c] # 0,
       <<ExpSum(ExpScale(ExpScale(ExactLift(d, v), t[i][c]), -d[u][3 - c]),
                ExpSum(ExpScale(ExpScale(Minor(d, Next1(i), Next2(i)), t[i][c]), 2 * d[i][c]),
                       ExpScale(ExpScale(ExactLift(d, u), t[i][c]), d[v][3 - c])))>>)
OneTails(d, t, i) ==
  Joined2([c \in 1 .. 2 |-> IF c = 1 THEN OneTail(d, t, i, 1, Next2(i), Next1(i))
                             ELSE OneTail(d, t, i, 2, Next1(i), Next2(i))])

\* bct and bctt: the minor of j and k to the first and to the second order in their tails.
MinorTails(d, t, j, k) ==
  IF t[j][1] = 0 /\ t[j][2] = 0 /\ t[k][1] = 0 /\ t[k][2] = 0 THEN [one |-> <<0>>, two |-> <<0>>]
  ELSE [one |-> ExpSum(TwoTwoSum(TwoProduct(t[j][1], d[k][2]), TwoProduct(d[j][1], t[k][2])),
                       TwoTwoSum(TwoProduct(t[k][1], -d[j][2]), TwoProduct(d[k][1], -t[j][2]))),
        two |-> TwoTwoDiff(TwoProduct(t[j][1], t[k][2]), TwoProduct(t[k][1], t[j][2]))]

\* The terms with more tails; one and two are the expansions of MinorTails times a tail of corner i.
FirstOrder(d, t, i, c, one) ==
  ExpSum(ExpScale(ExpScale(Minor(d, Next1(i), Next2(i)), t[i][c]), t[i][c]), ExpScale(one, 2 * d[i][c]))
SecondOrder(d, t, i, c, one, two) ==
  ExpSum(ExpScale(one, t[i][c]), ExpSum(ExpScale(two, 2 * d[i][c]), ExpScale(two, t[i][c])))
MoreTails(d, t, i) ==
  LET j == Next1(i)
      k == Next2(i)
      mixed(u, v, x) == When(t[u][2] # 0, <<ExpScale(ExpScale(ExactLift(d, v), x), t[u][2])>>)
      terms(c, one, two) ==
        <<FirstOrder(d, t, i, c, one)>>
        \o When(c = 1, mixed(j, k, t[i][1]) \o mixed(k, j, -t[i][1]))
        \o <<SecondOrder(d, t, i, c, one, two)>>
      all(m) == Joined2([c \in 1 .. 2 |->
                          When(t[i][c] # 0, terms(c, ExpScale(m.one, t[i][c]), ExpScale(m.two, t[i][c])))])
  IN all(MinorTails(d, t, j, k))

InCircleExact(d, t) ==
  Most(AllAdded(InCircleFin(d), Joined3([i \in 1 .. 3 |-> OneTails(d, t, i)])
                                \o Joined3([i \in 1 .. 3 |-> MoreTails(d, t, i)])))

InCircleAdapt(pts, permanent) ==
  LET d == Differences(pts)
      t == Tails(pts, d)
  IN Staged(Estimate(InCircleFin(d)), Bound(4, 48, 1, permanent), NoTails(t), InCircleChange(d, t),
            Bound(44, 576, 2, permanent), InCircleExact(d, t))

InCircle(pts) ==
  LET d == Differences(pts)
      det == InCircleFast(pts)
      permanent == Sum3([i \in 1 .. 3 |-> MinorPlus(d, Next1(i), Next2(i)) \otimes Lift(d, i)])
  IN IF Exceeds(det, Bound(10, 96, 1, permanent)) THEN det ELSE InCircleAdapt(pts, permanent)

-----------------------------------------------------------------------------
(* A point and the sphere of four others.                                  *)

Lift3(d, i) == ((d[i][1] \otimes d[i][1]) \oplus (d[i][2] \otimes d[i][2])) \oplus (d[i][3] \otimes d[i][3])

\* bcd, cda, dab and abc by the corner left out: a height, its minor and the sign.
Without ==
  << << <<2, 3, 4, 1>>, <<3, 2, 4, -1>>, <<4, 2, 3, 1>> >>,
     << <<3, 4, 1, 1>>, <<4, 1, 3, 1>>, <<1, 3, 4, 1>> >>,
     << <<4, 1, 2, 1>>, <<1, 2, 4, 1>>, <<2, 4, 1, 1>> >>,
     << <<1, 2, 3, 1>>, <<2, 1, 3, -1>>, <<3, 1, 2, 1>> >> >>

\* Of heights h[i][3] and the rounded minors m[i, j].
Volume(h, m, i) ==
  LET w == Without[i]
  IN Sum3([n \in 1 .. 3 |-> (w[n][4] * h[w[n][1]][3]) \otimes m[w[n][2], w[n][3]]])

\* The parts of the four corners, whose signs alternate.
Alternating(f) == (f[4] \ominus f[3]) \oplus (f[2] \ominus f[1])
InSphereFast(pts) ==
  LET d == Differences(pts)
      minor == [i, j \in 1..4 |-> MinorFl(d, i, j)]
  IN Alternating([i \in 1 .. 4 |-> Lift3(d, i) \otimes Volume(d, minor, i)])

\* The expansion v times the squares of a point.
Lifted(v, p, sign) == ExpSum3([c \in 1 .. 3 |-> ExpScale(ExpScale(v, p[c]), sign * p[c])])
InSphereFin(d) ==
  LET term(w) == ExpScale(Minor(d, w[2], w[3]), w[4] * d[w[1]][3])
      summed(e) == ExpSum(e[3], ExpSum(e[1], e[2]))
  IN ExpSum4([i \in 1 .. 4 |-> Lifted(summed([n \in 1 .. 3 |-> term(Without[i][n])]), d[i],
                                      IF i % 2 = 1 THEN -1 ELSE 1)])

\* Those of corners 2 and 4 less those of 1 and 3.
EvenLessOdd(f) == (f[2] \oplus f[4]) \ominus (f[1] \oplus f[3])
InSphereChange(d, t) ==
  LET minor == [i, j \in 1..4 |-> Most(Minor(d, i, j))]
      eps == [i, j \in 1..4 |-> MinorEps(d, t, i, j)]
      change(i) == Lift3(d, i) \otimes (Volume(d, eps, i) \oplus Volume(t, minor, i))
      along(i) == Sum3([c \in 1 .. 3 |-> d[i][c] \otimes t[i][c]]) \otimes Volume(d, minor, i)
  IN EvenLessOdd([i \in 1 .. 4 |-> change(i)]) \oplus (2 * EvenLessOdd([i \in 1 .. 4 |-> along(i)]))

\* From the coordinates themselves; corners go round modulo 5.  The volumes of
\* three corners, and of two and the one behind the next, and of four.
Corner(i) == Turn(i - 1, 5)
CornerMinor(pts, i, j) == Minor(pts, Corner(i), Corner(j))
Height(pts, i) == pts[Corner(i)][3]
Triple(pts, i) ==
  ExpSum(ExpScale(CornerMinor(pts, i, i + 1), Height(pts, i + 2)),
         ExpSum(ExpScale(CornerMinor(pts, i + 1, i + 2), Height(pts, i)),
                ExpScale(CornerMinor(pts, i, i + 2), -Height(pts, i + 1))))
TripleApart(pts, i) ==
  ExpSum(ExpScale(CornerMinor(pts, i, i + 1), Height(pts, i + 3)),
         ExpSum(ExpScale(CornerMinor(pts, i + 1, i + 3), Height(pts, i)),
                ExpScale(CornerMinor(pts, i + 3, i), Height(pts, i + 1))))
Quadruple(pts, i) ==
  ExpSum(ExpSum(Triple(pts, i + 2), TripleApart(pts, i + 1)),
         Neg(ExpSum(TripleApart(pts, i + 3), Triple(pts, i + 1))))

InSphereExact(pts) ==
  LET sum5(f) == ExpSum(ExpSum(f[1], f[2]), ExpSum(ExpSum(f[3], f[4]), f[5]))
  IN Most(sum5([i \in 1 .. 5 |-> Lifted(Quadruple(pts, i), pts[Corner(i)], 1)]))

InSphereAdapt(pts, permanent) ==
  LET d == Differences(pts)
      t == Tails(pts, d)
  IN Staged(Estimate(InSphereFin(d)), Bound(5, 72, 1, permanent), NoTails(t), InSphereChange(d, t),
            Bound(71, 1408, 2, permanent), InSphereExact(pts))

InSphere(pts) ==
  LET d == Differences(pts)
      plus(i) == Sum3([n \in 1 .. 3 |-> LET w == Without[i][n]
                                        IN MinorPlus(d, w[2], w[3]) \otimes Magnitude(d[w[1]][3])])
      sum(f) == Sum3(f) \oplus f[4]
      permanent == sum([i \in 1 .. 4 |-> plus(i) \otimes Lift3(d, i)])
      det == InSphereFast(pts)
  IN IF Exceeds(det, Bound(16, 224, 1, permanent)) THEN det ELSE InSphereAdapt(pts, permanent)

-----------------------------------------------------------------------------
(* Calls.                                                                  *)

Orient3dFast(pts) ==
  LET d == Differences(pts)
      part(i, j, k) == d[i][1] \otimes ((d[j][2] \otimes d[k][3]) \ominus (d[j][3] \otimes d[k][2]))
  IN Sum3([i \in 1 .. 3 |-> part(i, Next1(i), Next2(i))])

Init == store \in Figures /\ result = None

Answer(call, answer) == result' = [call |-> call, answer |-> answer] /\ UNCHANGED store
Plane == Len(store[1]) = 2

Orient2dCall ==
  /\ result = None /\ Plane /\ Len(store) = 3
  /\ \/ Answer("Orient2d", Orient2d(store))
     \/ Answer("Orient2dFast", Orient2dFast(store))
Orient3dCall ==
  /\ result = None /\ ~Plane /\ Len(store) = 4
  /\ \/ Answer("Orient3d", Orient3d(store))
     \/ Answer("Orient3dFast", Orient3dFast(store))
InCircleCall ==
  /\ result = None /\ Plane /\ Len(store) = 4
  /\ \/ Answer("InCircle", InCircle(store))
     \/ Answer("InCircleFast", InCircleFast(store))
InSphereCall ==
  /\ result = None /\ ~Plane /\ Len(store) = 5
  /\ \/ Answer("InSphere", InSphere(store))
     \/ Answer("InSphereFast", InSphereFast(store))

Next == Orient2dCall \/ Orient3dCall \/ InCircleCall \/ InSphereCall
Spec == Init /\ [][Next]_vars

-----------------------------------------------------------------------------
(* What the answers mean.                                                  *)

RECURSIVE Determinant(_)
Determinant(m) ==
  IF m = <<>> THEN 1
  ELSE LET without(j) == [r \in 1 .. Len(m) - 1 |->
                            SubSeq(m[r + 1], 1, j - 1) \o SubSeq(m[r + 1], j + 1, Len(m))]
           upTo[j \in 0 .. Len(m)] ==
             IF j = 0 THEN 0
             ELSE upTo[j - 1] + (IF j % 2 = 1 THEN 1 ELSE -1) * m[1][j] * Determinant(without(j))
       IN upTo[Len(m)]

SquareSum(p) == IF Len(p) = 2 THEN p[1] * p[1] + p[2] * p[2] ELSE p[1] * p[1] + p[2] * p[2] + p[3] * p[3]

\* Rows are the differences to the last point, with their squares for a circle or a sphere.
Exact(pts) ==
  LET n == Len(pts)
      row(i) == [c \in DOMAIN pts[1] |-> pts[i][c] - pts[n][c]] \o <<>>
      lifted == n = Len(pts[1]) + 2
  IN Determinant([i \in 1 .. n - 1 |-> IF lifted THEN Append(row(i), SquareSum(row(i))) ELSE row(i)])

Robust == {"Orient2d", "Orient3d", "InCircle", "InSphere"}
NothingRounds(pts) == \A i \in DOMAIN pts : \A c \in DOMAIN pts[1] : pts[i][c] \in 0 .. 1

\* A robust predicate answers with the sign of the true determinant, whatever
\* was lost on the way: the error bounds of every stage, the tails and the
\* expansions decide it together.  A fast one does when nothing is rounded.
SignsRight ==
  result # None /\ (result.call \in Robust \/ NothingRounds(store)) =>
    SignOf(result.answer) = SignOf(Exact(store))
=============================================================================
