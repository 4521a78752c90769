--------------------------- MODULE ArithmeticProofs ---------------------------
(***************************************************************************)
(* That the ranges of instructions contain their results (RangesSound),    *)
(* that comparisons of fixed point numbers are exact (CompareExact), and   *)
(* that the fixed point code of an instruction computes what is close to   *)
(* its result (ResultsClose), for all bounds of ranges, all operands, and  *)
(* all settings of the data type allocation.  First come facts of integer  *)
(* arithmetic: products and quotients rounded down keep or turn the order  *)
(* of their operands.                                                      *)
(***************************************************************************)
EXTENDS ArithmeticPath, Induction

(***************************************************************************)
(* Products and quotients of integers.                                     *)
(***************************************************************************)
\* A product with a number that is not negative keeps the order.
LEMMA ProductOrder ==
    ASSUME NEW a \in Int, NEW b \in Int, NEW c \in Int, a <= b
    PROVE  (c >= 0 => a * c <= b * c) /\ (c <= 0 => b * c <= a * c)
OBVIOUS

\* What a quotient rounded down is.
LEMMA QuotientBounds ==
    ASSUME NEW n \in Int, NEW d \in Nat \ {0}
    PROVE  /\ n \div d \in Int
           /\ d * (n \div d) <= n /\ n < d * (n \div d) + d
OBVIOUS

\* It is the greatest number of which d times is not greater.
LEMMA QuotientGreatest ==
    ASSUME NEW n \in Int, NEW d \in Nat \ {0}, NEW m \in Int
    PROVE  (m <= n \div d <=> d * m <= n)
<1> DEFINE k == n \div d
<1>1. k \in Int /\ d * k <= n /\ n < d * k + d
  BY QuotientBounds
<1> HIDE DEF k
<1>2. m <= k => d * m <= d * k
  BY <1>1
<1>3. m >= k + 1 => d * m >= d * (k + 1)
  BY <1>1
<1>4. d * (k + 1) = d * k + d /\ d * k \in Int /\ d * m \in Int
  BY <1>1
<1>5. m <= k \/ m >= k + 1
  BY <1>1
<1>6. m <= k <=> d * m <= n
  BY <1>1, <1>2, <1>3, <1>4, <1>5
<1> QED
  BY <1>6 DEF k

\* Quotients grow with what is divided.
LEMMA QuotientMonotonic ==
    ASSUME NEW m \in Int, NEW n \in Int, NEW d \in Nat \ {0}, m <= n
    PROVE  m \div d <= n \div d
<1>1. m \div d \in Int /\ d * (m \div d) <= m /\ d * (m \div d) \in Int
  BY QuotientBounds
<1>2. d * (m \div d) <= n
  BY <1>1
<1> QED
  BY <1>1, <1>2, QuotientGreatest

\* With the divisor, those of negative numbers grow and the others shrink.
LEMMA QuotientByLarger ==
    ASSUME NEW n \in Int, NEW c \in Nat \ {0}, NEW d \in Nat \ {0}, c <= d
    PROVE  (n >= 0 => n \div d <= n \div c) /\ (n <= 0 => n \div c <= n \div d)
<1> DEFINE x == n \div c
           y == n \div d
<1>1. x \in Int /\ y \in Int /\ c * x <= n /\ d * y <= n
      /\ (\A m \in Int : m <= x <=> c * m <= n) /\ (\A m \in Int : m <= y <=> d * m <= n)
  BY QuotientBounds, QuotientGreatest
<1> HIDE DEF x, y
<1>2. ASSUME n >= 0 PROVE y <= x
  <2>1. y >= 0
    <3>1. d * 0 <= n
      BY <1>2
    <3> QED
      BY <1>1, <3>1
  <2>2. c * y <= d * y /\ c * y \in Int /\ d * y \in Int
    BY <1>1, <2>1
  <2>3. c * y <= n
    BY <1>1, <2>2
  <2> QED
    BY <1>1, <2>3
<1>3. ASSUME n <= 0 PROVE x <= y
  <2>1. x <= 0
    <3>1. CASE x >= 1
      <4>1. c * x >= 1
        BY <1>1, <3>1
      <4>2. c * x \in Int
        BY <1>1
      <4> QED
        BY <1>1, <1>3, <4>1, <4>2
    <3> QED
      BY <1>1, <3>1
  <2>2. d * x <= c * x /\ c * x \in Int /\ d * x \in Int
    BY <1>1, <2>1
  <2>3. d * x <= n
    BY <1>1, <2>2
  <2> QED
    BY <1>1, <2>3
<1> QED
  BY <1>2, <1>3 DEF x, y

\* Dividing by one number and then by another is dividing by their product.
LEMMA QuotientTwice ==
    ASSUME NEW n \in Int, NEW c \in Nat \ {0}, NEW d \in Nat \ {0}
    PROVE  (n \div c) \div d = n \div (c * d) /\ c * d \in Nat \ {0}
<1> DEFINE x == n \div c
           y == x \div d
           e == c * d
           z == n \div e
<1>1. e \in Nat \ {0} /\ x \in Int /\ y \in Int /\ z \in Int
  BY QuotientBounds
<1>2. \A m \in Int : m <= x <=> c * m <= n
  BY QuotientGreatest
<1>3. \A m \in Int : m <= y <=> d * m <= x
  BY <1>1, QuotientGreatest
<1>4. \A m \in Int : m <= z <=> e * m <= n
  BY <1>1, QuotientGreatest
<1>5. \A m \in Int : d * m \in Int /\ c * (d * m) = (c * d) * m
  OBVIOUS
<1> HIDE DEF x, y, z
<1>6. \A m \in Int : m <= y <=> e * m <= n
  BY <1>2, <1>3, <1>5
<1>7. \A m \in Int : m <= y <=> m <= z
  BY <1>4, <1>6
<1>8. y <= z /\ z <= y
  BY <1>1, <1>7
<1>9. y = z
  BY <1>1, <1>8
<1> QED
  BY <1>1, <1>9 DEF x, y, z

\* A multiple of the divisor is divided without remainder.
LEMMA QuotientOfMultiple ==
    ASSUME NEW k \in Int, NEW d \in Nat \ {0}
    PROVE  (d * k) \div d = k /\ (d * k) % d = 0
<1> DEFINE n == d * k
<1>1. n \in Int
  OBVIOUS
<1> HIDE DEF n
<1>2. n \div d \in Int /\ n = d * (n \div d) + (n % d) /\ n % d \in 0..(d - 1)
  BY <1>1
<1>3. k <= n \div d
  BY <1>1, QuotientGreatest DEF n
<1>4. ~(k + 1 <= n \div d)
  <2>1. d * (k + 1) = d * k + d
    OBVIOUS
  <2>2. ~(d * (k + 1) <= n)
    BY <1>1, <2>1 DEF n
  <2> QED
    BY <1>1, <2>2, QuotientGreatest
<1>5. n \div d = k
  <2>1. \A e \in Int : k <= e /\ ~(k + 1 <= e) => e = k
    OBVIOUS
  <2>2. n \div d \in Int
    BY <1>2
  <2> QED
    BY <1>3, <1>4, <2>1, <2>2
<1>6. n % d = 0
  BY <1>1, <1>2, <1>5 DEF n
<1> QED
  BY <1>5, <1>6 DEF n

\* And what leaves no remainder is a multiple.
LEMMA MultipleOf ==
    ASSUME NEW n \in Int, NEW d \in Nat \ {0}, n % d = 0
    PROVE  n \div d \in Int /\ n = d * (n \div d)
<1>1. n = d * (n \div d) + (n % d) /\ n \div d \in Int
  OBVIOUS
<1>2. d * (n \div d) \in Int
  BY <1>1
<1> QED
  BY <1>1, <1>2

\* A product lies between those of the bounds of its factors.
LEMMA ProductBetween ==
    ASSUME NEW a \in Int, NEW b \in Int, NEW c \in Int, NEW d \in Int,
           NEW x \in Int, NEW y \in Int, a <= x, x <= b, c <= y, y <= d,
           NEW S, a * c \in S, a * d \in S, b * c \in S, b * d \in S
    PROVE  \E k, l \in S : k <= x * y /\ x * y <= l
<1>1. (a * y <= x * y /\ x * y <= b * y) \/ (b * y <= x * y /\ x * y <= a * y)
  BY ProductOrder
<1>2. \A m \in {a, b} : (m * c <= m * y /\ m * y <= m * d) \/ (m * d <= m * y /\ m * y <= m * c)
  BY ProductOrder
<1>3. \A m, n \in {a, b, x, y, c, d} : m * n \in Int
  OBVIOUS
<1>4. PICK m \in {a, b}, n \in {a, b} : m * y <= x * y /\ x * y <= n * y
  BY <1>1
<1>5. PICK k \in {m * c, m * d} : k <= m * y
  BY <1>2
<1>6. PICK l \in {n * c, n * d} : n * y <= l
  BY <1>2
<1>7. k \in Int /\ l \in Int /\ m * y \in Int /\ n * y \in Int /\ x * y \in Int
  BY <1>3
<1>8. k <= x * y /\ x * y <= l
  BY <1>4, <1>5, <1>6, <1>7
<1> QED
  BY <1>8

(***************************************************************************)
(* The least and the greatest of a few numbers, and the range from one to  *)
(* the other.                                                              *)
(***************************************************************************)
\* A set of integers with a least member has it as its minimum.
LEMMA MinOf ==
    ASSUME NEW S, S \subseteq Int, NEW m \in S, \A n \in S : m <= n
    PROVE  Min(S) \in S /\ \A n \in S : Min(S) <= n
<1>1. \E x \in S : \A n \in S : x <= n
  OBVIOUS
<1> QED
  BY <1>1, Zenon DEF Min

\* And one with a greatest as its maximum.
LEMMA MaxOf ==
    ASSUME NEW S, S \subseteq Int, NEW m \in S, \A n \in S : n <= m
    PROVE  Max(S) \in S /\ \A n \in S : n <= Max(S)
<1>1. \E x \in S : \A n \in S : x >= n
  OBVIOUS
<1>2. Max(S) \in S /\ \A n \in S : Max(S) >= n
  BY <1>1, Zenon DEF Max
<1> QED
  BY <1>2

\* The range of four numbers goes from one of them to another.
LEMMA HullOf ==
    ASSUME NEW a \in Int, NEW b \in Int, NEW c \in Int, NEW d \in Int,
           NEW S, S = {a, b, c, d}
    PROVE  /\ Min(S) \in S /\ \A n \in S : Min(S) <= n
           /\ Max(S) \in S /\ \A n \in S : n <= Max(S)
           /\ Hull(S).lo = Min(S) /\ Hull(S).hi = Max(S)
<1>1. S \subseteq Int
  OBVIOUS
<1>2. \E m \in S : \A n \in S : m <= n
  <2>1. \A x, y \in Int : x <= y \/ y <= x
    OBVIOUS
  <2>2. PICK m1 \in {a, b} : m1 <= a /\ m1 <= b
    OBVIOUS
  <2>3. PICK m2 \in {c, d} : m2 <= c /\ m2 <= d
    OBVIOUS
  <2>4. CASE m1 <= m2
    BY <2>2, <2>3, <2>4
  <2>5. CASE m2 <= m1
    BY <2>2, <2>3, <2>5
  <2> QED
    BY <2>1, <2>2, <2>3, <2>4, <2>5
<1>3. \E m \in S : \A n \in S : n <= m
  <2>1. \A x, y \in Int : x <= y \/ y <= x
    OBVIOUS
  <2>2. PICK m1 \in {a, b} : a <= m1 /\ b <= m1
    OBVIOUS
  <2>3. PICK m2 \in {c, d} : c <= m2 /\ d <= m2
    OBVIOUS
  <2>4. CASE m1 <= m2
    BY <2>2, <2>3, <2>4
  <2>5. CASE m2 <= m1
    BY <2>2, <2>3, <2>5
  <2> QED
    BY <2>1, <2>2, <2>3, <2>4, <2>5
<1>4. Min(S) \in S /\ \A n \in S : Min(S) <= n
  BY <1>1, <1>2, MinOf
<1>5. Max(S) \in S /\ \A n \in S : n <= Max(S)
  BY <1>1, <1>3, MaxOf
<1>6. Hull(S).lo = Min(S) /\ Hull(S).hi = Max(S)
  BY DEF Hull, MakeRange
<1> QED
  BY <1>4, <1>5, <1>6

\* What lies between two of the numbers is in their range.
LEMMA HullHolds ==
    ASSUME NEW a \in Int, NEW b \in Int, NEW c \in Int, NEW d \in Int,
           NEW S, S = {a, b, c, d}, NEW z \in Int,
           \E k, l \in S : k <= z /\ z <= l
    PROVE  Hull(S).lo <= z /\ z <= Hull(S).hi
<1>1. PICK k \in S, l \in S : k <= z /\ z <= l
  OBVIOUS
<1>0. /\ Min(S) \in S /\ \A n \in S : Min(S) <= n
      /\ Max(S) \in S /\ \A n \in S : n <= Max(S)
      /\ Hull(S).lo = Min(S) /\ Hull(S).hi = Max(S)
  BY HullOf
<1>2. Hull(S).lo \in S /\ Hull(S).lo <= k
  BY <1>0
<1>3. Hull(S).hi \in S /\ l <= Hull(S).hi
  BY <1>0
<1>4. S \subseteq Int
  OBVIOUS
<1> QED
  BY <1>1, <1>2, <1>3, <1>4

-----------------------------------------------------------------------------
(***************************************************************************)
(* The arithmetic of RangeOperations.                                      *)
(***************************************************************************)
\* Multiplying, the step that rounds keeps the order.
LEMMA TimesMonotonic ==
    ASSUME NEW m \in Int, NEW n \in Int, m <= n
    PROVE  m \div Unit \in Int /\ m \div Unit <= n \div Unit
BY QuotientMonotonic, BitsAssumption

\* Rounding to whole numbers keeps the order.
LEMMA RoundingMonotonic ==
    ASSUME NEW m \in Int, NEW n \in Int, m <= n
    PROVE  /\ Down(m) \in Int /\ Up(m) \in Int /\ Truncated(m) \in Int
           /\ Down(m) <= Down(n) /\ Up(m) <= Up(n) /\ Truncated(m) <= Truncated(n)
           /\ Down(m) <= m /\ m <= Up(m)
<1>1. ASSUME NEW x \in Int, NEW y \in Int, x <= y
      PROVE  Down(x) \in Int /\ Down(x) <= Down(y) /\ Down(x) <= x
  <2>1. x \div Unit \in Int /\ y \div Unit \in Int /\ x \div Unit <= y \div Unit
        /\ Unit * (x \div Unit) <= x
    BY <1>1, QuotientMonotonic, QuotientBounds, BitsAssumption
  <2>2. (x \div Unit) * Unit <= (y \div Unit) * Unit /\ (x \div Unit) * Unit \in Int
        /\ (x \div Unit) * Unit = Unit * (x \div Unit)
    BY <2>1, BitsAssumption
  <2> QED
    BY <2>1, <2>2 DEF Down
<1>2. ASSUME NEW x \in Int, NEW y \in Int, x <= y
      PROVE  Up(x) \in Int /\ Up(x) <= Up(y) /\ x <= Up(x)
  <2>1. -y \in Int /\ -x \in Int /\ -y <= -x
    BY <1>2
  <2>2. Down(-y) \in Int /\ Down(-x) \in Int /\ Down(-y) <= Down(-x) /\ Down(-x) <= -x
    BY <1>1, <2>1
  <2> QED
    BY <2>2 DEF Up
<1>3. Down(0) = 0
  <2>1. Unit * 0 = 0
    BY BitsAssumption
  <2>2. (Unit * 0) \div Unit = 0
    BY BitsAssumption, QuotientOfMultiple
  <2> QED
    BY <2>1, <2>2, BitsAssumption DEF Down
<1>4. Down(m) \in Int /\ Down(n) \in Int /\ Up(m) \in Int /\ Up(n) \in Int
  BY <1>1, <1>2
<1>5. Truncated(m) <= Truncated(n)
  <2>1. CASE m < 0 /\ n < 0
    BY <1>2, <2>1 DEF Truncated
  <2>2. CASE m < 0 /\ n >= 0
    <3>1. -m \in Int /\ 0 <= -m
      BY <2>2
    <3>2. Down(-m) \in Int /\ Down(0) <= Down(-m) /\ Down(0) <= Down(n)
      BY <1>1, <2>2, <3>1
    <3>3. Up(m) <= 0 /\ 0 <= Down(n)
      BY <1>3, <3>2 DEF Up
    <3> QED
      BY <1>4, <2>2, <3>3 DEF Truncated
  <2>3. CASE m >= 0 /\ n >= 0
    BY <1>1, <2>3 DEF Truncated
  <2> QED
    BY <2>1, <2>2, <2>3
<1> QED
  BY <1>1, <1>2, <1>4, <1>5 DEF Truncated

\* Whole numbers are rounded to themselves.
LEMMA RoundingWhole ==
    ASSUME NEW n \in Int, n % Unit = 0
    PROVE  /\ n \div Unit \in Int /\ n = Unit * (n \div Unit)
           /\ Down(n) = n /\ Up(n) = n /\ Truncated(n) = n /\ Whole(n) = n \div Unit
<1>1. n \div Unit \in Int /\ n = Unit * (n \div Unit)
  BY MultipleOf, BitsAssumption
<1> DEFINE k == n \div Unit
<1>2. k \in Int /\ n = Unit * k
  BY <1>1
<1> HIDE DEF k
<1>3. Down(n) = n
  BY <1>2, BitsAssumption DEF Down, k
<1>4. -n = Unit * (-k) /\ -k \in Int
  BY <1>2, BitsAssumption
<1>5. (-n) \div Unit = -k
  BY <1>4, QuotientOfMultiple, BitsAssumption
<1>6. Up(n) = n
  BY <1>2, <1>5, BitsAssumption DEF Up, Down
<1>7. Truncated(n) = n
  BY <1>3, <1>6 DEF Truncated
<1> QED
  BY <1>1, <1>3, <1>6, <1>7 DEF Whole

(***************************************************************************)
(* The handlers of RangeOperations, for ranges of integers.                *)
(***************************************************************************)
Bounded(x) == x.lo \in Int /\ x.hi \in Int /\ x.lo <= x.hi
In(n, x) == n \in Int /\ x.lo <= n /\ n <= x.hi

\* The bounds of a range that is made.
LEMMA MakeRangeFields ==
    ASSUME NEW m, NEW n
    PROVE  MakeRange(m, n).lo = m /\ MakeRange(m, n).hi = n
BY DEF MakeRange

\* Sums, differences and negations are between those of the bounds.
LEMMA AddSubNegSound ==
    ASSUME NEW a, NEW b, Bounded(a), Bounded(b), NEW x, In(x, a), NEW y, In(y, b)
    PROVE  In(x + y, HandleAdd(a, b)) /\ In(x - y, HandleSub(a, b)) /\ In(-x, HandleNeg(a))
BY MakeRangeFields DEF In, Bounded, HandleAdd, HandleSub, HandleNeg

\* A product is between those of the bounds, also after rounding.
LEMMA MulSound ==
    ASSUME NEW a, NEW b, Bounded(a), Bounded(b), NEW x, In(x, a), NEW y, In(y, b)
    PROVE  In(Times(x, y), HandleMul(a, b))
<1> DEFINE P == {a.lo * b.lo, a.lo * b.hi, a.hi * b.lo, a.hi * b.hi}
           S == {Times(a.lo, b.lo), Times(a.lo, b.hi), Times(a.hi, b.lo), Times(a.hi, b.hi)}
<1>1. P \subseteq Int /\ x * y \in Int
  BY DEF In, Bounded
<1>2. PICK k \in P, l \in P : k <= x * y /\ x * y <= l
  <2>1. a.lo * b.lo \in P /\ a.lo * b.hi \in P /\ a.hi * b.lo \in P /\ a.hi * b.hi \in P
    OBVIOUS
  <2>2. PICK e \in Int, f \in Int, g \in Int, h \in Int, m \in Int, n \in Int :
          /\ e = a.lo /\ f = a.hi /\ g = b.lo /\ h = b.hi /\ m = x /\ n = y
          /\ e <= m /\ m <= f /\ g <= n /\ n <= h
    BY DEF In, Bounded
  <2> HIDE DEF P
  <2>3. e * g \in P /\ e * h \in P /\ f * g \in P /\ f * h \in P
    BY <2>1, <2>2
  <2>4. \E k, l \in P : k <= m * n /\ m * n <= l
    BY <2>2, <2>3, ProductBetween
  <2> QED
    BY <2>2, <2>4
<1>3. {Times(m, n) : m \in {a.lo, a.hi}, n \in {b.lo, b.hi}} = S
  OBVIOUS
<1>4. \A m \in P : m \div Unit \in S
  BY DEF Times
<1>5. k \in Int /\ l \in Int
  BY <1>1
<1>6. k \div Unit <= Times(x, y) /\ Times(x, y) <= l \div Unit /\ Times(x, y) \in Int
  BY <1>1, <1>2, <1>5, QuotientMonotonic, QuotientBounds, BitsAssumption DEF Times
<1>7. k \div Unit \in S /\ l \div Unit \in S
  BY <1>4
<1>8. /\ Times(a.lo, b.lo) \in Int /\ Times(a.lo, b.hi) \in Int
      /\ Times(a.hi, b.lo) \in Int /\ Times(a.hi, b.hi) \in Int
  BY <1>1, QuotientBounds, BitsAssumption DEF Times
<1> HIDE DEF P
<1>9. Hull(S).lo <= Times(x, y) /\ Times(x, y) <= Hull(S).hi
  BY <1>6, <1>7, <1>8, HullHolds
<1>10. HandleMul(a, b) = Hull(S)
  BY <1>3 DEF HandleMul
<1> QED
  BY <1>6, <1>9, <1>10 DEF In

\* Squares, and products of two numbers on one side of 0.
LEMMA SquareSound ==
    ASSUME NEW a, Bounded(a), NEW x, In(x, a), NEW y, In(y, a),
           x = y \/ a.lo >= 0 \/ a.hi <= 0
    PROVE  In(Times(x, y), HandleSquare(a))
<1> DEFINE ll == a.lo * a.lo
           hh == a.hi * a.hi
           z == x * y
           S == {Times(a.lo, a.lo), Times(a.hi, a.hi)}
<1>1. ll \in Int /\ hh \in Int /\ z \in Int
  BY DEF In, Bounded
<1>2. a.lo >= 0 => ll <= z /\ z <= hh
  <2> SUFFICES ASSUME a.lo >= 0 PROVE ll <= z /\ z <= hh
    OBVIOUS
  <2>1. /\ x \in Int /\ y \in Int /\ a.lo \in Int /\ a.hi \in Int /\ 0 <= x /\ 0 <= y /\ 0 <= a.hi
        /\ a.lo <= x /\ x <= a.hi /\ a.lo <= y /\ y <= a.hi
    BY DEF In, Bounded
  <2>2. a.lo * a.lo <= x * a.lo
    BY <2>1, ProductOrder
  <2>3. a.lo * x <= y * x
    BY <2>1, ProductOrder
  <2>4. x * y <= a.hi * y
    BY <2>1, ProductOrder
  <2>5. y * a.hi <= a.hi * a.hi
    BY <2>1, ProductOrder
  <2>6. /\ x * a.lo = a.lo * x /\ y * x = x * y /\ a.hi * y = y * a.hi
        /\ x * a.lo \in Int /\ a.hi * y \in Int
    BY <2>1
  <2> QED
    BY <1>1, <2>2, <2>3, <2>4, <2>5, <2>6
<1>3. a.hi <= 0 => hh <= z /\ z <= ll
  <2> SUFFICES ASSUME a.hi <= 0 PROVE hh <= z /\ z <= ll
    OBVIOUS
  <2>1. /\ x \in Int /\ y \in Int /\ a.lo \in Int /\ a.hi \in Int /\ x <= 0 /\ y <= 0 /\ a.lo <= 0
        /\ a.lo <= x /\ x <= a.hi /\ a.lo <= y /\ y <= a.hi
    BY DEF In, Bounded
  <2>2. a.hi * a.hi <= x * a.hi
    BY <2>1, ProductOrder
  <2>3. a.hi * x <= y * x
    BY <2>1, ProductOrder
  <2>4. x * y <= a.lo * y
    BY <2>1, ProductOrder
  <2>5. y * a.lo <= a.lo * a.lo
    BY <2>1, ProductOrder
  <2>6. /\ x * a.hi = a.hi * x /\ y * x = x * y /\ a.lo * y = y * a.lo
        /\ x * a.hi \in Int /\ a.lo * y \in Int
    BY <2>1
  <2> QED
    BY <1>1, <2>2, <2>3, <2>4, <2>5, <2>6
<1>4. a.lo <= 0 /\ a.hi >= 0 => 0 <= z /\ (z <= ll \/ z <= hh)
  <2> SUFFICES ASSUME a.lo <= 0, a.hi >= 0 PROVE 0 <= z /\ (z <= ll \/ z <= hh)
    OBVIOUS
  <2>1. CASE a.lo >= 0
    <3>1. ll >= 0
      BY ProductOrder DEF Bounded
    <3> QED
      BY <1>1, <1>2, <2>1, <3>1
  <2>2. CASE a.hi <= 0
    <3>1. hh >= 0
      BY ProductOrder DEF Bounded
    <3> QED
      BY <1>1, <1>3, <2>2, <3>1
  <2>3. CASE a.lo < 0 /\ a.hi > 0
    <3>1. x = y /\ x \in Int /\ a.lo <= x /\ x <= a.hi /\ a.lo \in Int /\ a.hi \in Int
      BY <2>3 DEF In, Bounded
    <3>2. CASE x >= 0
      BY <3>1, <3>2
    <3>3. CASE x <= 0
      BY <3>1, <3>3
    <3> QED
      BY <3>1, <3>2, <3>3
  <2> QED
    BY <2>1, <2>2, <2>3 DEF Bounded
<1> DEFINE tl == ll \div Unit
           th == hh \div Unit
           tz == z \div Unit
<1>5. /\ tl \in Int /\ th \in Int /\ tz \in Int
      /\ Times(x, y) = tz /\ S = {tl, th, tl, th} /\ S = {tl, th}
  BY <1>1, QuotientBounds, BitsAssumption DEF Times
<1>6. /\ ll <= z => tl <= tz
      /\ z <= ll => tz <= tl
      /\ hh <= z => th <= tz
      /\ z <= hh => tz <= th
      /\ 0 <= z => 0 <= tz
  <2>1. 0 <= z => 0 <= tz
    <3>1. Unit * 0 = 0
      BY BitsAssumption
    <3> QED
      BY <1>1, <3>1, QuotientGreatest, BitsAssumption
  <2> QED
    BY <1>1, <2>1, QuotientMonotonic, BitsAssumption
<1> HIDE DEF ll, hh, z, tl, th, tz
<1>7. Max(S) \in S /\ \A n \in S : n <= Max(S)
  <2>1. tl \in Int /\ th \in Int /\ S = {tl, th, tl, th}
    BY <1>5
  <2> HIDE DEF S
  <2> QED
    BY <2>1, HullOf
<1>8. CASE a.lo <= 0 /\ a.hi >= 0
  <2>1. HandleSquare(a) = MakeRange(0, Max(S))
    BY <1>8 DEF HandleSquare
  <2>2. tl <= Max(S) /\ th <= Max(S) /\ Max(S) \in Int
    BY <1>5, <1>7
  <2>3. 0 <= tz /\ tz <= Max(S)
    BY <1>4, <1>5, <1>6, <1>8, <2>2
  <2> QED
    BY <1>5, <2>1, <2>3, MakeRangeFields DEF In
<1>9. CASE ~(a.lo <= 0 /\ a.hi >= 0)
  <2>1. HandleSquare(a) = Hull(S)
    BY <1>9 DEF HandleSquare
  <2>2. a.lo >= 0 \/ a.hi <= 0
    BY <1>9 DEF Bounded
  <2>3. \E k, l \in S : k <= tz /\ tz <= l
    BY <1>2, <1>3, <1>5, <1>6, <2>2
  <2>4. Hull(S).lo <= tz /\ tz <= Hull(S).hi
    BY ZenonT(40), <1>5, <2>3, HullHolds
  <2> QED
    BY <1>5, <2>1, <2>4 DEF In
<1> QED
  BY <1>8, <1>9

\* A quotient by a positive divisor is between those of the bounds.
LEMMA QuotientBetween ==
    ASSUME NEW a \in Int, NEW b \in Int, NEW n \in Int, a <= n, n <= b,
           NEW c \in Nat \ {0}, NEW d \in Nat \ {0}, NEW y \in Nat \ {0}, c <= y, y <= d,
           NEW S, a \div c \in S, a \div d \in S, b \div c \in S, b \div d \in S
    PROVE  \E k, l \in S : k <= n \div y /\ n \div y <= l
<1>1. \A m \in {a, b, n}, e \in {c, d, y} : m \div e \in Int
  BY QuotientBounds
<1>2. a \div y <= n \div y /\ n \div y <= b \div y
  BY QuotientMonotonic
<1>7. ASSUME NEW m \in {a, b}
      PROVE  \E e, f \in {c, d} : m \div e <= m \div y /\ m \div y <= m \div f
  <2>1. m \in Int
    OBVIOUS
  <2>2. CASE m >= 0
    BY <2>1, <2>2, QuotientByLarger
  <2>3. CASE m <= 0
    BY <2>1, <2>3, QuotientByLarger
  <2> QED
    BY <2>1, <2>2, <2>3
<1>3. PICK k \in {a \div c, a \div d} : k <= a \div y
  BY <1>7
<1>4. PICK l \in {b \div c, b \div d} : b \div y <= l
  BY <1>7
<1>5. k \in Int /\ l \in Int /\ a \div y \in Int /\ b \div y \in Int /\ n \div y \in Int
  BY <1>1
<1>6. k <= n \div y /\ n \div y <= l
  BY <1>2, <1>3, <1>4, <1>5
<1> QED
  BY <1>6

\* By a negative number is divided as its opposite by a positive one.
LEMMA OverIsQuotient ==
    ASSUME NEW x \in Int, NEW y \in Int, y # 0
    PROVE  /\ Over(x, y) \in Int /\ x * Unit \in Int
           /\ y > 0 => Over(x, y) = (x * Unit) \div y
           /\ y < 0 => Over(x, y) = (-(x * Unit)) \div (-y)
<1>1. x * Unit \in Int
  BY BitsAssumption
<1> DEFINE n == x * Unit
<1> HIDE DEF n
<1>2. n \in Int
  BY <1>1 DEF n
<1>3. CASE y > 0
  <2>1. Over(x, y) = n \div y
    BY <1>3 DEF Over, n
  <2>2. n \div y \in Int
    BY <1>2, <1>3
  <2> QED
    BY <1>1, <1>3, <2>1, <2>2 DEF n
<1>4. CASE y < 0
  <2>1. Over(x, y) = (-n) \div (-y)
    BY <1>4 DEF Over, n
  <2>2. -n \in Int /\ -y \in Nat \ {0}
    BY <1>2, <1>4
  <2>3. (-n) \div (-y) \in Int
    BY <2>2, QuotientBounds
  <2> QED
    BY <1>1, <1>4, <2>1, <2>3 DEF n
<1> QED
  BY <1>3, <1>4

\* A quotient by a divisor on one side of 0 is between those of the bounds.
LEMMA OverBetween ==
    ASSUME NEW a \in Int, NEW b \in Int, NEW x \in Int, a <= x, x <= b,
           NEW c \in Int, NEW d \in Int, NEW y \in Int, c <= y, y <= d, c > 0 \/ d < 0,
           NEW S, Over(a, c) \in S, Over(a, d) \in S, Over(b, c) \in S, Over(b, d) \in S
    PROVE  \E k, l \in S : k <= Over(x, y) /\ Over(x, y) <= l
<1> DEFINE A == a * Unit
           B == b * Unit
           N == x * Unit
<1>1. A \in Int /\ B \in Int /\ N \in Int
  BY BitsAssumption
<1>2. A <= N /\ N <= B
  BY BitsAssumption, ProductOrder
<1>5. \A m, n \in Int :
          /\ n > 0 => Over(m, n) = (m * Unit) \div n
          /\ n < 0 => Over(m, n) = (-(m * Unit)) \div (-n)
  <2> SUFFICES ASSUME NEW m \in Int, NEW n \in Int
               PROVE  /\ n > 0 => Over(m, n) = (m * Unit) \div n
                      /\ n < 0 => Over(m, n) = (-(m * Unit)) \div (-n)
    OBVIOUS
  <2>1. CASE n = 0
    BY <2>1
  <2>2. CASE n # 0
    BY <2>2, OverIsQuotient
  <2> QED
    BY <2>1, <2>2
<1>3. CASE c > 0
  <2>0. c > 0 /\ d > 0 /\ y > 0
    BY <1>3
  <2>1. /\ Over(x, y) = N \div y /\ Over(a, c) = A \div c /\ Over(a, d) = A \div d
        /\ Over(b, c) = B \div c /\ Over(b, d) = B \div d
    BY <1>5, <2>0
  <2>2. c \in Nat \ {0} /\ d \in Nat \ {0} /\ y \in Nat \ {0}
    BY <1>3
  <2>3. A \div c \in S /\ A \div d \in S /\ B \div c \in S /\ B \div d \in S
    BY <2>1
  <2>4. PICK G \in Int, H \in Int, M \in Int : G = A /\ H = B /\ M = N
    BY <1>1
  <2> HIDE DEF A, B, N
  <2>5. G <= M /\ M <= H /\ G \div c \in S /\ G \div d \in S /\ H \div c \in S /\ H \div d \in S
    BY <1>2, <2>3, <2>4
  <2>6. \E k, l \in S : k <= M \div y /\ M \div y <= l
    BY ZenonT(40), <2>2, <2>5, QuotientBetween
  <2> QED
    BY <2>1, <2>4, <2>6
<1>4. CASE d < 0
  <2>0. c < 0 /\ d < 0 /\ y < 0
    BY <1>4
  <2>1. /\ Over(x, y) = (-N) \div (-y) /\ Over(a, c) = (-A) \div (-c) /\ Over(a, d) = (-A) \div (-d)
        /\ Over(b, c) = (-B) \div (-c) /\ Over(b, d) = (-B) \div (-d)
    BY <1>5, <2>0
  <2>6. /\ (-A) \div (-c) \in S /\ (-A) \div (-d) \in S
        /\ (-B) \div (-c) \in S /\ (-B) \div (-d) \in S
    BY <2>1
  <2> HIDE DEF A, B, N
  <2>2. PICK e \in Nat \ {0}, f \in Nat \ {0}, g \in Nat \ {0} :
            e = -d /\ f = -c /\ g = -y
    BY <1>4
  <2>3. PICK G \in Int, H \in Int, M \in Int : G = -B /\ H = -A /\ M = -N
    BY <1>1
  <2>4. G <= M /\ M <= H /\ e <= g /\ g <= f
    BY <1>1, <1>2, <2>2, <2>3
  <2>7. G \div e \in S /\ G \div f \in S /\ H \div e \in S /\ H \div f \in S
    BY <2>2, <2>3, <2>6
  <2>5. \E k, l \in S : k <= M \div g /\ M \div g <= l
    BY ZenonT(40), <2>4, <2>7, QuotientBetween
  <2> QED
    BY <2>1, <2>2, <2>3, <2>5
<1> QED
  BY <1>3, <1>4

\* A quotient by a divisor that is not nearer to 0 than e is between those by e
\* and -e.
LEMMA OverFarFromZero ==
    ASSUME NEW a \in Int, NEW b \in Int, NEW x \in Int, a <= x, x <= b,
           NEW e \in Nat \ {0}, NEW y \in Int, y >= e \/ y <= -e,
           NEW S, Over(a, -e) \in S, Over(a, e) \in S, Over(b, -e) \in S, Over(b, e) \in S
    PROVE  \E k, l \in S : k <= Over(x, y) /\ Over(x, y) <= l
<1>1. ASSUME NEW m \in Int, NEW n \in Int, NEW z \in Int, m <= z, z <= n,
             NEW g \in Nat \ {0}, g >= e,
             m \div e \in S, n \div e \in S, (-m) \div e \in S, (-n) \div e \in S
      PROVE  \E k, l \in S : k <= z \div g /\ z \div g <= l
  <2>0. PICK i \in Int, j \in Int : i = -m /\ j = -n
    BY <1>1
  <2>1. /\ m \div e \in Int /\ n \div e \in Int /\ z \div g \in Int /\ z \div e \in Int
        /\ i \div e \in Int /\ j \div e \in Int
    BY <1>1, <2>0, QuotientBounds
  <2>2. 0 \div e = 0 /\ 0 \div g = 0
    BY <1>1
  <2>3. CASE z >= 0
    <3>1. 0 <= z \div g
      BY <1>1, <2>2, <2>3, QuotientMonotonic
    <3>2. z \div g <= z \div e /\ z \div e <= n \div e
      BY <1>1, <2>3, QuotientMonotonic, QuotientByLarger
    <3>3. j \div e <= 0
      <4>1. j <= 0
        BY <1>1, <2>0, <2>3
      <4> QED
        BY <2>2, <4>1, QuotientMonotonic
    <3>4. j \div e <= z \div g /\ z \div g <= n \div e
      BY <2>1, <3>1, <3>2, <3>3
    <3> QED
      BY <1>1, <2>0, <3>4
  <2>4. CASE z <= 0
    <3>1. z \div g <= 0
      BY <1>1, <2>2, <2>4, QuotientMonotonic
    <3>2. z \div e <= z \div g /\ m \div e <= z \div e
      BY <1>1, <2>4, QuotientMonotonic, QuotientByLarger
    <3>3. 0 <= i \div e
      <4>1. i >= 0
        BY <1>1, <2>0, <2>4
      <4> QED
        BY <2>2, <4>1, QuotientMonotonic
    <3>4. m \div e <= z \div g /\ z \div g <= i \div e
      BY <2>1, <3>1, <3>2, <3>3
    <3> QED
      BY <1>1, <2>0, <3>4
  <2> QED
    BY <1>1, <2>3, <2>4
<1> DEFINE A == a * Unit
           B == b * Unit
           N == x * Unit
<1>2. A \in Int /\ B \in Int /\ N \in Int
  BY BitsAssumption
<1>3. A <= N /\ N <= B
  BY BitsAssumption, ProductOrder
<1>4. -e \in Int /\ -e < 0 /\ -(-e) = e
  OBVIOUS
<1>8. \A m, n \in Int :
          /\ n > 0 => Over(m, n) = (m * Unit) \div n
          /\ n < 0 => Over(m, n) = (-(m * Unit)) \div (-n)
  <2> SUFFICES ASSUME NEW m \in Int, NEW n \in Int
               PROVE  /\ n > 0 => Over(m, n) = (m * Unit) \div n
                      /\ n < 0 => Over(m, n) = (-(m * Unit)) \div (-n)
    OBVIOUS
  <2>1. CASE n = 0
    BY <2>1
  <2>2. CASE n # 0
    BY <2>2, OverIsQuotient
  <2> QED
    BY <2>1, <2>2
<1>5. /\ Over(a, e) = A \div e /\ Over(b, e) = B \div e
      /\ Over(a, -e) = (-A) \div e /\ Over(b, -e) = (-B) \div e
  BY <1>4, <1>8
<1>9. /\ A \div e \in S /\ B \div e \in S /\ (-A) \div e \in S /\ (-B) \div e \in S
  BY <1>5
<1>6. CASE y >= e
  <2>1. Over(x, y) = N \div y /\ y \in Nat \ {0}
    BY <1>6, <1>8
  <2> HIDE DEF A, B, N
  <2>2. \E k, l \in S : k <= N \div y /\ N \div y <= l
    BY <1>1, <1>2, <1>3, <1>6, <1>9, <2>1
  <2> QED
    BY <2>1, <2>2
<1>7. CASE y <= -e
  <2>1. Over(x, y) = (-N) \div (-y) /\ -y \in Nat \ {0}
    BY <1>7, <1>8
  <2> HIDE DEF A, B, N
  <2>2. PICK G \in Int, H \in Int, M \in Int : G = -B /\ H = -A /\ M = -N
    BY <1>2
  <2>3. G <= M /\ M <= H /\ -G = B /\ -H = A
    BY <1>2, <1>3, <2>2
  <2>4. PICK g \in Nat \ {0} : g = -y /\ g >= e
    BY <1>7, <2>1
  <2>5. /\ G \div e \in S /\ H \div e \in S /\ (-G) \div e \in S /\ (-H) \div e \in S
    BY <1>9, <2>2, <2>3
  <2>6. \E k, l \in S : k <= M \div g /\ M \div g <= l
    BY <1>1, <2>3, <2>4, <2>5
  <2> QED
    BY <2>1, <2>2, <2>4, <2>6
<1> QED
  BY <1>6, <1>7

\* The lesser of two integers.
LEMMA MinOfTwo ==
    ASSUME NEW m \in Int, NEW n \in Int
    PROVE  Min({m, n}) = IF m <= n THEN m ELSE n
<1> DEFINE S == {m, n}
<1>1. S \subseteq Int /\ \E k \in S : \A l \in S : k <= l
  OBVIOUS
<1>2. Min(S) \in S /\ \A l \in S : Min(S) <= l
  BY <1>1, MinOf
<1> QED
  BY <1>2

\* The greater of two integers.
LEMMA MaxOfTwo ==
    ASSUME NEW m \in Int, NEW n \in Int
    PROVE  Max({m, n}) = IF m <= n THEN n ELSE m
<1> DEFINE S == {m, n}
<1>1. S \subseteq Int /\ \E k \in S : \A l \in S : l <= k
  OBVIOUS
<1>2. Max(S) \in S /\ \A l \in S : l <= Max(S)
  BY <1>1, MaxOf
<1> QED
  BY <1>2

\* A quotient is between those of the bounds, divisors nearer to 0 than DIV_EPS left
\* out (handleDiv).
LEMMA DivSound ==
    ASSUME NEW a, NEW b, Bounded(a), Bounded(b), NEW x, In(x, a), NEW y, In(y, b),
           Abs(y) >= DivEps
    PROVE  In(Over(x, y), HandleDiv(a, b))
<1> DEFINE c == IF b.hi <= 0 THEN Min({b.lo, -DivEps}) ELSE IF b.lo < 0 THEN -DivEps
                ELSE Max({b.lo, DivEps})
           d == IF b.hi <= 0 THEN Min({b.hi, -DivEps}) ELSE IF b.lo < 0 THEN DivEps
                ELSE Max({b.hi, DivEps})
           S == {Over(a.lo, c), Over(a.lo, d), Over(a.hi, c), Over(a.hi, d)}
<1>1. /\ a.lo \in Int /\ a.hi \in Int /\ x \in Int /\ a.lo <= x /\ x <= a.hi
      /\ b.lo \in Int /\ b.hi \in Int /\ y \in Int /\ b.lo <= y /\ y <= b.hi
      /\ DivEps \in Int /\ -DivEps \in Int /\ DivEps > 0
      /\ (y >= DivEps \/ y <= -DivEps)
  BY ArithmeticAssumption DEF In, Bounded, Abs
<1>2. HandleDiv(a, b) = Hull(S)
  <2>1. HandleDiv(a, b) = Hull({Over(m, n) : m \in {a.lo, a.hi}, n \in {c, d}})
    BY DEF HandleDiv
  <2>2. {Over(m, n) : m \in {a.lo, a.hi}, n \in {c, d}} = S
    OBVIOUS
  <2> QED
    BY <2>1, <2>2
<1>3. /\ c \in Int /\ d \in Int /\ c # 0 /\ d # 0
      /\ \E k, l \in S : k <= Over(x, y) /\ Over(x, y) <= l
  <2>1. CASE b.hi <= 0
    <3>1. /\ c = (IF b.lo <= -DivEps THEN b.lo ELSE -DivEps)
          /\ d = (IF b.hi <= -DivEps THEN b.hi ELSE -DivEps)
      BY <1>1, <2>1, MinOfTwo
    <3> HIDE DEF c, d
    <3>2. c \in Int /\ d \in Int /\ c <= y /\ y <= d /\ d < 0 /\ c < 0
      BY <1>1, <2>1, <3>1
    <3>4. \A m \in {a.lo, a.hi} : Over(m, c) \in S /\ Over(m, d) \in S
      OBVIOUS
    <3> HIDE DEF S
    <3>3. \E k, l \in S : k <= Over(x, y) /\ Over(x, y) <= l
      BY SMTT(30), <1>1, <3>2, <3>4, OverBetween
    <3> QED
      BY <3>2, <3>3
  <2>2. CASE b.hi > 0 /\ b.lo < 0
    <3>1. c = -DivEps /\ d = DivEps /\ DivEps \in Nat \ {0}
      BY <1>1, <2>2
    <3> HIDE DEF c, d
    <3>3. \A m \in {a.lo, a.hi} : Over(m, -DivEps) \in S /\ Over(m, DivEps) \in S
      BY <3>1
    <3> HIDE DEF S
    <3>2. \E k, l \in S : k <= Over(x, y) /\ Over(x, y) <= l
      BY <1>1, <3>1, <3>3, OverFarFromZero
    <3> QED
      BY <1>1, <3>1, <3>2
  <2>3. CASE b.hi > 0 /\ b.lo >= 0
    <3>1. /\ c = (IF b.lo <= DivEps THEN DivEps ELSE b.lo)
          /\ d = (IF b.hi <= DivEps THEN DivEps ELSE b.hi)
      BY <1>1, <2>3, MaxOfTwo
    <3> HIDE DEF c, d
    <3>2. c \in Int /\ d \in Int /\ c <= y /\ y <= d /\ c > 0 /\ d > 0
      BY <1>1, <2>3, <3>1
    <3>4. \A m \in {a.lo, a.hi} : Over(m, c) \in S /\ Over(m, d) \in S
      OBVIOUS
    <3> HIDE DEF S
    <3>3. \E k, l \in S : k <= Over(x, y) /\ Over(x, y) <= l
      BY <1>1, <3>2, <3>4, OverBetween
    <3> QED
      BY <3>2, <3>3
  <2> QED
    BY <1>1, <2>1, <2>2, <2>3
<1> HIDE DEF c, d
<1>4. /\ Over(a.lo, c) \in Int /\ Over(a.lo, d) \in Int /\ Over(a.hi, c) \in Int
      /\ Over(a.hi, d) \in Int /\ Over(x, y) \in Int
  <2>1. y # 0
    BY <1>1
  <2> QED
    BY <1>1, <1>3, <2>1, OverIsQuotient
<1>5. Hull(S).lo <= Over(x, y) /\ Over(x, y) <= Hull(S).hi
  <2>1. \E k, l \in S : k <= Over(x, y) /\ Over(x, y) <= l
    BY <1>3
  <2> QED
    BY <1>4, <2>1, HullHolds
<1> QED
  BY <1>2, <1>4, <1>5 DEF In

\* What a division towards 0 by a positive number leaves.
LEMMA RemainderIs ==
    ASSUME NEW x \in Int, NEW y \in Nat \ {0}, x % Unit = 0, y % Unit = 0
    PROVE  \E R \in Int : /\ 0 <= R /\ R <= y - Unit /\ R <= Abs(x) /\ (Abs(x) < y => R = Abs(x))
                          /\ Remainder(x, y) = IF x < 0 THEN -R ELSE R
<1>1. PICK i \in Int, j \in Int : x = Unit * i /\ y = Unit * j
  <2>1. PICK i \in Int : x = Unit * i
    BY MultipleOf, BitsAssumption
  <2>2. PICK j \in Int : y = Unit * j
    BY MultipleOf, BitsAssumption
  <2> QED
    BY <2>1, <2>2
<1>2. Unit \in Nat \ {0}
  BY BitsAssumption
<1>3. PICK n \in Int, h \in Int : n = Abs(x) /\ n >= 0 /\ n = Unit * h
  <2>1. CASE x < 0
    <3>1. -x \in Int /\ -i \in Int /\ -x = Unit * (-i) /\ -x >= 0
      BY <1>1, <1>2, <2>1
    <3> QED
      BY <2>1, <3>1 DEF Abs
  <2>2. CASE x >= 0
    BY <1>1, <2>2 DEF Abs
  <2> QED
    BY <2>1, <2>2
<1>4. PICK k \in Int : k = n \div y /\ y * k <= n /\ n < y * k + y /\ (\A m \in Int : m <= k <=> y * m <= n)
  <2>1. n \div y \in Int /\ y * (n \div y) <= n /\ n < y * (n \div y) + y
    BY QuotientBounds
  <2>2. \A m \in Int : m <= n \div y <=> y * m <= n
    BY QuotientGreatest
  <2> QED
    BY <2>1, <2>2
<1>5. PICK R \in Int : R = n - y * k
  OBVIOUS
<1>6. k >= 0 /\ y * k \in Int
  <2>1. y * 0 = 0
    OBVIOUS
  <2>2. 0 <= k <=> y * 0 <= n
    BY <1>4
  <2> QED
    BY <1>3, <2>1, <2>2
<1>7. y * k >= 0
  BY <1>6
<1>8. 0 <= R /\ R < y /\ R <= n
  BY <1>4, <1>5, <1>6, <1>7
<1>9. R <= y - Unit
  <2>1. PICK g \in Int : g = h - j * k
    BY <1>6
  <2>2. y * k = Unit * (j * k) /\ j * k \in Int
    BY <1>1, <1>2, <1>6
  <2>3. Unit * g = Unit * h - Unit * (j * k)
    BY <1>2, <2>1, <2>2
  <2>4. R = Unit * g
    BY <1>3, <1>5, <2>2, <2>3
  <2>5. g < j
    <3>1. CASE j <= g
      <4>1. j * Unit <= g * Unit
        BY <1>2, <3>1, ProductOrder
      <4> QED
        BY <1>1, <1>2, <1>8, <2>4, <4>1
    <3> QED
      BY <3>1
  <2>6. g * Unit <= (j - 1) * Unit
    BY <1>2, <2>5, ProductOrder
  <2>7. (j - 1) * Unit = Unit * j - Unit /\ g * Unit = Unit * g
    BY <1>2
  <2> QED
    BY <1>1, <2>4, <2>6, <2>7
<1>10. n < y => R = n
  <2> SUFFICES ASSUME n < y PROVE R = n
    OBVIOUS
  <2>1. ~(1 <= k)
    <3>1. 1 <= k <=> y * 1 <= n
      BY <1>4
    <3>2. y * 1 = y
      OBVIOUS
    <3> QED
      BY <3>1, <3>2
  <2>2. k = 0
    BY <1>6, <2>1
  <2>3. y * k = 0
    BY <2>2
  <2> QED
    BY <1>5, <2>3
<1>11. Remainder(x, y) = IF x < 0 THEN -R ELSE R
  <2>1. Abs(y) = y /\ ~(y < 0)
    BY DEF Abs
  <2>2. CASE x < 0
    <3>1. Quotient(x, y) = -k /\ n = -x
      BY <1>3, <1>4, <2>1, <2>2 DEF Quotient, Abs
    <3>2. y * (-k) = -(y * k)
      OBVIOUS
    <3>3. Remainder(x, y) = x - (-(y * k))
      BY <3>1, <3>2 DEF Remainder
    <3> QED
      BY <1>5, <1>6, <2>2, <3>1, <3>3
  <2>3. CASE x >= 0
    <3>1. Quotient(x, y) = k /\ n = x
      BY <1>3, <1>4, <2>1, <2>3 DEF Quotient, Abs
    <3> QED
      BY <1>5, <2>3, <3>1 DEF Remainder
  <2> QED
    BY <2>2, <2>3
<1> QED
  BY <1>3, <1>8, <1>9, <1>10, <1>11

\* A remainder is in the range from getRemMin to getRemMax, by a divisor that is not
\* negative.
LEMMA RemSound ==
    ASSUME NEW a, NEW b, Bounded(a), Bounded(b), b.lo >= 0,
           NEW x, In(x, a), NEW y, In(y, b), y # 0, x % Unit = 0, y % Unit = 0
    PROVE  In(Remainder(x, y), HandleRem(a, b))
<1>1. /\ a.lo \in Int /\ a.hi \in Int /\ x \in Int /\ a.lo <= x /\ x <= a.hi
      /\ b.lo \in Int /\ b.hi \in Int /\ y \in Int /\ b.lo <= y /\ y <= b.hi /\ y > 0 /\ b.hi > 0
      /\ b.lo >= 0 /\ Unit \in Int /\ Unit > 0
  BY BitsAssumption DEF In, Bounded
<1>2. PICK R \in Int :
        /\ 0 <= R /\ R <= y - Unit /\ R <= Abs(x) /\ (Abs(x) < y => R = Abs(x))
        /\ Remainder(x, y) = IF x < 0 THEN -R ELSE R
  BY <1>1, RemainderIs
<1>3. RemMin(a, b) = RemMinBy(a, b.lo, b.hi)
  BY <1>1 DEF RemMin
<1>4. HandleRem(a, b).lo = RemMinBy(a, b.lo, b.hi) /\ HandleRem(a, b).hi = RemMax(a, b)
  BY <1>3 DEF HandleRem, MakeRange
<1>5. CASE a.lo >= 0
  <2>1. RemMinBy(a, b.lo, b.hi) = IF a.lo > 0 /\ a.hi < b.lo THEN a.lo ELSE 0
    BY <1>5 DEF RemMinBy, RemMinPositive
  <2>2. RemMax(a, b) = IF a.hi >= b.hi THEN b.hi - Unit ELSE a.hi
    BY <1>1, <1>5 DEF RemMax, RemMaxPositive
  <2>3. Abs(x) = x /\ Remainder(x, y) = R
    BY <1>1, <1>2, <1>5 DEF Abs
  <2> QED
    BY <1>1, <1>2, <1>4, <1>5, <2>1, <2>2, <2>3 DEF In
<1>6. CASE a.hi < 0
  <2>1. RemMinBy(a, b.lo, b.hi) = -(IF -a.lo >= b.hi THEN b.hi - Unit ELSE -a.lo)
    BY <1>1, <1>6 DEF RemMinBy, RemMaxPositive
  <2>2. RemMax(a, b) = -(IF -a.hi > 0 /\ -a.lo < b.lo THEN -a.hi ELSE 0)
    <3>1. RemMax(a, b) = -RemMin(HandleNeg(a), b)
      BY <1>6 DEF RemMax
    <3>2. HandleNeg(a).lo = -a.hi /\ HandleNeg(a).hi = -a.lo
      BY DEF HandleNeg, MakeRange
    <3>3. RemMin(HandleNeg(a), b) = RemMinBy(HandleNeg(a), b.lo, b.hi)
      BY <1>1 DEF RemMin
    <3>4. -a.hi >= 0
      BY <1>1, <1>6
    <3>5. RemMinBy(HandleNeg(a), b.lo, b.hi) = IF -a.hi > 0 /\ -a.lo < b.lo THEN -a.hi ELSE 0
      BY <3>2, <3>4 DEF RemMinBy, RemMinPositive
    <3> QED
      BY <3>1, <3>3, <3>5
  <2>3. Abs(x) = -x /\ Remainder(x, y) = -R /\ x < 0
    BY <1>1, <1>2, <1>6 DEF Abs
  <2> QED
    BY <1>1, <1>2, <1>4, <1>6, <2>1, <2>2, <2>3 DEF In
<1>7. CASE a.lo < 0 /\ a.hi >= 0
  <2>1. PICK m \in Int : m = RemMaxPositive(-a.lo, b.hi)
                /\ m = IF -a.lo >= b.hi THEN b.hi - Unit ELSE -a.lo
    BY <1>1 DEF RemMaxPositive
  <2>2. RemMinBy(a, b.lo, b.hi) = IF -m <= 0 THEN -m ELSE 0
    <3>1. RemMinBy(a, b.lo, b.hi) = Min({-m, 0})
      BY <1>1, <1>7, <2>1 DEF RemMinBy
    <3> QED
      BY <2>1, <3>1, MinOfTwo
  <2>3. RemMax(a, b) = IF a.hi >= b.hi THEN b.hi - Unit ELSE a.hi
    BY <1>1, <1>7 DEF RemMax, RemMaxPositive
  <2>4. CASE x < 0
    <3>1. Abs(x) = -x /\ Remainder(x, y) = -R
      BY <1>2, <2>4 DEF Abs
    <3> QED
      BY <1>1, <1>2, <1>4, <1>7, <2>1, <2>2, <2>3, <2>4, <3>1 DEF In
  <2>5. CASE x >= 0
    <3>1. Abs(x) = x /\ Remainder(x, y) = R
      BY <1>1, <1>2, <2>5 DEF Abs
    <3> QED
      BY <1>1, <1>2, <1>4, <1>7, <2>1, <2>2, <2>3, <2>5, <3>1 DEF In
  <2> QED
    BY <1>1, <2>4, <2>5
<1> QED
  BY <1>1, <1>5, <1>6, <1>7

\* Whole numbers of units, in order.
LEMMA WholeOrder ==
    ASSUME NEW m \in Int, NEW n \in Int, m <= n, m % Unit = 0, n % Unit = 0
    PROVE  Whole(m) \in Int /\ Whole(n) \in Int /\ Whole(m) <= Whole(n)
           /\ m = Unit * Whole(m) /\ (m < 0 <=> Whole(m) < 0) /\ (m >= 0 => Whole(m) \in Nat)
           /\ Whole(m) = m \div Unit
<1>1. m \div Unit \in Int /\ n \div Unit \in Int /\ m \div Unit <= n \div Unit
  BY TimesMonotonic, QuotientBounds, BitsAssumption
<1>2. Whole(m) = m \div Unit /\ Whole(n) = n \div Unit /\ m = Unit * (m \div Unit)
  BY RoundingWhole
<1>3. Unit * 0 = 0 /\ Unit \in Nat \ {0}
  BY BitsAssumption
<1>4. m >= 0 <=> 0 <= m \div Unit
  BY <1>3, QuotientGreatest
<1> QED
  BY <1>1, <1>2, <1>4

\* A number shifted left is between the shifted bounds (handleShl).
LEMMA ShlSound ==
    ASSUME NEW a, NEW b, Bounded(a), Bounded(b), b.lo >= 0, IsWhole(a), IsWhole(b),
           NEW x, In(x, a), NEW y, In(y, b), x % Unit = 0, y % Unit = 0
    PROVE  In(x * 2^(y \div Unit), HandleShl(a, b))
<1>1. /\ a.lo \in Int /\ a.hi \in Int /\ x \in Int /\ a.lo <= x /\ x <= a.hi
      /\ b.lo \in Int /\ b.hi \in Int /\ y \in Int /\ b.lo <= y /\ y <= b.hi
      /\ Unit \in Int /\ Unit > 0 /\ y >= 0 /\ b.lo >= 0 /\ b.hi >= 0
      /\ a.lo % Unit = 0 /\ a.hi % Unit = 0 /\ b.lo % Unit = 0 /\ b.hi % Unit = 0
  BY BitsAssumption DEF In, Bounded, IsWhole
<1>2. PICK i \in Int, il \in Int, ih \in Int, n \in Nat, nl \in Nat, nh \in Nat :
        /\ i = Whole(x) /\ il = Whole(a.lo) /\ ih = Whole(a.hi) /\ il <= i /\ i <= ih
        /\ n = y \div Unit /\ nl = Whole(b.lo) /\ nh = Whole(b.hi) /\ nl <= n /\ n <= nh
        /\ x = Unit * i /\ (a.lo < 0 <=> il < 0) /\ (a.hi < 0 <=> ih < 0)
  <2>1. /\ Whole(x) \in Int /\ Whole(a.lo) \in Int /\ Whole(a.hi) \in Int
        /\ Whole(a.lo) <= Whole(x) /\ Whole(x) <= Whole(a.hi) /\ x = Unit * Whole(x)
        /\ (a.lo < 0 <=> Whole(a.lo) < 0)
    BY <1>1, WholeOrder
  <2>2. a.hi < 0 <=> Whole(a.hi) < 0
    BY SMTT(30), <1>1, WholeOrder
  <2>3. /\ Whole(y) \in Nat /\ Whole(b.lo) \in Nat /\ Whole(y) = y \div Unit
        /\ Whole(b.lo) <= Whole(y) /\ Whole(y) <= Whole(b.hi)
    BY <1>1, WholeOrder
  <2>4. Whole(b.hi) \in Nat
    BY <1>1, WholeOrder
  <2> QED
    BY <2>1, <2>2, <2>3, <2>4
<1>3. PICK w \in Nat \ {0}, wl \in Nat \ {0}, wh \in Nat \ {0} :
        w = 2^n /\ wl = 2^nl /\ wh = 2^nh /\ wl <= w /\ w <= wh
  BY <1>2, PowerOfTwo, PowerGrows
<1>4. PICK u \in {wl, wh}, v \in {wl, wh} :
        /\ u = (IF il < 0 THEN wh ELSE wl) /\ v = (IF ih < 0 THEN wl ELSE wh)
        /\ il * u <= i * w /\ i * w <= ih * v
  <2>1. il < 0 => il * wh <= i * w
    <3>1. il < 0 => il * wh <= il * w
      <4>1. il < 0 => wh * il <= w * il
        BY <1>3, ProductOrder
      <4> QED
        BY <4>1
    <3>2. il * w <= i * w
      BY <1>2, ProductOrder
    <3> QED
      BY <3>1, <3>2
  <2>2. il >= 0 => il * wl <= i * w
    <3>1. il >= 0 => wl * il <= w * il
      BY <1>3, ProductOrder
    <3>2. il * w <= i * w
      BY <1>2, ProductOrder
    <3> QED
      BY <3>1, <3>2
  <2>3. ih < 0 => i * w <= ih * wl
    <3>1. ih < 0 => w * ih <= wl * ih
      BY <1>3, ProductOrder
    <3>2. i * w <= ih * w
      BY <1>2, ProductOrder
    <3> QED
      BY <3>1, <3>2
  <2>4. ih >= 0 => i * w <= ih * wh
    <3>1. ih >= 0 => w * ih <= wh * ih
      BY <1>3, ProductOrder
    <3>2. i * w <= ih * w
      BY <1>2, ProductOrder
    <3> QED
      BY <3>1, <3>2
  <2> QED
    BY <2>1, <2>2, <2>3, <2>4
<1>5. /\ HandleShl(a, b).lo = il * u * Unit
      /\ HandleShl(a, b).hi = ih * v * Unit
  <2>1. /\ HandleShl(a, b).lo = Whole(a.lo) * 2^Whole(IF a.lo < 0 THEN b.hi ELSE b.lo) * Unit
        /\ HandleShl(a, b).hi = Whole(a.hi) * 2^Whole(IF a.hi < 0 THEN b.lo ELSE b.hi) * Unit
    BY DEF HandleShl, MakeRange
  <2>2. 2^Whole(IF a.lo < 0 THEN b.hi ELSE b.lo) = u
    BY <1>2, <1>3, <1>4
  <2>3. 2^Whole(IF a.hi < 0 THEN b.lo ELSE b.hi) = v
    BY <1>2, <1>3, <1>4
  <2> QED
    BY <1>2, <2>1, <2>2, <2>3
<1>6. x * 2^(y \div Unit) = (i * w) * Unit
  <2>1. x * 2^(y \div Unit) = (Unit * i) * w
    BY <1>2, <1>3
  <2> QED
    BY <1>1, <2>1
<1>7. (il * u) * Unit <= (i * w) * Unit /\ (i * w) * Unit <= (ih * v) * Unit
  <2>1. il * u \in Int /\ i * w \in Int /\ ih * v \in Int
    BY <1>3, <1>4
  <2> QED
    BY <1>1, <1>4, <2>1, ProductOrder
<1>8. (i * w) * Unit \in Int
  BY <1>1
<1> QED
  BY <1>5, <1>6, <1>7, <1>8 DEF In

\* A number shifted right is between the shifted bounds (handleAShr).
LEMMA AShrSound ==
    ASSUME NEW a, NEW b, Bounded(a), Bounded(b), b.lo >= 0, IsWhole(a), IsWhole(b),
           NEW x, In(x, a), NEW y, In(y, b), x % Unit = 0, y % Unit = 0
    PROVE  In(Down(x \div 2^(y \div Unit)), HandleAShr(a, b))
<1>1. /\ a.lo \in Int /\ a.hi \in Int /\ x \in Int /\ a.lo <= x /\ x <= a.hi
      /\ b.lo \in Int /\ b.hi \in Int /\ y \in Int /\ b.lo <= y /\ y <= b.hi
      /\ Unit \in Nat \ {0} /\ y >= 0 /\ b.lo >= 0 /\ b.hi >= 0
      /\ a.lo % Unit = 0 /\ a.hi % Unit = 0 /\ b.lo % Unit = 0 /\ b.hi % Unit = 0
  BY BitsAssumption DEF In, Bounded, IsWhole
<1>2. PICK i \in Int, il \in Int, ih \in Int, n \in Nat, nl \in Nat, nh \in Nat :
        /\ i = x \div Unit /\ il = Whole(a.lo) /\ ih = Whole(a.hi) /\ il <= i /\ i <= ih
        /\ n = y \div Unit /\ nl = Whole(b.lo) /\ nh = Whole(b.hi) /\ nl <= n /\ n <= nh
  <2>1. /\ Whole(x) \in Int /\ Whole(a.lo) \in Int /\ Whole(a.hi) \in Int
        /\ Whole(a.lo) <= Whole(x) /\ Whole(x) <= Whole(a.hi) /\ Whole(x) = x \div Unit
    BY <1>1, WholeOrder
  <2>3. /\ Whole(y) \in Nat /\ Whole(b.lo) \in Nat /\ Whole(y) = y \div Unit
        /\ Whole(b.lo) <= Whole(y) /\ Whole(y) <= Whole(b.hi)
    BY <1>1, WholeOrder
  <2>4. Whole(b.hi) \in Nat
    BY SMTT(30), <1>1, WholeOrder
  <2> QED
    BY <2>1, <2>3, <2>4
<1>3. PICK w \in Nat \ {0}, wl \in Nat \ {0}, wh \in Nat \ {0} :
        w = 2^n /\ wl = 2^nl /\ wh = 2^nh /\ wl <= w /\ w <= wh
  BY <1>2, PowerOfTwo, PowerGrows
<1>4. PICK u \in {wl, wh}, v \in {wl, wh} :
        /\ u = (IF il > 0 THEN wh ELSE wl) /\ v = (IF ih > 0 THEN wl ELSE wh)
        /\ il \div u <= i \div w /\ i \div w <= ih \div v
  <2>0. /\ il \div w \in Int /\ i \div w \in Int /\ ih \div w \in Int /\ il \div wh \in Int
        /\ il \div wl \in Int /\ ih \div wl \in Int /\ ih \div wh \in Int
    BY QuotientBounds
  <2>1. il \div w <= i \div w /\ i \div w <= ih \div w
    BY <1>2, QuotientMonotonic
  <2>2. il >= 0 => il \div wh <= il \div w
    BY <1>3, QuotientByLarger
  <2>3. il <= 0 => il \div wl <= il \div w
    BY <1>3, QuotientByLarger
  <2>4. ih >= 0 => ih \div w <= ih \div wl
    BY <1>3, QuotientByLarger
  <2>5. ih <= 0 => ih \div w <= ih \div wh
    BY <1>3, QuotientByLarger
  <2>6. /\ il > 0 => il \div wh <= i \div w
        /\ il <= 0 => il \div wl <= i \div w
        /\ ih > 0 => i \div w <= ih \div wl
        /\ ih <= 0 => i \div w <= ih \div wh
    BY <2>0, <2>1, <2>2, <2>3, <2>4, <2>5
  <2>7. CASE il > 0 /\ ih > 0
    BY <2>6, <2>7
  <2>8. CASE il <= 0 /\ ih > 0
    BY <2>6, <2>8
  <2>9. CASE il > 0 /\ ih <= 0
    BY <2>6, <2>9
  <2>10. CASE il <= 0 /\ ih <= 0
    BY <2>6, <2>10
  <2> QED
    BY <2>7, <2>8, <2>9, <2>10
<1>5. /\ HandleAShr(a, b).lo = (il \div u) * Unit
      /\ HandleAShr(a, b).hi = (ih \div v) * Unit
  <2>1. /\ HandleAShr(a, b).lo = (Whole(a.lo) \div 2^Whole(IF Whole(a.lo) > 0 THEN b.hi ELSE b.lo)) * Unit
        /\ HandleAShr(a, b).hi = (Whole(a.hi) \div 2^Whole(IF Whole(a.hi) > 0 THEN b.lo ELSE b.hi)) * Unit
    BY DEF HandleAShr, MakeRange
  <2>2. 2^Whole(IF Whole(a.lo) > 0 THEN b.hi ELSE b.lo) = u
    BY <1>2, <1>3, <1>4
  <2>3. 2^Whole(IF Whole(a.hi) > 0 THEN b.lo ELSE b.hi) = v
    BY <1>2, <1>3, <1>4
  <2> QED
    BY <1>2, <2>1, <2>2, <2>3
<1>6. Down(x \div 2^(y \div Unit)) = (i \div w) * Unit
  <2>1. (x \div w) \div Unit = x \div (w * Unit)
    BY <1>1, QuotientTwice
  <2>2. (x \div Unit) \div w = x \div (Unit * w)
    <3>1. PICK U \in Nat \ {0} : U = Unit
      BY <1>1
    <3>3. x \in Int
      BY <1>1
    <3>2. (x \div U) \div w = x \div (U * w)
      BY <3>3, QuotientTwice, ZenonT(40)
    <3> QED
      BY <3>1, <3>2
  <2>3. w * Unit = Unit * w
    BY <1>1
  <2>4. (x \div w) \div Unit = i \div w
    BY <1>2, <2>1, <2>2, <2>3
  <2>5. x \div 2^(y \div Unit) = x \div w
    BY <1>2, <1>3
  <2> QED
    BY <2>4, <2>5 DEF Down
<1>7. il \div u \in Int /\ i \div w \in Int /\ ih \div v \in Int
  BY <1>3, <1>4, QuotientBounds
<1>8. (il \div u) * Unit <= (i \div w) * Unit /\ (i \div w) * Unit <= (ih \div v) * Unit
  BY <1>1, <1>4, <1>7, ProductOrder
<1>9. (i \div w) * Unit \in Int
  BY <1>1, <1>7
<1> QED
  BY <1>5, <1>6, <1>8, <1>9 DEF In

\* Numbers made whole are between the bounds made whole.
LEMMA RoundingSound ==
    ASSUME NEW a, Bounded(a), NEW x, In(x, a)
    PROVE  /\ In(Truncated(x), HandleCastToSI(a)) /\ In(Up(x), HandleCallToCeil(a))
           /\ In(Down(x), HandleCallToFloor(a))
<1>1. /\ x \in Int /\ a.lo \in Int /\ a.hi \in Int /\ a.lo <= x /\ x <= a.hi
  BY DEF In, Bounded
<1>2. /\ Down(x) \in Int /\ Up(x) \in Int /\ Truncated(x) \in Int
      /\ Down(x) <= Down(a.hi) /\ Up(x) <= Up(a.hi) /\ Truncated(x) <= Truncated(a.hi)
  BY <1>1, RoundingMonotonic
<1>3. Down(a.lo) <= Down(x) /\ Up(a.lo) <= Up(x) /\ Truncated(a.lo) <= Truncated(x)
  BY <1>1, RoundingMonotonic
<1> QED
  BY <1>2, <1>3, MakeRangeFields DEF In, HandleCastToSI, HandleCallToCeil, HandleCallToFloor

\* The values of a range on one side of 0 have their absolute values between
\* those of its bounds.
LEMMA FabsSound ==
    ASSUME NEW a, Bounded(a), NEW x, In(x, a), a.lo >= 0 \/ a.hi <= 0
    PROVE  In(Abs(x), HandleCallToFabs(a))
<1>1. /\ x \in Int /\ a.lo \in Int /\ a.hi \in Int /\ a.lo <= x /\ x <= a.hi
  BY DEF In, Bounded
<1>2. PICK m \in Int, n \in Int, z \in Int :
        m = AbsoluteValue(a.lo) /\ n = AbsoluteValue(a.hi) /\ z = Abs(x)
        /\ ((m <= z /\ z <= n) \/ (n <= z /\ z <= m))
  BY <1>1 DEF AbsoluteValue, Abs
<1>3. HandleCallToFabs(a).lo = Min({m, n}) /\ HandleCallToFabs(a).hi = Max({m, n})
  BY <1>2 DEF HandleCallToFabs, Hull, MakeRange
<1>4. /\ Min({m, n}) = (IF m <= n THEN m ELSE n)
      /\ Max({m, n}) = (IF m <= n THEN n ELSE m)
  BY MinOfTwo, MaxOfTwo
<1> QED
  BY <1>2, <1>3, <1>4 DEF In

\* What is in one of two ranges is in their union.
LEMMA PhiSound ==
    ASSUME NEW a, NEW b, Bounded(a), Bounded(b), NEW x, In(x, a) \/ In(x, b)
    PROVE  In(x, UnionRange(a, b))
<1>1. /\ a.lo \in Int /\ a.hi \in Int /\ b.lo \in Int /\ b.hi \in Int /\ a.lo <= a.hi /\ b.lo <= b.hi
  BY DEF Bounded
<1>2. /\ Min({a.lo, b.lo}) = (IF a.lo <= b.lo THEN a.lo ELSE b.lo)
      /\ Max({a.hi, b.hi}) = (IF a.hi <= b.hi THEN b.hi ELSE a.hi)
  BY <1>1, MinOfTwo, MaxOfTwo
<1> QED
  BY <1>1, <1>2, MakeRangeFields DEF In, UnionRange

\* A comparison that is decided by the ranges is so for all their values.
LEMMA CompareSound ==
    ASSUME NEW a, NEW b, Bounded(a), Bounded(b), NEW x, In(x, a), NEW y, In(y, b),
           NEW pred \in Comparisons
    PROVE  In(Flag(Holding(pred, x, y)), HandleCompare(pred, a, b))
<1>1. /\ a.lo \in Int /\ a.hi \in Int /\ x \in Int /\ a.lo <= x /\ x <= a.hi
      /\ b.lo \in Int /\ b.hi \in Int /\ y \in Int /\ b.lo <= y /\ y <= b.hi
  BY DEF In, Bounded
<1>0. Unit \in Int /\ Unit > 0
  BY BitsAssumption
<1>2. ASSUME NEW always \in BOOLEAN, NEW never \in BOOLEAN, NEW h \in BOOLEAN,
             always => h, never => ~h
      PROVE  In(Flag(h), Decided(always, never))
  <2>1. Unit \in Int /\ Unit > 0
    BY BitsAssumption
  <2> QED
    BY <1>2, <2>1, MakeRangeFields
      DEF In, Flag, Decided, AlwaysTrue, AlwaysFalse, GenericBoolRange
<1>3. CASE pred = "eq"
  <2>1. Holding(pred, x, y) = (x = y)
        /\ HandleCompare(pred, a, b) = Decided(SameConstant(a, b), Apart(a, b))
    BY <1>3 DEF Holding, HandleCompare
  <2>2. (SameConstant(a, b) => x = y) /\ (Apart(a, b) => ~(x = y))
    BY <1>1 DEF SameConstant, IsConstant, Apart
  <2>3. SameConstant(a, b) \in BOOLEAN /\ Apart(a, b) \in BOOLEAN
    BY DEF SameConstant, IsConstant, Apart
  <2> QED
    BY <1>2, <2>1, <2>2, <2>3
<1>4. CASE pred = "ne"
  <2>1. Holding(pred, x, y) = (x # y)
        /\ HandleCompare(pred, a, b) = Decided(Apart(a, b), SameConstant(a, b))
    BY <1>4 DEF Holding, HandleCompare
  <2>2. (SameConstant(a, b) => ~(x # y)) /\ (Apart(a, b) => x # y)
    BY <1>1 DEF SameConstant, IsConstant, Apart
  <2>3. SameConstant(a, b) \in BOOLEAN /\ Apart(a, b) \in BOOLEAN
    BY DEF SameConstant, IsConstant, Apart
  <2> QED
    BY <1>2, <2>1, <2>2, <2>3
<1>5. CASE pred = "gt"
  <2>1. Flag(Holding(pred, x, y)) = IF x > y THEN Unit ELSE 0
    BY <1>5 DEF Holding, Flag
  <2>2. HandleCompare(pred, a, b) = IF a.lo > b.hi THEN AlwaysTrue ELSE IF a.hi <= b.lo THEN AlwaysFalse
                                    ELSE GenericBoolRange
    BY <1>5 DEF HandleCompare, Decided
  <2> QED
    BY <1>0, <1>1, <2>1, <2>2, MakeRangeFields DEF In, AlwaysTrue, AlwaysFalse, GenericBoolRange
<1>6. CASE pred = "ge"
  <2>1. Flag(Holding(pred, x, y)) = IF x >= y THEN Unit ELSE 0
    BY <1>6 DEF Holding, Flag
  <2>2. HandleCompare(pred, a, b) = IF a.lo >= b.hi THEN AlwaysTrue ELSE IF a.hi < b.lo THEN AlwaysFalse
                                    ELSE GenericBoolRange
    BY <1>6 DEF HandleCompare, Decided
  <2> QED
    BY <1>0, <1>1, <2>1, <2>2, MakeRangeFields DEF In, AlwaysTrue, AlwaysFalse, GenericBoolRange
<1>7. CASE pred = "lt"
  <2>1. Flag(Holding(pred, x, y)) = IF x < y THEN Unit ELSE 0
    BY <1>7 DEF Holding, Flag
  <2>2. HandleCompare(pred, a, b) = IF a.hi < b.lo THEN AlwaysTrue ELSE IF a.lo >= b.hi THEN AlwaysFalse
                                    ELSE GenericBoolRange
    BY <1>7 DEF HandleCompare, Decided
  <2> QED
    BY <1>0, <1>1, <2>1, <2>2, MakeRangeFields DEF In, AlwaysTrue, AlwaysFalse, GenericBoolRange
<1>8. CASE pred = "le"
  <2>1. Flag(Holding(pred, x, y)) = IF x <= y THEN Unit ELSE 0
    BY <1>8 DEF Holding, Flag
  <2>2. HandleCompare(pred, a, b) = IF a.hi <= b.lo THEN AlwaysTrue ELSE IF a.lo > b.hi THEN AlwaysFalse
                                    ELSE GenericBoolRange
    BY <1>8 DEF HandleCompare, Decided
  <2> QED
    BY <1>0, <1>1, <2>1, <2>2, MakeRangeFields DEF In, AlwaysTrue, AlwaysFalse, GenericBoolRange
<1> QED
  BY <1>3, <1>4, <1>5, <1>6, <1>7, <1>8 DEF Comparisons

\* A quotient and a remainder that is less than the divisor are the only ones.
LEMMA DivisionUnique ==
    ASSUME NEW d \in Nat \ {0}, NEW q0 \in Int, NEW r0 \in 0..(d - 1)
    PROVE  (d * q0 + r0) \div d = q0 /\ (d * q0 + r0) % d = r0
<1> DEFINE n == d * q0 + r0
<1>1. n \in Int /\ d * q0 \in Int
  OBVIOUS
<1>2. n \div d \in Int /\ n = d * (n \div d) + (n % d) /\ n % d \in 0..(d - 1)
  BY <1>1
<1>3. q0 <= n \div d
  <2>1. d * q0 <= n
    BY <1>1
  <2> HIDE DEF n
  <2> QED
    BY <1>1, <2>1, QuotientGreatest
<1>4. ~(q0 + 1 <= n \div d)
  <2>1. d * (q0 + 1) = d * q0 + d
    OBVIOUS
  <2>2. ~(d * (q0 + 1) <= n)
    BY <1>1, <2>1
  <2> HIDE DEF n
  <2> QED
    BY <1>1, <2>2, QuotientGreatest
<1>5. n \div d = q0
  BY <1>2, <1>3, <1>4
<1> QED
  BY <1>1, <1>2, <1>5

\* Numbers that differ by a multiple of d leave the same remainder.
LEMMA SameRemainder ==
    ASSUME NEW n \in Int, NEW j \in Int, NEW d \in Nat \ {0}
    PROVE  (n + d * j) % d = n % d
<1>1. PICK h \in Int, r0 \in 0..(d - 1) : n = d * h + r0 /\ n % d = r0
  <2>1. n \div d \in Int /\ n % d \in 0..(d - 1) /\ n = d * (n \div d) + (n % d)
    OBVIOUS
  <2> QED
    BY <2>1
<1>2. PICK k \in Int : k = h + j
  OBVIOUS
<1>3. n + d * j = d * k + r0
  <2>1. d * (h + j) = d * h + d * j /\ d * h \in Int /\ d * j \in Int
    OBVIOUS
  <2> QED
    BY <1>1, <1>2, <2>1
<1>4. (d * k + r0) % d = r0
  BY DivisionUnique
<1> QED
  BY <1>1, <1>3, <1>4

\* A number whose bits from the sign bit of w bits on are even in number, like those
\* of the bounds around it, keeps its distance to them in the lower bits, which are
\* the same number with and without a sign.
LEMMA LowerBits ==
    ASSUME NEW w \in Nat \ {0}, NEW l \in Nat, NEW n \in Nat, NEW m \in Nat, l <= n, n <= m,
           l \div 2^(w-1) = m \div 2^(w-1), (l \div 2^(w-1)) % 2 = 0
    PROVE  /\ l % 2^w <= n % 2^w /\ n % 2^w <= m % 2^w
           /\ l % 2^w \in Int /\ n % 2^w \in Int /\ m % 2^w \in Int
           /\ n % 2^w < 2^(w-1)
<1>1. PICK h \in Nat \ {0}, k \in Nat \ {0} : h = 2^(w-1) /\ k = 2^w /\ k = 2 * h
  <2>1. w - 1 \in Nat /\ (w - 1) + 1 = w
    OBVIOUS
  <2> QED
    BY <2>1, PowerOfTwo
<1> DEFINE c == l \div h
<1>2. c \in Int /\ l \div h = c /\ m \div h = c /\ c % 2 = 0
  BY <1>1, QuotientBounds
<1>3. n \div h = c
  <2>1. l \div h <= n \div h /\ n \div h <= m \div h /\ n \div h \in Int
    BY <1>1, QuotientMonotonic, QuotientBounds
  <2> QED
    BY <1>2, <2>1
<1> DEFINE d == c \div 2
<1>4. d \in Int /\ c = 2 * d
  BY <1>2
<1> HIDE DEF c, d
<1>5. ASSUME NEW x \in Nat, x \div h = c
      PROVE  x % k = x - k * d /\ x - k * d \in 0..(h - 1)
  <2>1. h * c <= x /\ x < h * c + h
    <3>1. h * (x \div h) <= x /\ x < h * (x \div h) + h
      BY <1>1, QuotientBounds
    <3> QED
      BY <1>5, <3>1
  <2>2. h * c = k * d
    <3>1. h * (2 * d) = (2 * h) * d
      BY <1>1, <1>4
    <3> QED
      BY <1>1, <1>4, <3>1
  <2>3. k * d \in Int
    BY <1>1, <1>4
  <2>4. x - k * d \in 0..(h - 1)
    BY <2>1, <2>2, <2>3, <1>1
  <2>5. x % k = x - k * d
    <3> DEFINE y == x - k * d
    <3>1. y \in 0..(k - 1) /\ x = y + k * d
      BY <2>3, <2>4, <1>1
    <3> HIDE DEF y
    <3>2. x % k = y
      <4>1. y \in Int /\ d \in Int /\ k \in Nat \ {0}
        BY <3>1, <1>1, <1>4
      <4>2. (y + k * d) % k = y % k
        BY <4>1, SameRemainder
      <4> QED
        BY <3>1, <4>1, <4>2
    <3> QED
      BY <3>2 DEF y
  <2> QED
    BY <2>4, <2>5
<1>6. PICK j \in Int : j = k * d
  BY <1>1, <1>4
<1>7. /\ l % k = l - j /\ n % k = n - j /\ m % k = m - j
      /\ n - j \in 0..(h - 1)
  BY <1>2, <1>3, <1>5, <1>6
<1>8. n - j < h
  BY <1>1, <1>6, <1>7
<1>9. l - j <= n - j /\ n - j <= m - j
  BY <1>6
<1> QED
  BY <1>1, <1>6, <1>7, <1>8, <1>9

\* Truncated integers, read with or without a sign, are in the range of
\* handleTrunc, when the bounds are not negative, not wrapped apart and small.
LEMMA TruncSound ==
    ASSUME NEW a, Bounded(a), IsWhole(a), a.lo >= 0,
           TopBits(a.lo) = TopBits(a.hi), TopBits(a.lo) % 2 = 0,
           NEW x, In(x, a), x % Unit = 0,
           NEW z \in Readings(Bits(x \div Unit, TruncSize))
    PROVE  In(z, HandleTrunc(a, TruncSize))
<1>1. /\ x \in Int /\ a.lo \in Int /\ a.hi \in Int /\ a.lo <= x /\ x <= a.hi
      /\ a.lo % Unit = 0 /\ a.hi % Unit = 0 /\ Unit \in Nat \ {0}
      /\ TruncSize \in Nat \ {0}
  BY BitsAssumption, ArithmeticAssumption DEF In, Bounded, IsWhole
<1>2. PICK i \in Int, il \in Int, ih \in Int :
        /\ i = x \div Unit /\ il = a.lo \div Unit /\ ih = a.hi \div Unit
        /\ il <= i /\ i <= ih /\ a.lo = Unit * il
        /\ Down(a.lo) = a.lo /\ Up(a.hi) = a.hi
        /\ Whole(a.lo) = il /\ Whole(a.hi) = ih
  <2>1. x \div Unit \in Int
    BY <1>1, RoundingWhole
  <2>2. a.lo \div Unit \in Int /\ Down(a.lo) = a.lo /\ Whole(a.lo) = a.lo \div Unit
        /\ a.lo = Unit * (a.lo \div Unit)
    BY <1>1, RoundingWhole
  <2>3. a.hi \div Unit \in Int /\ Up(a.hi) = a.hi /\ Whole(a.hi) = a.hi \div Unit
    BY <1>1, RoundingWhole
  <2>4. a.lo \div Unit <= x \div Unit /\ x \div Unit <= a.hi \div Unit
    BY <1>1, QuotientMonotonic
  <2> QED
    BY <2>1, <2>2, <2>3, <2>4
<1>3. il \in Nat /\ i \in Nat /\ ih \in Nat
  <2>1. 0 <= il
    <3>1. il <= -1 => il * Unit <= (-1) * Unit
      BY <1>1, ProductOrder
    <3>2. il * Unit = a.lo /\ (-1) * Unit = -Unit
      BY <1>1, <1>2
    <3> QED
      BY <1>1, <1>2, <3>1, <3>2
  <2> QED
    BY <1>2, <2>1
<1> DEFINE k == 2^TruncSize
<1>4. /\ il % k <= i % k /\ i % k <= ih % k
      /\ il % k \in Int /\ i % k \in Int /\ ih % k \in Int
      /\ i % k < 2^(TruncSize-1)
  BY <1>1, <1>2, <1>3, LowerBits DEF TopBits
<1>5. z = (i % k) * Unit
  BY <1>2, <1>4 DEF Readings, Bits, AsSigned
<1>6. HandleTrunc(a, TruncSize) = MakeRange((il % k) * Unit, (ih % k) * Unit)
  BY <1>2, <1>3 DEF HandleTrunc
<1> HIDE DEF k
<1>7. (il % k) * Unit <= (i % k) * Unit /\ (i % k) * Unit <= (ih % k) * Unit
      /\ (i % k) * Unit \in Int
  BY <1>1, <1>4, ProductOrder
<1> QED
  BY <1>5, <1>6, <1>7, MakeRangeFields DEF In

\* What the handlers promise.
Promise ==
    \A x \in Numbers(p), y \in Numbers(q) :
        IsDefined(y) => \A z \in Outcomes(x, y) : RangeOf.lo <= z /\ z <= RangeOf.hi

\* The operands that there are.
Operands ==
    /\ op \in Ops /\ p \in Ranges
    /\ q \in (IF op \in Unary \cup {"square", "mulloads"} THEN {p} ELSE Ranges)
    /\ op \in OnIntegers => IsWhole(p) /\ IsWhole(q)
    /\ op \in Shifts => q.lo >= 0

\* The ranges of operands have integer bounds in their order.
LEMMA RangesAreBounded == \A x \in Ranges : Bounded(x)
<1> SUFFICES ASSUME NEW m \in Bounds \cup IntBounds, NEW n \in Bounds \cup IntBounds,
                    MakeRange(m, n).lo <= MakeRange(m, n).hi
             PROVE  Bounded(MakeRange(m, n))
  BY DEF Ranges, RangesOver
<1> QED
  BY ArithmeticAssumption, MakeRangeFields DEF Bounded

\* Each handler gives a range of all that its instruction makes of its operands.
LEMMA HandlersSound ==
    ASSUME Operands, ~RangeKnownWrong
    PROVE  Promise
<1>1. Bounded(p) /\ Bounded(q)
  BY RangesAreBounded DEF Operands
<1> SUFFICES ASSUME NEW x \in Numbers(p), NEW y \in Numbers(q), IsDefined(y),
                    NEW z \in Outcomes(x, y)
             PROVE  In(z, RangeOf)
  BY DEF Promise, In
<1>2. /\ In(x, p) /\ In(y, q)
      /\ op \in OnIntegers => x % Unit = 0 /\ y % Unit = 0 /\ IsWhole(p) /\ IsWhole(q)
  BY <1>1 DEF Numbers, In, Bounded, Operands
<1>3. CASE op = "add"
  <2>1. z = x + y /\ RangeOf = HandleAdd(p, q)
    BY <1>3 DEF RangeOf, Outcomes, Comparisons
  <2> QED
    BY <1>1, <1>2, <2>1, AddSubNegSound
<1>4. CASE op = "sub"
  <2>1. z = x - y /\ RangeOf = HandleSub(p, q)
    BY <1>4 DEF RangeOf, Outcomes, Comparisons
  <2> QED
    BY <1>1, <1>2, <2>1, AddSubNegSound
<1>5. CASE op = "mul"
  <2>1. z = Times(x, y) /\ RangeOf = HandleMul(p, q)
    BY <1>5 DEF RangeOf, Outcomes, Comparisons
  <2> QED
    BY <1>1, <1>2, <2>1, MulSound
<1>6. CASE op = "mulloads"
  <2>1. q = p
    BY <1>6 DEF Operands
  <2>2. p.lo >= 0 \/ p.hi <= 0
    BY <1>1, <1>6 DEF RangeKnownWrong, Bounded
  <2>3. z = Times(x, y) /\ RangeOf = HandleSquare(p)
    BY <1>6 DEF RangeOf, Outcomes, Comparisons
  <2> QED
    BY <1>1, <1>2, <2>1, <2>2, <2>3, SquareSound
<1>7. CASE op = "square"
  <2>1. z = Times(x, x) /\ RangeOf = HandleSquare(p)
    BY <1>7 DEF RangeOf, Outcomes, Comparisons
  <2> QED
    BY <1>1, <1>2, <2>1, SquareSound
<1>8. CASE op = "div"
  <2>1. z = Over(x, y) /\ RangeOf = HandleDiv(p, q) /\ Abs(y) >= DivEps
    BY <1>8 DEF RangeOf, Outcomes, Comparisons, IsDefined
  <2> QED
    BY <1>1, <1>2, <2>1, DivSound
<1>9. CASE op = "rem"
  <2>1. q.lo >= 0
    BY <1>1, <1>9 DEF RangeKnownWrong, Bounded
  <2>2. z = Remainder(x, y) /\ RangeOf = HandleRem(p, q) /\ y # 0
    BY <1>9 DEF RangeOf, Outcomes, Comparisons, IsDefined
  <2>3. x % Unit = 0 /\ y % Unit = 0
    BY <1>2, <1>9 DEF OnIntegers
  <2> QED
    BY <1>1, <1>2, <2>1, <2>2, <2>3, RemSound
<1>10. CASE op = "shl"
  <2>1. z = x * 2^(y \div Unit) /\ RangeOf = HandleShl(p, q)
    BY <1>10 DEF RangeOf, Outcomes, Comparisons
  <2>2. x % Unit = 0 /\ y % Unit = 0 /\ IsWhole(p) /\ IsWhole(q) /\ q.lo >= 0
    BY <1>2, <1>10 DEF OnIntegers, Shifts, Operands
  <2> QED
    BY <1>1, <1>2, <2>1, <2>2, ShlSound
<1>11. CASE op = "ashr"
  <2>1. z = Down(x \div 2^(y \div Unit)) /\ RangeOf = HandleAShr(p, q)
    BY <1>11 DEF RangeOf, Outcomes, Comparisons
  <2>2. x % Unit = 0 /\ y % Unit = 0 /\ IsWhole(p) /\ IsWhole(q) /\ q.lo >= 0
    BY <1>2, <1>11 DEF OnIntegers, Shifts, Operands
  <2> QED
    BY <1>1, <1>2, <2>1, <2>2, AShrSound
<1>12. CASE op = "neg"
  <2>1. z = -x /\ RangeOf = HandleNeg(p)
    BY <1>12 DEF RangeOf, Outcomes, Comparisons
  <2> QED
    BY <1>1, <1>2, <2>1, AddSubNegSound
<1>13. CASE op \in {"fromint", "fromfloat"}
  <2>1. z = x /\ RangeOf = p
    BY <1>13 DEF RangeOf, Outcomes, Comparisons
  <2> QED
    BY <1>2, <2>1
<1>14. CASE op = "toint"
  <2>1. z = Truncated(x) /\ RangeOf = HandleCastToSI(p)
    BY <1>14 DEF RangeOf, Outcomes, Comparisons
  <2> QED
    BY <1>1, <1>2, <2>1, RoundingSound
<1>15. CASE op = "trunc"
  <2>1. p.lo >= 0 /\ TopBits(p.lo) = TopBits(p.hi) /\ TopBits(p.lo) % 2 = 0
    <3>1. ~(p.lo < 0) /\ TopBits(p.lo) = TopBits(p.hi) /\ TopBits(p.lo) % 2 # 1
      BY <1>15 DEF RangeKnownWrong
    <3>2. TopBits(p.lo) \in Int
      <4>1. p.lo \in Int /\ p.lo % Unit = 0
        BY <1>1, <1>2, <1>15 DEF OnIntegers, IsWhole, Bounded
      <4>2. Whole(p.lo) \in Int
        BY <4>1, RoundingWhole
      <4>3. TruncSize - 1 \in Nat
        BY ArithmeticAssumption
      <4>4. 2^(TruncSize - 1) \in Nat \ {0}
        BY <4>3, PowerOfTwo
      <4> QED
        BY <4>2, <4>4, QuotientBounds DEF TopBits
    <3> QED
      BY <3>1, <3>2, <1>1 DEF Bounded
  <2>2. z \in Readings(Bits(x \div Unit, TruncSize)) /\ RangeOf = HandleTrunc(p, TruncSize)
    BY <1>15 DEF RangeOf, Outcomes, Comparisons
  <2>3. x % Unit = 0 /\ IsWhole(p)
    BY <1>2, <1>15 DEF OnIntegers
  <2> QED
    BY <1>1, <1>2, <2>1, <2>2, <2>3, TruncSound
<1>16. CASE op = "ceil"
  <2>1. z = Up(x) /\ RangeOf = HandleCallToCeil(p)
    BY <1>16 DEF RangeOf, Outcomes, Comparisons
  <2> QED
    BY <1>1, <1>2, <2>1, RoundingSound
<1>17. CASE op = "floor"
  <2>1. z = Down(x) /\ RangeOf = HandleCallToFloor(p)
    BY <1>17 DEF RangeOf, Outcomes, Comparisons
  <2> QED
    BY <1>1, <1>2, <2>1, RoundingSound
<1>18. CASE op = "fabs"
  <2>1. p.lo >= 0 \/ p.hi <= 0
    BY <1>1, <1>18 DEF RangeKnownWrong, Bounded
  <2>2. z = Abs(x) /\ RangeOf = HandleCallToFabs(p)
    BY <1>18 DEF RangeOf, Outcomes, Comparisons
  <2> QED
    BY <1>1, <1>2, <2>1, <2>2, FabsSound
<1>19. CASE op = "phi"
  <2>1. z \in {x, y} /\ RangeOf = UnionRange(p, q)
    BY <1>19 DEF RangeOf, Outcomes, Comparisons
  <2>2. In(z, p) \/ In(z, q)
    BY <1>2, <2>1
  <2> QED
    BY <1>1, <2>1, <2>2, PhiSound
<1>20. CASE op \in Comparisons
  <2>1. z = Flag(Holding(op, x, y)) /\ RangeOf = HandleCompare(op, p, q)
    BY <1>20 DEF RangeOf, Outcomes
  <2> QED
    BY <1>1, <1>2, <1>20, <2>1, CompareSound
<1>21. op \in Unary \cup Binary \cup Shifts \cup Comparisons
  BY ArithmeticAssumption DEF Operands
<1> QED
  BY <1>3, <1>4, <1>5, <1>6, <1>7, <1>8, <1>9, <1>10, <1>11, <1>12, <1>13, <1>14, <1>15, <1>16,
     <1>17, <1>18, <1>19, <1>20, <1>21 DEF Unary, Binary, Shifts

-----------------------------------------------------------------------------
\* The operands never change, and from its analysis on, an instruction keeps the
\* range that its handler gave it.
Analyzed == Operands /\ (phase = "analyze" \/ range = RangeOf)

\* No instruction is analyzed at first.
LEMMA AnalyzedAtFirst == Init => Analyzed
BY Zenon DEF Init, Analyzed, Operands

\* No step changes the operands, and only the analysis the range.
LEMMA AnalyzedKept == Analyzed /\ [Next]_vars => Analyzed'
<1> SUFFICES ASSUME Analyzed, [Next]_vars PROVE Analyzed'
  OBVIOUS
<1>1. op' = op /\ p' = p /\ q' = q
  BY DEF Next, vars, Analyze, Allocate, MergeTypes, Convert, Done
<1>2. \/ phase = "analyze" /\ range' = RangeOf
      \/ range' = range /\ (phase' = "analyze" => phase = "analyze")
  BY DEF Next, vars, Analyze, Allocate, MergeTypes, Convert, Done
<1>3. phase = "analyze" /\ range' = range => phase' = "analyze" \/ range' = RangeOf
  BY DEF Next, vars, Analyze, Allocate, MergeTypes, Convert, Done
<1>4. Operands'
  BY <1>1 DEF Analyzed, Operands, Ranges, RangesOver
<1>5. RangeOf' = RangeOf
  BY <1>1 DEF RangeOf
<1> QED
  BY <1>2, <1>3, <1>4, <1>5 DEF Analyzed

\* RangesSound: the range that the analysis gives an instruction contains all its
\* results, in every state and for all bounds.
THEOREM RangesAreSound == Spec => []RangesSound
<1>1. Analyzed => RangesSound
  BY HandlersSound DEF Analyzed, RangesSound, Promise
<1> QED
  BY <1>1, AnalyzedAtFirst, AnalyzedKept, PTL DEF Spec

\* Only the last bits count in a product of which only the last bits are kept.
LEMMA BitsOfProduct ==
    ASSUME NEW n \in Int, NEW k \in Int, NEW d \in Nat \ {0}
    PROVE  ((n % d) * k) % d = (n * k) % d
<1>1. PICK h \in Int, r0 \in 0..(d - 1) : n = d * h + r0 /\ n % d = r0
  <2>1. n \div d \in Int /\ n % d \in 0..(d - 1) /\ n = d * (n \div d) + (n % d)
    OBVIOUS
  <2> QED
    BY <2>1
<1>2. PICK g \in Int, e \in 0..(d - 1) : r0 * k = d * g + e /\ (r0 * k) % d = e
  <2>1. r0 * k \in Int
    OBVIOUS
  <2> QED
    BY <2>1
<1>3. n * k = d * (h * k + g) + e
  <2>1. n * k = d * (h * k) + r0 * k
    BY <1>1
  <2>2. h * k \in Int
    OBVIOUS
  <2>3. d * (h * k + g) = d * (h * k) + d * g
    BY <2>2
  <2> QED
    BY <1>2, <2>1, <2>2, <2>3
<1>4. h * k + g \in Int
  OBVIOUS
<1>5. (n * k) % d = e
  <2>1. PICK j \in Int : j = h * k + g
    BY <1>4
  <2>2. (d * j + e) % d = e
    BY DivisionUnique
  <2>3. n * k = d * j + e
    BY <1>3, <2>1
  <2> QED
    BY <2>2, <2>3
<1> QED
  BY <1>1, <1>2, <1>5

\* The numbers that a type has bit patterns for.
Fits(n, t0) ==
    IF t0.signed THEN -(2^(t0.width-1)) <= n /\ n < 2^(t0.width-1) ELSE 0 <= n /\ n < 2^t0.width

IsType(t0) == t0.width \in Nat \ {0} /\ t0.frac \in Nat /\ t0.signed \in BOOLEAN

\* Half of the bit patterns of a type are those of w - 1 bits.
LEMMA HalfOfPatterns ==
    ASSUME NEW w \in Nat \ {0}
    PROVE  \E h \in Nat \ {0} : h = 2^(w-1) /\ 2^w = 2 * h /\ 2^w \in Nat \ {0}
<1>1. w - 1 \in Nat /\ (w - 1) + 1 = w
  OBVIOUS
<1> QED
  BY <1>1, PowerOfTwo

\* The number of a bit pattern fits, and one that fits is that of its last bits.
LEMMA RawFits ==
    ASSUME NEW t0, IsType(t0), NEW u \in Patterns(t0)
    PROVE  Raw(u, t0) \in Int /\ Fits(Raw(u, t0), t0)
<1>1. PICK h \in Nat \ {0} : h = 2^(t0.width-1) /\ 2^t0.width = 2 * h
  BY HalfOfPatterns DEF IsType
<1>2. u \in 0..(2 * h - 1)
  BY <1>1 DEF Patterns
<1>3. CASE t0.signed
  <2>1. Raw(u, t0) = IF u < h THEN u ELSE u - 2 * h
    BY <1>1, <1>3 DEF Raw, AsSigned
  <2> QED
    BY <1>1, <1>2, <1>3, <2>1 DEF Fits
<1>4. CASE ~t0.signed
  BY <1>1, <1>2, <1>4 DEF Fits, Raw
<1> QED
  BY <1>3, <1>4

\* A number that fits is that of its last bits.
LEMMA BitsFit ==
    ASSUME NEW t0, IsType(t0), NEW n \in Int
    PROVE  Bits(n, t0.width) \in Patterns(t0) /\ (Fits(n, t0) => Raw(Bits(n, t0.width), t0) = n)
<1>1. PICK h \in Nat \ {0} : h = 2^(t0.width-1) /\ 2^t0.width = 2 * h
  BY HalfOfPatterns DEF IsType
<1>2. PICK d \in Nat \ {0} : d = 2 * h
  OBVIOUS
<1>3. n % d \in 0..(d - 1)
  OBVIOUS
<1>4. Bits(n, t0.width) = n % d
  BY <1>1, <1>2 DEF Bits
<1>5. Bits(n, t0.width) \in Patterns(t0)
  BY <1>1, <1>2, <1>3, <1>4 DEF Patterns
<1>6. ASSUME Fits(n, t0) PROVE Raw(Bits(n, t0.width), t0) = n
  <2>1. CASE n >= 0
    <3>1. n < d /\ (t0.signed => n < h)
      BY <1>1, <1>2, <1>6 DEF Fits
    <3>2. n % d = n
      BY <2>1, <3>1
    <3> QED
      BY <1>1, <1>2, <1>4, <3>1, <3>2 DEF Raw, AsSigned
  <2>2. CASE n < 0
    <3>1. t0.signed /\ -h <= n
      BY <1>1, <1>6, <2>2 DEF Fits
    <3>2. n = d * (-1) + (n + d) /\ n + d \in 0..(d - 1)
      BY <1>2, <2>2, <3>1
    <3>3. n % d = n + d
      BY <3>2, DivisionUnique
    <3> QED
      BY <1>1, <1>2, <1>4, <2>2, <3>1, <3>3 DEF Raw, AsSigned
  <2> QED
    BY <2>1, <2>2
<1> QED
  BY <1>5, <1>6

\* A type that has all the bits of another, one more if it has a sign and the
\* other has none.
Includes(c, t0) ==
    /\ t0.frac <= c.frac /\ (t0.signed => c.signed)
    /\ t0.width - t0.frac + (IF c.signed /\ ~t0.signed THEN 1 ELSE 0) <= c.width - c.frac

\* The conversion to it is exact.
LEMMA WideningExact ==
    ASSUME NEW t0, NEW c, IsType(t0), IsType(c), Includes(c, t0), NEW u \in Patterns(t0)
    PROVE  Raw(FixedToFixed(u, t0, c), c) = Raw(u, t0) * 2^(c.frac - t0.frac)
<1>1. PICK w \in Nat \ {0}, f \in Nat, W \in Nat \ {0}, F \in Nat, k \in Nat :
        w = t0.width /\ f = t0.frac /\ W = c.width /\ F = c.frac /\ k = F - f
        /\ w + k <= W /\ (c.signed /\ ~t0.signed => w + k + 1 <= W)
  BY DEF IsType, Includes
<1>2. PICK n \in Int : n = Raw(u, t0) /\ Fits(n, t0)
  BY RawFits
<1>3. PICK m \in Nat \ {0} : m = 2^k
  BY PowerOfTwo
<1>4. n * m \in Int
  OBVIOUS
<1>5. Fits(n * m, c)
  <2>1. CASE t0.signed
    <3>1. PICK h \in Nat \ {0}, g \in Nat \ {0} : h = 2^(w-1) /\ g = 2^(W-1) /\ h * m <= g
      <4>1. w - 1 \in Nat /\ W - 1 \in Nat /\ (w - 1) + k <= W - 1 /\ (w - 1) + k \in Nat
        BY <1>1
      <4>2. 2^((w - 1) + k) = 2^(w - 1) * 2^k
        BY <4>1, PowerOfSum
      <4>3. 2^((w - 1) + k) <= 2^(W - 1)
        BY <4>1, PowerGrows
      <4>4. 2^(w - 1) \in Nat \ {0} /\ 2^(W - 1) \in Nat \ {0}
        BY <4>1, PowerOfTwo
      <4> QED
        BY <1>3, <4>2, <4>3, <4>4
    <3>2. -h <= n /\ n < h /\ c.signed
      BY <1>1, <1>2, <2>1, <3>1 DEF Fits, Includes
    <3>3. -h \in Int /\ h - 1 \in Int /\ n <= h - 1
      BY <3>2
    <3>4. (-h) * m <= n * m /\ n * m <= (h - 1) * m
      BY <3>2, <3>3, ProductOrder
    <3>5. (-h) * m = -(h * m) /\ (h - 1) * m = h * m - m /\ h * m \in Int
      OBVIOUS
    <3>6. -g <= n * m /\ n * m < g
      BY <1>4, <3>1, <3>4, <3>5
    <3> QED
      BY <1>1, <3>1, <3>2, <3>6 DEF Fits
  <2>2. CASE ~t0.signed
    <3>1. PICK e \in Nat, b \in Nat \ {0}, g \in Nat \ {0} :
            /\ e = (IF c.signed THEN W - 1 ELSE W) /\ b = 2^w /\ g = 2^e /\ b * m <= g
      <4>1. PICK e \in Nat : e = (IF c.signed THEN W - 1 ELSE W)
        BY <1>1
      <4>2. w + k <= e
        BY <1>1, <2>2, <4>1
      <4>3. 2^(w + k) = 2^w * 2^k /\ 2^(w + k) <= 2^e
        BY <4>2, PowerOfSum, PowerGrows
      <4>4. 2^w \in Nat \ {0} /\ 2^e \in Nat \ {0}
        BY PowerOfTwo
      <4> QED
        BY <1>3, <4>1, <4>3, <4>4
    <3>2. 0 <= n /\ n <= b - 1 /\ b - 1 \in Int
      BY <1>1, <1>2, <2>2, <3>1 DEF Fits
    <3>3. 0 * m <= n * m /\ n * m <= (b - 1) * m
      BY <3>2, ProductOrder
    <3>4. 0 * m = 0 /\ (b - 1) * m = b * m - m /\ b * m \in Int
      OBVIOUS
    <3>5. 0 <= n * m /\ n * m < g
      BY <1>4, <3>1, <3>3, <3>4
    <3>6. CASE c.signed
      <4>1. g = 2^(c.width - 1)
        BY <1>1, <3>1, <3>6
      <4>2. -g <= n * m
        BY <1>4, <3>5
      <4> QED
        BY <3>5, <3>6, <4>1, <4>2 DEF Fits
    <3>7. CASE ~c.signed
      <4>1. g = 2^c.width
        BY <1>1, <3>1, <3>7
      <4> QED
        BY <3>5, <3>7, <4>1 DEF Fits
    <3> QED
      BY <3>6, <3>7
  <2> QED
    BY <2>1, <2>2
<1>6. ExtOrTrunc(u, t0.signed, t0.width, c.width) = Bits(n, c.width)
  BY <1>2 DEF ExtOrTrunc, Raw
<1>7. FixedToFixed(u, t0, c) = Bits(n * m, c.width)
  <2>1. c.frac - t0.frac = k /\ k >= 0
    BY <1>1
  <2>2. CASE c.width > t0.width
    <3>1. FixedToFixed(u, t0, c) = Shl(ExtOrTrunc(u, t0.signed, t0.width, c.width), k, c.width)
      BY <2>1, <2>2 DEF FixedToFixed
    <3>2. FixedToFixed(u, t0, c) = Bits(Bits(n, c.width) * m, c.width)
      BY <1>3, <1>6, <3>1 DEF Shl
    <3>3. PICK d \in Nat \ {0} : d = 2^c.width
      BY <1>1, PowerOfTwo
    <3>5. m \in Int
      OBVIOUS
    <3>4. ((n % d) * m) % d = (n * m) % d
      BY <3>5, BitsOfProduct, Zenon
    <3> QED
      BY <3>2, <3>3, <3>4 DEF Bits
  <2>3. CASE ~(c.width > t0.width)
    <3>1. k = 0 /\ c.width = t0.width
      BY <1>1, <2>3
    <3>2. m = 1 /\ n * m = n
      BY <1>3, <3>1, PowersFromZero
    <3>3. FixedToFixed(u, t0, c) = ExtOrTrunc(Shl(u, k, t0.width), t0.signed, t0.width, c.width)
      BY <2>1, <2>3 DEF FixedToFixed
    <3>4. Shl(u, k, t0.width) = u
      <4>1. PICK d \in Nat \ {0} : d = 2^t0.width
        BY <1>1, PowerOfTwo
      <4>2. u \in 0..(d - 1) /\ u * m = u
        BY <3>2, <4>1 DEF Patterns
      <4>3. u % d = u
        BY <4>2
      <4> QED
        BY <1>3, <4>1, <4>2, <4>3 DEF Shl, Bits
    <3> QED
      BY <1>6, <3>2, <3>3, <3>4
  <2> QED
    BY <2>2, <2>3
<1>8. Raw(Bits(n * m, c.width), c) = n * m
  BY <1>4, <1>5, BitsFit
<1> QED
  BY <1>1, <1>2, <1>3, <1>7, <1>8

\* convertCmp's type includes those of both operands, but where it is known not to.
LEMMA CmpTypeIncludes ==
    ASSUME IsType(s), IsType(r), ~CompareKnownWrong
    PROVE  LET c == CmpType(s, r) IN IsType(c) /\ Includes(c, s) /\ Includes(c, r)
BY DEF IsType, CompareKnownWrong, CmpType, Includes, Larger, SignBit

\* Comparing is not changed by a positive factor.
LEMMA HoldingScaled ==
    ASSUME NEW pred \in Comparisons, NEW m \in Int, NEW n \in Int, NEW k \in Nat \ {0}
    PROVE  Holding(pred, m, n) <=> Holding(pred, m * k, n * k)
<1>1. m * k \in Int /\ n * k \in Int
  OBVIOUS
<1>2. m <= n <=> m * k <= n * k
  <2>1. m <= n => m * k <= n * k
    BY ProductOrder
  <2>2. n + 1 <= m => (n + 1) * k <= m * k
    BY ProductOrder
  <2>3. (n + 1) * k = n * k + k
    OBVIOUS
  <2> QED
    BY <1>1, <2>1, <2>2, <2>3
<1>3. n <= m <=> n * k <= m * k
  <2>1. n <= m => n * k <= m * k
    BY ProductOrder
  <2>2. m + 1 <= n => (m + 1) * k <= n * k
    BY ProductOrder
  <2>3. (m + 1) * k = m * k + k
    OBVIOUS
  <2> QED
    BY <1>1, <2>1, <2>2, <2>3
<1> DEFINE M == m * k
           N == n * k
<1>4. M \in Int /\ N \in Int /\ (m <= n <=> M <= N) /\ (n <= m <=> N <= M)
  BY <1>1, <1>2, <1>3
<1> HIDE DEF M, N
<1>5. Holding(pred, m, n) <=> Holding(pred, M, N)
  BY SMTT(30), <1>4 DEF Holding, Comparisons
<1> QED
  BY <1>5 DEF M, N

\* The comparison of two operands in convertCmp's type is that of their numbers.
LEMMA CmpExact ==
    ASSUME IsType(s), IsType(r), ~CompareKnownWrong, op \in Comparisons,
           NEW u \in Patterns(s), NEW v \in Patterns(r)
    PROVE  Cmp(op, u, s, v, r) <=> Holding(op, Raw(u, s) * 2^r.frac, Raw(v, r) * 2^s.frac)
<1> DEFINE c == CmpType(s, r)
<1>1. IsType(c) /\ Includes(c, s) /\ Includes(c, r)
  BY CmpTypeIncludes
<1>2. PICK m \in Int, n \in Int : m = Raw(u, s) /\ n = Raw(v, r)
  BY RawFits
<1>3. /\ Raw(FixedToFixed(u, s, c), c) = m * 2^(c.frac - s.frac)
      /\ Raw(FixedToFixed(v, r, c), c) = n * 2^(c.frac - r.frac)
  <2> HIDE DEF c
  <2> QED
    BY <1>1, <1>2, WideningExact
<1>4. Cmp(op, u, s, v, r) = Holding(op, m * 2^(c.frac - s.frac), n * 2^(c.frac - r.frac))
  BY <1>3 DEF Cmp
<1>5. PICK f \in Nat, g \in Nat : f = s.frac /\ g = r.frac /\ c.frac = (IF f < g THEN g ELSE f)
  BY DEF IsType, CmpType, Larger
<1>10. PICK e \in Nat, a \in Nat, b \in Nat :
            e = (IF f < g THEN f ELSE g) /\ a = c.frac - f /\ b = c.frac - g /\ g = a + e /\ f = b + e
  BY <1>5
<1>7. PICK K \in Nat \ {0}, L \in Nat \ {0}, E \in Nat \ {0} : K = 2^a /\ L = 2^b /\ E = 2^e
  BY PowerOfTwo
<1>6. m * 2^g = (m * K) * E /\ n * 2^f = (n * L) * E
  <2>3. 2^g = K * E /\ 2^f = L * E
    <3>1. 2^(a + e) = 2^a * 2^e /\ 2^(b + e) = 2^b * 2^e
      BY PowerOfSum
    <3> QED
      BY <1>7, <1>10, <3>1
  <2>4. m * (K * E) = (m * K) * E /\ n * (L * E) = (n * L) * E
    OBVIOUS
  <2> QED
    BY <2>3, <2>4
<1>8. m * K \in Int /\ n * L \in Int
  OBVIOUS
<1>9. Holding(op, m * K, n * L) <=> Holding(op, (m * K) * E, (n * L) * E)
  <2>1. PICK M \in Int, N \in Int : M = m * K /\ N = n * L
    BY <1>8
  <2>2. Holding(op, M, N) <=> Holding(op, M * E, N * E)
    BY HoldingScaled
  <2> QED
    BY <2>1, <2>2
<1> HIDE DEF c
<1> QED
  BY <1>2, <1>4, <1>5, <1>6, <1>7, <1>9, <1>10

-----------------------------------------------------------------------------
\* The types chosen for ranges, and those that merging makes of them.
LEMMA TypesForRanges == \A x : x.finite => \A c \in TypeFor(x) : IsType(c)
<1> SUFFICES ASSUME NEW x, x.finite, NEW c \in TypeFor(x) PROVE IsType(c)
  OBVIOUS
<1> DEFINE m == Magnitude(x)
           i == WholeBits(m) + SignBit(x.lo < 0)
<1>2. PICK z \in ZeroBits(m) :
        c = [width |-> SizeFor(i, z),
             frac |-> IF SizeFor(i, z) - i < FracThreshold THEN 0 ELSE SizeFor(i, z) - i,
             signed |-> x.lo < 0]
  BY DEF TypeFor
<1>3. i \in Nat
  <2>1. IsFiniteSet(0..MaxExponent) /\ {k \in 0..MaxExponent : 2^k * Unit < m + Unit} \subseteq 0..MaxExponent
    BY FS_Interval, BitsAssumption
  <2>2. WholeBits(m) \in Nat
    BY <2>1, FS_Subset, FS_CardinalityType DEF WholeBits
  <2> QED
    BY <2>2 DEF SignBit
<1>4. SizeFor(i, z) \in Nat \ {0}
  <2>1. IsFiniteSet(1..MaxTotalBits)
        /\ {n \in 1..MaxTotalBits : TooSmall(n * TotalBits, i, z)} \subseteq 1..MaxTotalBits
    BY FS_Interval, BitsAssumption
  <2>2. Cardinality({n \in 1..MaxTotalBits : TooSmall(n * TotalBits, i, z)}) \in Nat
    BY <2>1, FS_Subset, FS_CardinalityType
  <2>3. PICK j \in Nat : SizeFor(i, z) = TotalBits * (1 + j)
    BY <2>2 DEF SizeFor
  <2>4. TotalBits * (1 + j) = TotalBits + TotalBits * j /\ TotalBits * j \in Nat
    BY BitsAssumption
  <2> QED
    BY <2>3, <2>4, BitsAssumption
<1> HIDE DEF i, m
<1> QED
  BY <1>2, <1>3, <1>4, BitsAssumption DEF IsType

HasFields(t0) == t0.width \in Nat /\ t0.frac \in Nat /\ t0.signed \in BOOLEAN

\* A merged type has the fields of a type, and a bit if one of the two has.
LEMMA MergedTypes ==
    ASSUME NEW c, NEW d, HasFields(c), HasFields(d), NEW m \in Merge(c, d)
    PROVE  HasFields(m) /\ (IsType(c) \/ IsType(d) => IsType(m))
<1> DEFINE signed == c.signed \/ d.signed
           width == Larger(c.width, d.width)
           frac == width - Larger(IntBits(c), IntBits(d)) - SignBit(signed)
<1>1. m = [width |-> width, frac |-> frac, signed |-> signed] /\ frac >= 0
  BY DEF Merge
<1>2. width \in Nat /\ (c.width # 0 \/ d.width # 0 => width # 0) /\ frac \in Int /\ signed \in BOOLEAN
  BY DEF HasFields, Larger, IntBits, SignBit
<1> HIDE DEF width, frac, signed
<1> QED
  BY <1>1, <1>2 DEF HasFields, IsType

\* Types of other values are types.
LEMMA OtherTypesHaveFields == \A u \in OtherTypes : HasFields(u)
BY ArithmeticAssumption DEF TypeT, HasFields

\* From their allocation on, the operands of a comparison have types of at least
\* one bit.
Allocated ==
    /\ Analyzed
    /\ phase \in {"merge", "done"} /\ op \in Comparisons => IsType(s) /\ IsType(r) /\ HasFields(t)

\* Neither merging nor converting takes the types of operands away.
LEMMA AllocatedKept == Allocated /\ [Next]_vars => Allocated'
<1> SUFFICES ASSUME Allocated, [Next]_vars,
                    phase' \in {"merge", "done"}, op' \in Comparisons
             PROVE  IsType(s)' /\ IsType(r)' /\ HasFields(t)'
  BY AnalyzedKept DEF Allocated
<1>1. CASE Analyze
  BY <1>1 DEF Analyze, Comparisons
<1>2. CASE Allocate
  <2>1. op \in Comparisons /\ op # "fromint" /\ op # "toint" /\ Operands
    BY <1>2 DEF Allocate, Comparisons, Allocated, Analyzed
  <2>2. s' \in TypeFor(p) /\ r' \in TypeFor(q) /\ t' = NoType
    BY <1>2, <2>1 DEF Allocate
  <2>3. p.finite /\ q.finite
    BY <2>1 DEF Operands, Ranges, RangesOver, MakeRange
  <2>4. IsType(s') /\ IsType(r')
    BY <2>2, <2>3, TypesForRanges
  <2>5. HasFields(t')
    BY <2>2 DEF HasFields, NoType
  <2> QED
    BY <2>4, <2>5 DEF IsType, HasFields
<1>3. CASE MergeTypes
  <2>1. /\ IsType(s) /\ IsType(r) /\ HasFields(s) /\ HasFields(r) /\ HasFields(t)
    BY <1>3 DEF MergeTypes, Allocated, IsType, HasFields
  <2>2. /\ \A m \in Merge(s, t) \cup Merge(r, t) \cup Merge(s, r) : IsType(m) /\ HasFields(m)
        /\ \A u \in OtherTypes : (\A m \in Merge(s, u) : IsType(m)) /\ (\A m \in Merge(t, u) : HasFields(m))
    <3>1. \A m \in Merge(s, t) \cup Merge(r, t) \cup Merge(s, r) : IsType(m) /\ HasFields(m)
      BY <2>1, MergedTypes
    <3>2. ASSUME NEW u \in OtherTypes
          PROVE  (\A m \in Merge(s, u) : IsType(m)) /\ (\A m \in Merge(t, u) : HasFields(m))
      <4>1. HasFields(u)
        BY OtherTypesHaveFields
      <4> QED
        BY <2>1, <4>1, MergedTypes
    <3> QED
      BY <3>1, <3>2
  <2>3. IsType(s') /\ IsType(r') /\ HasFields(t')
    BY <1>3, <2>1, <2>2 DEF MergeTypes
  <2> QED
    BY <2>3 DEF IsType, HasFields
<1>4. CASE Convert
  BY <1>4 DEF Convert, Allocated, IsType, HasFields
<1>5. CASE UNCHANGED vars \/ Done
  BY <1>5 DEF Done, vars, Allocated, IsType, HasFields
<1> QED
  BY <1>1, <1>2, <1>3, <1>4, <1>5 DEF Next

\* CompareExact: the comparison made of integers is that of the numbers, for all
\* operands, types and settings of the allocation.
THEOREM ComparesExactly == Spec => []CompareExact
<1>1. Init => Allocated
  BY AnalyzedAtFirst DEF Init, Allocated
<1>2. Allocated => CompareExact
  <2> SUFFICES ASSUME Allocated, phase = "done", op \in Comparisons, ~CompareKnownWrong,
                      NEW u \in Held(s, p), NEW v \in Held(r, q)
               PROVE  Cmp(op, u, s, v, r)
                        <=> Holding(op, Raw(u, s) * 2^r.frac, Raw(v, r) * 2^s.frac)
    BY DEF CompareExact
  <2>1. u \in Patterns(s) /\ v \in Patterns(r) /\ IsType(s) /\ IsType(r)
    BY DEF Held, Allocated
  <2> QED
    BY <2>1, CmpExact
<1> QED
  BY <1>1, <1>2, AllocatedKept, PTL DEF Spec

-----------------------------------------------------------------------------
(***************************************************************************)
(* Bits of numbers, of sums and of products.                               *)
(***************************************************************************)
\* What a remainder is.
LEMMA RemainderOf ==
    ASSUME NEW n \in Int, NEW d \in Nat \ {0}
    PROVE  n \div d \in Int /\ n % d \in 0..(d - 1) /\ n = d * (n \div d) + (n % d)
OBVIOUS

\* A number and its last bits differ by a multiple.
LEMMA BitsDiffer ==
    ASSUME NEW n \in Int, NEW w \in Nat, NEW d \in Nat \ {0}, d = 2^w
    PROVE  \E j \in Int : Bits(n, w) = n + d * j /\ Bits(n, w) \in Int
<1>2. n \div d \in Int /\ n % d \in 0..(d - 1) /\ n = d * (n \div d) + (n % d)
  BY RemainderOf
<1>3. PICK j \in Int : j = -(n \div d)
  BY <1>2
<1>4. d * j = -(d * (n \div d)) /\ d * (n \div d) \in Int
  BY <1>2, <1>3
<1>5. Bits(n, w) = n % d
  BY DEF Bits
<1>6. n % d = n + d * j /\ n % d \in Int
  BY <1>2, <1>3, <1>4
<1> QED
  BY <1>3, <1>5, <1>6

\* The last w bits of the last W bits, or of the number they are, are those of
\* the number.
LEMMA BitsOfBits ==
    ASSUME NEW n \in Int, NEW w \in Nat, NEW W \in Nat, w <= W
    PROVE  Bits(Bits(n, W), w) = Bits(n, w)
<1>0. PICK D \in Nat \ {0} : D = 2^W
  BY PowerOfTwo
<1>1. PICK j \in Int : Bits(n, W) = n + D * j /\ Bits(n, W) \in Int
  BY <1>0, BitsDiffer
<1>2. PICK d \in Nat \ {0}, k \in Nat \ {0} : d = 2^w /\ D = d * k
  <2>1. W - w \in Nat /\ w + (W - w) = W
    OBVIOUS
  <2>2. 2^(w + (W - w)) = 2^w * 2^(W - w) /\ 2^w \in Nat \ {0} /\ 2^(W - w) \in Nat \ {0}
    BY <2>1, PowerOfSum, PowerOfTwo
  <2> QED
    BY <1>0, <2>1, <2>2
<1>3. PICK i \in Int : i = k * j
  OBVIOUS
<1>4. Bits(n, W) = n + d * i
  BY <1>1, <1>2, <1>3
<1>5. PICK m \in Int : m = Bits(n, W)
  BY <1>1
<1>6. m % d = n % d
  <2>1. (n + d * i) % d = n % d
    BY SameRemainder
  <2> QED
    BY <1>4, <1>5, <2>1
<1> QED
  BY <1>2, <1>5, <1>6 DEF Bits

\* The last bits of the number of a bit pattern are those of the pattern.
LEMMA BitsOfRaw ==
    ASSUME NEW t0, IsType(t0), NEW x \in Patterns(t0), NEW w \in Nat, w <= t0.width
    PROVE  Bits(Raw(x, t0), w) = Bits(x, w)
<1>1. PICK W \in Nat \ {0} : W = t0.width /\ w <= W
  BY DEF IsType
<1>2. PICK d \in Nat \ {0}, k \in Nat \ {0} : d = 2^w /\ 2^W = d * k
  <2>1. W - w \in Nat /\ w + (W - w) = W
    BY <1>1
  <2>2. 2^(w + (W - w)) = 2^w * 2^(W - w) /\ 2^w \in Nat \ {0} /\ 2^(W - w) \in Nat \ {0}
    BY <2>1, PowerOfSum, PowerOfTwo
  <2> QED
    BY <2>1, <2>2
<1>3. x \in Int
  BY <1>1, <1>2 DEF Patterns
<1>4. CASE Raw(x, t0) = x
  BY <1>4
<1>5. CASE Raw(x, t0) = x - 2^W
  <2>1. PICK j \in Int : j = -k
    OBVIOUS
  <2>2. d * j = -(d * k) /\ d * k \in Int
    BY <2>1
  <2>3. Raw(x, t0) = x + d * j
    BY <1>2, <1>3, <1>5, <2>2
  <2>4. (x + d * j) % d = x % d
    BY <1>3, SameRemainder
  <2> QED
    BY <1>2, <2>3, <2>4 DEF Bits
<1> QED
  BY <1>1, <1>4, <1>5 DEF Raw, AsSigned

\* Sums, differences, negations and products of last bits.
LEMMA BitsOfSum ==
    ASSUME NEW m \in Int, NEW n \in Int, NEW w \in Nat
    PROVE  /\ Bits(Bits(m, w) + Bits(n, w), w) = Bits(m + n, w)
           /\ Bits(Bits(m, w) - Bits(n, w), w) = Bits(m - n, w)
           /\ Bits(-Bits(n, w), w) = Bits(-n, w)
<1>0. PICK d \in Nat \ {0} : d = 2^w
  BY PowerOfTwo
<1>1. PICK j \in Int : Bits(m, w) = m + d * j /\ Bits(m, w) \in Int
  BY <1>0, BitsDiffer
<1>2. PICK k \in Int : Bits(n, w) = n + d * k /\ Bits(n, w) \in Int
  BY <1>0, BitsDiffer
<1>3. PICK a \in Int, b \in Int, c \in Int : a = j + k /\ b = j - k /\ c = -k
  OBVIOUS
<1>4. d * a = d * j + d * k /\ d * b = d * j - d * k /\ d * c = -(d * k) /\ d * j \in Int /\ d * k \in Int
  BY <1>3
<1>5. /\ Bits(m, w) + Bits(n, w) = (m + n) + d * a
      /\ Bits(m, w) - Bits(n, w) = (m - n) + d * b
      /\ -Bits(n, w) = -n + d * c
  BY <1>1, <1>2, <1>4
<1>6. PICK x \in Int, y \in Int : x = Bits(m, w) /\ y = Bits(n, w)
  BY <1>1, <1>2
<1>7. x + y \in Int /\ x - y \in Int /\ -y \in Int /\ m + n \in Int /\ m - n \in Int /\ -n \in Int
  OBVIOUS
<1>8. \A l \in Int, e \in Int : (l + d * e) % d = l % d
  BY ZenonT(40), SameRemainder
<1>9. /\ ((m + n) + d * a) % d = (m + n) % d
      /\ ((m - n) + d * b) % d = (m - n) % d
      /\ (-n + d * c) % d = (-n) % d
  BY <1>3, <1>7, <1>8, Zenon
<1>10. /\ (x + y) % d = (m + n) % d
       /\ (x - y) % d = (m - n) % d
       /\ (-y) % d = (-n) % d
  BY <1>5, <1>6, <1>9, Zenon
<1> QED
  BY <1>0, <1>6, <1>10 DEF Bits

\* The last bits of a product are those of the product of numbers with the same last
\* bits.
LEMMA BitsOfTimes ==
    ASSUME NEW a \in Int, NEW b \in Int, NEW a1 \in Int, NEW b1 \in Int, NEW size \in Nat,
           Bits(a1, size) = Bits(a, size), Bits(b1, size) = Bits(b, size)
    PROVE  Bits(a1 * b1, size) = Bits(a * b, size)
<1>1. PICK d \in Nat \ {0} : d = 2^size
  BY PowerOfTwo
<1>2. a1 % d = a % d /\ b1 % d = b % d
  BY <1>1 DEF Bits
<1>3. (a1 * b1) % d = ((a1 % d) * b1) % d /\ (a * b1) % d = ((a % d) * b1) % d
  BY BitsOfProduct, Zenon
<1>4. (b1 * a) % d = ((b1 % d) * a) % d /\ (b * a) % d = ((b % d) * a) % d
  BY BitsOfProduct, Zenon
<1>5. b1 * a = a * b1 /\ b * a = a * b
  OBVIOUS
<1>6. (a1 * b1) % d = (a * b) % d
  BY <1>2, <1>3, <1>4, <1>5, Zenon
<1> QED
  BY <1>1, <1>6 DEF Bits

\* The last bits of a multiple are those of the multiple of a number with the same
\* last bits.
LEMMA BitsOfScaled ==
    ASSUME NEW a \in Int, NEW b \in Int, NEW k \in Int, NEW size \in Nat, Bits(a, size) = Bits(b, size)
    PROVE  Bits(a * k, size) = Bits(b * k, size)
<1> DEFINE Same(m, n) == Bits(m, size) = Bits(n, size)
<1>1. ASSUME NEW m \in Int, NEW n \in Int, Same(n, m),
             NEW m1 \in Int, NEW n1 \in Int, Same(n1, m1)
      PROVE  Same(n * n1, m * m1)
  BY <1>1, BitsOfTimes
<1>2. Same(a, b) /\ Same(k, k)
  OBVIOUS
<1> HIDE DEF Same
<1>3. Same(a * k, b * k)
  BY ONLY <1>1, <1>2, a \in Int, b \in Int, k \in Int
<1> QED
  BY <1>3 DEF Same

-----------------------------------------------------------------------------
(***************************************************************************)
(* Conversions between types.                                              *)
(***************************************************************************)
\* A type has what narrower types with the same sign have.
LEMMA WiderFits ==
    ASSUME NEW t0, NEW c, IsType(t0), IsType(c), t0.signed = c.signed, t0.width <= c.width,
           NEW n \in Int, Fits(n, t0)
    PROVE  Fits(n, c)
<1>1. PICK w \in Nat \ {0}, W \in Nat \ {0} : w = t0.width /\ W = c.width /\ w <= W
  BY DEF IsType
<1>2. w - 1 \in Nat /\ W - 1 \in Nat /\ w - 1 <= W - 1
  BY <1>1
<1>3. PICK h \in Nat, H \in Nat : h = 2^(w - 1) /\ H = 2^(W - 1) /\ h <= H
  BY <1>2, PowerGrows, PowerOfTwo
<1>4. PICK d \in Nat, D \in Nat : d = 2^w /\ D = 2^W /\ d <= D
  BY <1>1, PowerGrows, PowerOfTwo
<1> QED
  BY <1>1, <1>3, <1>4 DEF Fits

\* A factor that dividend and divisor share can be cancelled.
LEMMA MovedDown ==
    ASSUME NEW a \in Int, NEW b \in Nat \ {0}, NEW e \in Nat \ {0}
    PROVE  (a * b) \div (b * e) = a \div e
<1>1. PICK k \in Int : k = b * a /\ k = a * b
  OBVIOUS
<1>2. k \div b = a
  BY <1>1, QuotientOfMultiple
<1>3. (k \div b) \div e = k \div (b * e)
  BY QuotientTwice, ZenonT(40)
<1> QED
  BY <1>1, <1>2, <1>3

\* genConvertFixedToFixed: the number, at the new place of the point, rounded
\* down, of which the new type keeps the last bits.
LEMMA ConvertsDown ==
    ASSUME NEW t0, NEW d0, IsType(t0), IsType(d0), NEW u \in Patterns(t0)
    PROVE  FixedToFixed(u, t0, d0) = Bits((Raw(u, t0) * 2^d0.frac) \div 2^t0.frac, d0.width)
<1>1. PICK w \in Nat, f \in Nat, W \in Nat, F \in Nat, sg \in BOOLEAN :
        w = t0.width /\ f = t0.frac /\ W = d0.width /\ F = d0.frac /\ sg = t0.signed
  BY DEF IsType
<1>9. \A a \in Int, b \in Int, e \in Int : Bits(a, W) = Bits(b, W) => Bits(a * e, W) = Bits(b * e, W)
  <2> SUFFICES ASSUME NEW a \in Int, NEW b \in Int, NEW e \in Int, Bits(a, W) = Bits(b, W)
               PROVE  Bits(a * e, W) = Bits(b * e, W)
    OBVIOUS
  <2> QED
    BY BitsOfScaled, ZenonT(40)
<1>2. PICK num \in Int : num = Raw(u, t0) /\ Fits(num, t0)
  BY RawFits
<1>3. PICK g \in Nat \ {0}, G \in Nat \ {0} : g = 2^f /\ G = 2^F
  BY PowerOfTwo
<1>4. u \in Int
  <2>1. 2^w \in Nat
    BY PowerOfTwo
  <2> QED
    BY <1>1, <2>1 DEF Patterns
<1>5. \A x \in Patterns(t0) : ExtOrTrunc(x, sg, w, W) = Bits(Raw(x, t0), W)
  BY <1>1 DEF ExtOrTrunc, Raw
<1>6. \A x \in Patterns(t0) : W <= w => ExtOrTrunc(x, sg, w, W) = Bits(x, W)
  BY <1>1, <1>5, BitsOfRaw
<1>7. CASE f <= F
  <2>1. PICK k \in Nat : k = F - f
    BY <1>7
  <2>2. PICK m \in Nat \ {0} : m = 2^k
    BY PowerOfTwo
  <2>3. (num * G) \div g = num * m
    <3>1. G = g * m
      <4>1. f + k = F
        BY <2>1
      <4>2. 2^(f + k) = 2^f * 2^k
        BY PowerOfSum
      <4> QED
        BY <1>3, <2>2, <4>1, <4>2
    <3>2. PICK j \in Int : j = num * m
      OBVIOUS
    <3>3. num * G = g * j
      BY <3>1, <3>2
    <3>4. (g * j) \div g = j
      BY QuotientOfMultiple
    <3> QED
      BY <3>2, <3>3, <3>4
  <2>4. CASE W > w
    <3>1. FixedToFixed(u, t0, d0) = Shl(ExtOrTrunc(u, sg, w, W), k, W)
      BY <1>1, <1>7, <2>1, <2>4 DEF FixedToFixed
    <3>2. FixedToFixed(u, t0, d0) = Bits(Bits(num, W) * m, W)
      BY <1>2, <1>5, <2>2, <3>1 DEF Shl
    <3>3. Bits(Bits(num, W) * m, W) = Bits(num * m, W)
      <4>1. PICK i \in Int : i = Bits(num, W)
        <5>1. PICK D \in Nat \ {0} : D = 2^W
          BY PowerOfTwo
        <5> QED
          BY <5>1, BitsDiffer
      <4>2. Bits(i, W) = Bits(num, W)
        BY <4>1, BitsOfBits
      <4>3. m \in Int /\ num \in Int /\ i \in Int /\ W \in Nat
        OBVIOUS
      <4> QED
        BY <1>9, <4>1, <4>2, <4>3, Zenon
    <3> QED
      BY <1>1, <1>2, <1>3, <2>3, <3>2, <3>3
  <2>5. CASE ~(W > w)
    <3>1. FixedToFixed(u, t0, d0) = ExtOrTrunc(Shl(u, k, w), sg, w, W)
      BY <1>1, <1>7, <2>1, <2>5 DEF FixedToFixed
    <3>2. PICK j \in Int : j = u * m
      BY <1>4
    <3>3. Shl(u, k, w) = Bits(j, w) /\ Bits(j, w) \in Patterns(t0)
      BY <1>1, <2>2, <3>2, BitsFit DEF Shl
    <3>4. FixedToFixed(u, t0, d0) = Bits(j, W)
      <4>1. FixedToFixed(u, t0, d0) = Bits(Bits(j, w), W)
        BY <1>6, <2>5, <3>1, <3>3
      <4> QED
        BY <2>5, <4>1, BitsOfBits
    <3>5. Bits(u * m, W) = Bits(num * m, W)
      <4>1. Bits(num, W) = Bits(u, W)
        BY <1>1, <1>2, <2>5, BitsOfRaw
      <4>2. m \in Int /\ num \in Int /\ W \in Nat
        OBVIOUS
      <4> QED
        BY <1>4, <1>9, <4>1, <4>2, Zenon
    <3> QED
      BY <1>1, <1>2, <1>3, <2>3, <3>2, <3>4, <3>5
  <2> QED
    BY <2>4, <2>5
<1>8. CASE ~(f <= F)
  <2>1. PICK k \in Nat : k = f - F /\ k = -(F - f) /\ ~(F - f >= 0)
    BY <1>8
  <2>2. PICK m \in Nat \ {0} : m = 2^k
    BY PowerOfTwo
  <2>3. PICK y \in Int : y = num \div m
    BY QuotientBounds
  <2>4. (num * G) \div g = y
    <3>1. g = G * m
      <4>1. F + k = f
        BY <2>1
      <4>2. 2^(F + k) = 2^F * 2^k
        BY PowerOfSum
      <4> QED
        BY <1>3, <2>2, <4>1, <4>2
    <3>2. (num * G) \div (G * m) = num \div m
      BY MovedDown, Zenon
    <3> QED
      BY <2>3, <3>1, <3>2
  <2>5. CASE W > w
    <3>1. FixedToFixed(u, t0, d0) = Shr(ExtOrTrunc(u, sg, w, W), k, sg, W)
      BY <1>1, <2>1, <2>5 DEF FixedToFixed
    <3>2. PICK e : e = [width |-> W, frac |-> f, signed |-> sg]
      OBVIOUS
    <3>3. IsType(e) /\ Fits(num, e)
      <4>1. IsType(e) /\ e.signed = t0.signed /\ t0.width <= e.width
        BY <1>1, <2>5, <3>2 DEF IsType
      <4> QED
        BY <1>2, <4>1, WiderFits
    <3>4. Raw(Bits(num, W), e) = num
      BY <3>2, <3>3, BitsFit
    <3>5. Shr(Bits(num, W), k, sg, W) = Bits(num \div m, W)
      BY <2>2, <3>2, <3>4 DEF Shr, Raw
    <3>6. ExtOrTrunc(u, sg, w, W) = Bits(num, W)
      BY <1>2, <1>5
    <3> QED
      BY <1>1, <1>2, <1>3, <2>3, <2>4, <3>1, <3>5, <3>6
  <2>6. CASE ~(W > w)
    <3>1. FixedToFixed(u, t0, d0) = ExtOrTrunc(Shr(u, k, sg, w), sg, w, W)
      BY <1>1, <2>1, <2>6 DEF FixedToFixed
    <3>2. Shr(u, k, sg, w) = Bits(y, w)
      BY <1>1, <1>2, <2>2, <2>3 DEF Shr, Raw
    <3>3. Bits(y, w) \in Patterns(t0)
      BY <1>1, BitsFit
    <3>4. FixedToFixed(u, t0, d0) = Bits(Bits(y, w), W)
      BY <1>6, <2>6, <3>1, <3>2, <3>3
    <3>5. Bits(Bits(y, w), W) = Bits(y, W)
      BY <2>6, BitsOfBits
    <3> QED
      BY <1>1, <1>2, <1>3, <2>4, <3>4, <3>5
  <2> QED
    BY <2>5, <2>6
<1> QED
  BY <1>7, <1>8

\* A positive factor can be cancelled.
LEMMA Cancelled ==
    ASSUME NEW m \in Int, NEW n \in Int, NEW d \in Nat \ {0}
    PROVE  (m * d <= n * d => m <= n) /\ (m * d < n * d => m < n)
<1>1. m * d \in Int /\ n * d \in Int
  OBVIOUS
<1>2. n <= m => n * d <= m * d
  BY ProductOrder
<1>3. n + 1 <= m => (n + 1) * d <= m * d
  BY ProductOrder
<1>4. (n + 1) * d = n * d + d
  OBVIOUS
<1> QED
  BY <1>1, <1>2, <1>3, <1>4

\* What holds a range has the numbers less than a place outside of it.
LEMMA HoldsFits ==
    ASSUME NEW t0, IsType(t0), IntBits(t0) >= 0, NEW lo \in Int, NEW hi \in Int,
           Holds(t0, MakeRange(lo, hi)), NEW g, g = 2^t0.frac,
           NEW k \in Int, lo * g - Unit < k * Unit, k * Unit < hi * g + Unit
    PROVE  Fits(k, t0)
<1>1. PICK i \in Nat, w \in Nat, f \in Nat : i = IntBits(t0) /\ w = i + f /\ f = t0.frac
                 /\ w = (IF t0.signed THEN t0.width - 1 ELSE t0.width)
  BY DEF IsType, IntBits, SignBit
<1>2. PICK h \in Nat \ {0}, H \in Nat \ {0} : h = 2^i /\ H = 2^w /\ H = h * g /\ g \in Nat \ {0}
  <2>1. 2^(i + f) = 2^i * 2^f
    BY PowerOfSum
  <2> QED
    BY <1>1, <2>1, PowerOfTwo
<1>3. Unit \in Nat \ {0}
  BY BitsAssumption
<1>4. (lo < 0 => t0.signed) /\ -lo <= h * Unit /\ hi * g <= (H - 1) * Unit
  BY <1>1, <1>2, MakeRangeFields DEF Holds
<1>5. PICK L \in Int, M \in Int, K \in Int, B \in Int : L = lo * g /\ M = hi * g /\ K = k * Unit /\ B = H * Unit
  BY <1>2, <1>3
<1>6. k < H
  <2>1. (H - 1) * Unit = B - Unit
    BY <1>3, <1>5
  <2>2. K < B
    BY <1>2, <1>3, <1>4, <1>5, <2>1
  <2> QED
    BY <1>3, <1>5, <2>2, Cancelled
<1>7. CASE t0.signed
  <2>1. -L <= B
    <3>1. (-lo) * g <= (h * Unit) * g
      BY <1>2, <1>3, <1>4, ProductOrder
    <3>2. (-lo) * g = -(lo * g)
      BY <1>2
    <3>3. (h * Unit) * g = (h * g) * Unit
      BY <1>2, <1>3
    <3> QED
      BY <1>2, <1>5, <3>1, <3>2, <3>3
  <2>2. (-H - 1) * Unit < k * Unit
    <3>1. (-H - 1) * Unit = -(H * Unit) - Unit
      BY <1>3
    <3> QED
      BY <1>3, <1>5, <2>1, <3>1
  <2>3. -H - 1 < k
    <3>1. -H - 1 \in Int
      OBVIOUS
    <3> QED
      BY <1>3, <2>2, <3>1, Cancelled
  <2>4. H = 2^(t0.width - 1)
    BY <1>1, <1>2, <1>7
  <2> QED
    BY <1>6, <1>7, <2>3, <2>4 DEF Fits
<1>8. CASE ~t0.signed
  <2>1. 0 <= L
    <3>1. 0 * g <= lo * g
      BY <1>2, <1>4, <1>8, ProductOrder
    <3> QED
      BY <1>2, <1>5, <3>1
  <2>2. (-1) * Unit < k * Unit
    BY <1>3, <1>5, <2>1
  <2>3. -1 < k
    BY <1>3, <2>2, Cancelled
  <2>4. H = 2^t0.width
    BY <1>1, <1>2, <1>8
  <2> QED
    BY <1>6, <1>8, <2>3, <2>4 DEF Fits
<1> QED
  BY <1>7, <1>8

\* A number between two bounds, at another place of the point and rounded down:
\* it is less than a place below the lower bound, if at all.
LEMMA Floored ==
    ASSUME NEW a \in Int, NEW f \in Nat \ {0}, NEW g \in Nat \ {0}, NEW lo \in Int, NEW hi \in Int,
           lo * f <= a * Unit, a * Unit <= hi * f, NEW F, F = (a * g) \div f
    PROVE  /\ F \in Int /\ f * F <= a * g /\ a * g < f * F + f
           /\ lo * g - Unit < F * Unit /\ F * Unit <= hi * g
           /\ (lo * g) % Unit = 0 => lo * g <= F * Unit
<1>1. PICK U \in Nat \ {0} : U = Unit
  BY BitsAssumption
<1>2. PICK A \in Int : A = a * g
  OBVIOUS
<1>3. F \in Int /\ f * F <= A /\ A < f * F + f
  BY <1>2, QuotientBounds
<1>4. (lo * g) * f <= A * U
  <2>1. (lo * f) * g <= (a * U) * g
    BY <1>1, ProductOrder
  <2>2. (lo * f) * g = (lo * g) * f /\ (a * U) * g = (a * g) * U
    OBVIOUS
  <2> QED
    BY <1>2, <2>1, <2>2
<1>5. A * U <= (hi * g) * f
  <2>1. (a * U) * g <= (hi * f) * g
    BY <1>1, ProductOrder
  <2>2. (hi * f) * g = (hi * g) * f /\ (a * U) * g = (a * g) * U
    OBVIOUS
  <2> QED
    BY <1>2, <2>1, <2>2
<1>6. F * U <= hi * g
  <2>1. (f * F) * U <= A * U /\ (f * F) * U = (F * U) * f
    BY <1>3, ProductOrder
  <2>2. PICK x \in Int, y \in Int : x = F * U /\ y = hi * g
    BY <1>3
  <2>3. x * f <= y * f
    <3>1. x * f \in Int /\ y * f \in Int /\ A * U \in Int
      OBVIOUS
    <3> QED
      BY <1>5, <2>1, <2>2, <3>1
  <2> QED
    BY <2>2, <2>3, Cancelled
<1>7. lo * g - U < F * U
  <2>1. A + 1 <= f * F + f /\ A + 1 \in Int /\ f * F + f \in Int
    BY <1>3
  <2>2. (A + 1) * U <= (f * F + f) * U
    BY <2>1, ProductOrder
  <2>3. (A + 1) * U = A * U + U /\ (f * F + f) * U = (F * U + U) * f
    BY <1>3
  <2>4. PICK x \in Int, y \in Int : x = lo * g /\ y = F * U + U
    BY <1>3
  <2>5. x * f < y * f
    <3>1. x * f \in Int /\ y * f \in Int /\ A * U \in Int
      OBVIOUS
    <3> QED
      BY <1>4, <2>2, <2>3, <2>4, <3>1
  <2>6. x < y
    BY <2>5, Cancelled
  <2> QED
    BY <1>3, <2>4, <2>6
<1>8. ASSUME (lo * g) % U = 0 PROVE lo * g <= F * U
  <2>1. PICK P \in Int : lo * g = U * P
    <3>1. PICK x \in Int : x = lo * g
      OBVIOUS
    <3>2. x \div U \in Int /\ x = U * (x \div U)
      BY <1>8, <3>1, MultipleOf
    <3> QED
      BY <3>1, <3>2
  <2>2. (P * f) * U <= A * U
    <3>1. (P * f) * U = (U * P) * f
      OBVIOUS
    <3> QED
      BY <1>4, <2>1, <3>1
  <2>3. P * f <= A
    <3>1. P * f \in Int
      OBVIOUS
    <3> QED
      BY <2>2, <3>1, Cancelled
  <2>4. P <= F
    <3>1. f * P <= A
      BY <2>3
    <3> QED
      BY <1>2, <3>1, QuotientGreatest
  <2>5. P * U <= F * U
    BY <1>3, <2>4, ProductOrder
  <2> QED
    BY <2>1, <2>5
<1> QED
  BY <1>1, <1>2, <1>3, <1>6, <1>7, <1>8

-----------------------------------------------------------------------------
(***************************************************************************)
(* The ranges of products and quotients of fixed point numbers.            *)
(***************************************************************************)
\* A number of x, in places of which there are f to 1.
Within(a, f, x) == x.lo * f <= a * Unit /\ a * Unit <= x.hi * f

\* The numbers of which the range of a product or quotient is made.
FourOf(S) == \E a, b, c, d \in Int : S = {a, b, c, d}

\* What lies between two of the numbers, in places of which there are z to 1, is in
\* their range.
LEMMA HullAround ==
    ASSUME NEW S, FourOf(S), NEW z \in Nat, NEW n \in Int,
           \E k, l \in S : k * z <= n /\ n <= l * z
    PROVE  /\ Hull(S).lo \in Int /\ Hull(S).hi \in Int
           /\ Hull(S).lo * z <= n /\ n <= Hull(S).hi * z
<1>0. PICK a \in Int, b \in Int, c \in Int, d \in Int : S = {a, b, c, d}
  BY DEF FourOf
<1>1. PICK k \in S, l \in S : k * z <= n /\ n <= l * z
  OBVIOUS
<1>2. S \subseteq Int
  BY <1>0
<1>3. /\ Min(S) \in S /\ \A m \in S : Min(S) <= m
      /\ Max(S) \in S /\ \A m \in S : m <= Max(S)
      /\ Hull(S).lo = Min(S) /\ Hull(S).hi = Max(S)
  BY <1>0, HullOf
<1>4. PICK K \in Int, L \in Int, B \in Int, D \in Int :
        K = k /\ L = l /\ B = Hull(S).lo /\ D = Hull(S).hi /\ B <= K /\ L <= D
  BY <1>2, <1>3
<1>5. B * z <= K * z /\ L * z <= D * z
  BY <1>4, ProductOrder
<1>6. B * z \in Int /\ K * z \in Int /\ L * z \in Int /\ D * z \in Int
  OBVIOUS
<1> QED
  BY <1>1, <1>4, <1>5, <1>6

\* The product of two numbers is between those of the bounds, when these are exact.
LEMMA ProductWithin ==
    ASSUME NEW x, NEW y, Bounded(x), Bounded(y),
           \A m \in {x.lo, x.hi}, n \in {y.lo, y.hi} : (m * n) % Unit = 0,
           NEW a \in Int, NEW f \in Nat \ {0}, Within(a, f, x),
           NEW b \in Int, NEW h \in Nat \ {0}, Within(b, h, y)
    PROVE  /\ Within(a * b, f * h, HandleMul(x, y))
           /\ HandleMul(x, y).lo \in Int /\ HandleMul(x, y).hi \in Int
<1>1. PICK x1 \in Int, x2 \in Int, y1 \in Int, y2 \in Int :
        x1 = x.lo /\ x2 = x.hi /\ y1 = y.lo /\ y2 = y.hi
  BY DEF Bounded
<1>2. PICK U \in Nat \ {0} : U = Unit
  BY BitsAssumption
<1>3. PICK A \in Int, B \in Int, P1 \in Int, P2 \in Int, Q1 \in Int, Q2 \in Int :
        /\ A = a * U /\ B = b * U /\ P1 = x1 * f /\ P2 = x2 * f /\ Q1 = y1 * h /\ Q2 = y2 * h
  OBVIOUS
<1>4. P1 <= A /\ A <= P2 /\ Q1 <= B /\ B <= Q2
  BY <1>1, <1>2, <1>3 DEF Within
<1> DEFINE P == {P1 * Q1, P1 * Q2, P2 * Q1, P2 * Q2}
<1>5. PICK K \in P, L \in P : K <= A * B /\ A * B <= L
  BY <1>4, ProductBetween
<1>6. PICK c11 \in Int, c12 \in Int, c21 \in Int, c22 \in Int :
        c11 = Times(x1, y1) /\ c12 = Times(x1, y2) /\ c21 = Times(x2, y1) /\ c22 = Times(x2, y2)
  BY <1>2, QuotientBounds DEF Times
<1> DEFINE S == {c11, c12, c21, c22}
<1>7. HandleMul(x, y) = Hull(S)
  <2> DEFINE T == {Times(x.lo, y.lo), Times(x.lo, y.hi), Times(x.hi, y.lo), Times(x.hi, y.hi)}
  <2>1. {Times(m, n) : m \in {x.lo, x.hi}, n \in {y.lo, y.hi}} = T
    OBVIOUS
  <2> HIDE DEF T
  <2>2. HandleMul(x, y) = Hull(T)
    BY <2>1 DEF HandleMul
  <2> USE DEF T
  <2>3. T = S
    BY <1>1, <1>6
  <2> QED
    BY <2>2, <2>3
<1>8. PICK z \in Nat \ {0} : z = f * h
  OBVIOUS
<1>10. ASSUME NEW m \in {x1, x2}, NEW n \in {y1, y2}
       PROVE  (m * f) * (n * h) = (Times(m, n) * z) * U
  <2>1. m \in Int /\ n \in Int /\ (m * n) % U = 0
    BY <1>1, <1>2
  <2>2. PICK e \in Int : e = m * n
    BY <2>1
  <2>0. e % U = 0
    BY <2>1, <2>2
  <2>7. e \div U \in Int /\ e = U * (e \div U)
    BY <2>0, MultipleOf
  <2>3. PICK j \in Int : j = e \div U /\ e = U * j
    BY <2>7
  <2>4. Times(m, n) = j
    BY <1>2, <2>2, <2>3 DEF Times
  <2>5. (m * f) * (n * h) = (m * n) * (f * h)
    BY <2>1
  <2>6. (U * j) * z = (j * z) * U
    OBVIOUS
  <2> QED
    BY <1>8, <2>2, <2>3, <2>4, <2>5, <2>6
<1>11. /\ P1 * Q1 = (c11 * z) * U /\ P1 * Q2 = (c12 * z) * U
       /\ P2 * Q1 = (c21 * z) * U /\ P2 * Q2 = (c22 * z) * U
  BY <1>3, <1>6, <1>10
<1>12. PICK k \in S, l \in S : K = (k * z) * U /\ L = (l * z) * U
  BY <1>11
<1>13. k \in Int /\ l \in Int
  OBVIOUS
<1>14. PICK M \in Int : M = (a * b) * U /\ A * B = M * U
  <2>1. A * B = ((a * b) * U) * U
    BY <1>3
  <2> QED
    BY <2>1
<1>16. k * z <= M /\ M <= l * z
  <2>1. k * z \in Int /\ l * z \in Int
    BY <1>13
  <2>2. (k * z) * U <= M * U /\ M * U <= (l * z) * U
    BY <1>5, <1>12, <1>14
  <2> QED
    BY <2>1, <2>2, Cancelled
<1>18. Hull(S).lo * z <= M /\ M <= Hull(S).hi * z /\ Hull(S).lo \in Int /\ Hull(S).hi \in Int
  <2>1. \E i, j \in S : i * z <= M /\ M <= j * z
    BY <1>16
  <2>2. FourOf(S) /\ z \in Nat
    BY DEF FourOf
  <2> QED
    BY ONLY <2>1, <2>2, M \in Int, HullAround
<1> QED
  BY <1>2, <1>7, <1>8, <1>14, <1>18 DEF Within

\* An exact quotient of two bounds, one in finer units.
LEMMA OverExact ==
    ASSUME NEW e \in Int, NEW c \in Int, c # 0, (e * Unit) % Abs(c) = 0,
           NEW k \in Nat \ {0}, NEW h \in Nat \ {0}
    PROVE  Over(e * (k * h), c * h) = Over(e, c) * k /\ Over(e, c) \in Int
<1>1. PICK U \in Nat \ {0} : U = Unit
  BY BitsAssumption
<1>2. PICK C \in Nat \ {0} : C = Abs(c) /\ c = (IF c < 0 THEN -C ELSE C)
  BY DEF Abs
<1>3. PICK E \in Int : E = e * U
  OBVIOUS
<1>4. PICK j \in Int : E = C * j
  BY ZenonT(40), <1>1, <1>2, <1>3, MultipleOf
<1>5. PICK sg \in {1, -1} : sg = (IF c < 0 THEN -1 ELSE 1)
  OBVIOUS
<1>6. Over(e, c) = sg * j
  <2>1. (C * j) \div C = j
    BY QuotientOfMultiple
  <2>2. (C * (-j)) \div C = -j /\ C * (-j) = -(C * j)
    <3>1. -j \in Int
      OBVIOUS
    <3> QED
      BY <3>1, QuotientOfMultiple
  <2> QED
    BY <1>1, <1>2, <1>3, <1>4, <1>5, <2>1, <2>2 DEF Over
<1>7. PICK D \in Nat \ {0} : D = C * h
  OBVIOUS
<1>8. c * h = (IF c < 0 THEN -D ELSE D) /\ (c * h < 0 <=> c < 0)
  BY <1>2, <1>7
<1>9. (e * (k * h)) * U = D * (j * k)
  <2>1. (e * (k * h)) * U = (e * U) * (k * h)
    OBVIOUS
  <2>2. (C * j) * (k * h) = (C * h) * (j * k)
    OBVIOUS
  <2> QED
    BY <1>3, <1>4, <1>7, <2>1, <2>2
<1>10. Over(e * (k * h), c * h) = sg * (j * k)
  <2>1. PICK i \in Int : i = j * k
    OBVIOUS
  <2>2. (D * i) \div D = i
    BY QuotientOfMultiple
  <2>3. (D * (-i)) \div D = -i /\ D * (-i) = -(D * i)
    <3>1. -i \in Int
      OBVIOUS
    <3> QED
      BY <3>1, QuotientOfMultiple
  <2>4. PICK X \in Int, Y \in Int : X = e * (k * h) /\ Y = c * h
    OBVIOUS
  <2>5. Over(X, Y) = (IF c < 0 THEN (-(D * i)) \div D ELSE (D * i) \div D)
    BY <1>1, <1>8, <1>9, <2>1, <2>4 DEF Over
  <2> QED
    BY <1>5, <2>1, <2>2, <2>3, <2>4, <2>5
<1>11. sg * (j * k) = (sg * j) * k
  OBVIOUS
<1> QED
  BY <1>6, <1>10, <1>11

\* The dividend and the divisor, which is made positive, of a and b, of which there
\* are f and h to 1.
Dividend(a, b, h) == IF b < 0 THEN -(a * h) ELSE a * h

\* An exact quotient by a number that is a factor.
LEMMA OverFactor ==
    ASSUME NEW A \in Int, NEW B \in Int, B # 0, NEW h \in Nat \ {0}
    PROVE  Over(A * (h * Abs(B)), B) = Dividend(A, B, h) * Unit
<1>1. PICK U \in Nat \ {0} : U = Unit
  BY BitsAssumption
<1>2. PICK M \in Nat \ {0} : M = Abs(B) /\ B = (IF B < 0 THEN -M ELSE M)
  BY DEF Abs
<1>3. PICK X \in Int, i \in Int : X = A * (h * M) /\ i = (A * h) * U
  OBVIOUS
<1>4. X * U = M * i
  <2>1. (A * (h * M)) * U = M * ((A * h) * U)
    OBVIOUS
  <2> QED
    BY <1>3, <2>1
<1>5. CASE B > 0
  <2>1. Over(X, B) = (M * i) \div M
    BY <1>1, <1>2, <1>4, <1>5 DEF Over
  <2>2. (M * i) \div M = i
    BY QuotientOfMultiple
  <2> QED
    BY <1>1, <1>2, <1>3, <1>5, <2>1, <2>2 DEF Dividend
<1>6. CASE B < 0
  <2>1. PICK j \in Int : j = -i
    OBVIOUS
  <2>2. -(X * U) = M * j
    BY <1>4, <2>1
  <2>3. Over(X, B) = (M * j) \div M
    BY <1>1, <1>2, <1>6, <2>2 DEF Over
  <2>4. (M * j) \div M = j
    BY QuotientOfMultiple
  <2>5. j = (-(A * h)) * U
    BY <1>3, <2>1
  <2> QED
    BY <1>1, <1>2, <1>3, <1>6, <2>3, <2>4, <2>5 DEF Dividend
<1> QED
  BY <1>5, <1>6 DEF Dividend

\* The quotient of two bounds is exact.
Exact(m, n) == n # 0 /\ (m * Unit) % Abs(n) = 0

\* A number, of which there are f to 1, is between m and n.
Spans(A, f, m, n) == m * f <= A /\ A <= n * f

\* A divisor, of which there are h to 1, is between c and d, or beyond them.
Divides(B, h, c, d) ==
    \/ (c > 0 \/ d < 0) /\ c * h <= B /\ B <= d * h
    \/ c = -d /\ d > 0 /\ (B >= d * h \/ B <= -(d * h))

\* Quotients of numbers in finer units are between those of the bounds.
LEMMA CornersBetween ==
    ASSUME NEW x1 \in Int, NEW x2 \in Int, NEW c \in Int, NEW d \in Int, 
           Exact(x1, c), Exact(x1, d), Exact(x2, c), Exact(x2, d),
           NEW f \in Nat \ {0}, NEW h \in Nat \ {0},
           NEW A \in Int, Spans(A, f, x1, x2), NEW B \in Int, B # 0,
           Divides(B, h, c, d),
           NEW S, S = {Over(x1, c), Over(x1, d), Over(x2, c), Over(x2, d)}
    PROVE  \E k, l \in S : Spans(Dividend(A, B, h) * Unit, f * Abs(B), k, l)
<1>1. PICK M \in Nat \ {0} : M = Abs(B)
  BY DEF Abs
<1>2. PICK z \in Nat \ {0} : z = f * M
  OBVIOUS
<1> DEFINE T == {Over(m, n) * z : m \in {x1, x2}, n \in {c, d}}
<1>4. ASSUME NEW m \in {x1, x2}, NEW n \in {c, d}
      PROVE  Over(m * (z * h), n * h) = Over(m, n) * z
  <2>1. m \in Int /\ n \in Int /\ n # 0 /\ (m * Unit) % Abs(n) = 0
    BY DEF Exact
  <2> QED
    BY <2>1, OverExact
<1>5. PICK a1 \in Int, a2 \in Int, X \in Int, C \in Int, D \in Int :
        a1 = x1 * (z * h) /\ a2 = x2 * (z * h) /\ X = A * (h * M) /\ C = c * h /\ D = d * h
  OBVIOUS
<1>6. Over(a1, C) \in T /\ Over(a1, D) \in T /\ Over(a2, C) \in T /\ Over(a2, D) \in T
  BY <1>4, <1>5
<1>10. \A k \in T : \E i \in S : k = i * z
  OBVIOUS
<1> HIDE DEF T
<1>7. a1 <= X /\ X <= a2
  <2>1. PICK w \in Nat : w = h * M
    OBVIOUS
  <2>2. (x1 * f) * w <= A * w /\ A * w <= (x2 * f) * w
    <3>1. x1 * f \in Int /\ x2 * f \in Int
      OBVIOUS
    <3> QED
      BY <3>1, ProductOrder DEF Spans
  <2>3. (x1 * f) * (h * M) = x1 * ((f * M) * h) /\ (x2 * f) * (h * M) = x2 * ((f * M) * h)
    OBVIOUS
  <2> QED
    BY <1>2, <1>5, <2>1, <2>2, <2>3
<1>8. \E k, l \in T : k <= Over(X, B) /\ Over(X, B) <= l
  <2>1. CASE (c > 0 \/ d < 0) /\ C <= B /\ B <= D
    <3>1. C > 0 \/ D < 0
      BY <1>5, <2>1
    <3>2. a1 <= X /\ X <= a2 /\ C <= B /\ B <= D
      BY <1>7, <2>1
    <3>3. Over(a1, C) \in T /\ Over(a1, D) \in T /\ Over(a2, C) \in T /\ Over(a2, D) \in T
      BY <1>6
    <3> QED
      BY ONLY <3>1, <3>2, <3>3, OverBetween, a1 \in Int, a2 \in Int, X \in Int, B \in Int,
              C \in Int, D \in Int
  <2>2. CASE c = -d /\ d > 0 /\ (B >= D \/ B <= -D)
    <3>1. C = -D /\ D > 0
      BY <1>5, <2>2
    <3>2. PICK e \in Nat \ {0} : e = D
      BY <3>1
    <3>3. Over(a1, -e) \in T /\ Over(a1, e) \in T /\ Over(a2, -e) \in T /\ Over(a2, e) \in T
      BY <1>6, <3>1, <3>2
    <3>4. B >= e \/ B <= -e
      BY <2>2, <3>2
    <3> QED
      BY <1>7, <3>3, <3>4, OverFarFromZero
  <2> QED
    BY <1>5, <2>1, <2>2 DEF Divides
<1>9. Over(X, B) = Dividend(A, B, h) * Unit
  BY <1>1, <1>5, OverFactor
<1> QED
  BY <1>1, <1>2, <1>8, <1>9, <1>10 DEF Spans

\* The divisors of which handleDiv takes the quotients.
LeastDivisor(y) ==
    IF y.hi <= 0 THEN Min({y.lo, -DivEps}) ELSE IF y.lo < 0 THEN -DivEps ELSE Max({y.lo, DivEps})
GreatestDivisor(y) ==
    IF y.hi <= 0 THEN Min({y.hi, -DivEps}) ELSE IF y.lo < 0 THEN DivEps ELSE Max({y.hi, DivEps})

\* handleDiv: the least range with the quotients of the bounds by these two divisors.
LEMMA DivHull ==
    ASSUME NEW a, NEW b
    PROVE  HandleDiv(a, b) = Hull({Over(a.lo, LeastDivisor(b)), Over(a.lo, GreatestDivisor(b)),
                                   Over(a.hi, LeastDivisor(b)), Over(a.hi, GreatestDivisor(b))})
<1> DEFINE c == LeastDivisor(b)
           d == GreatestDivisor(b)
<1>1. HandleDiv(a, b) = Hull({Over(m, n) : m \in {a.lo, a.hi}, n \in {c, d}})
  BY DEF HandleDiv, LeastDivisor, GreatestDivisor
<1> HIDE DEF c, d
<1>2. {Over(m, n) : m \in {a.lo, a.hi}, n \in {c, d}}
        = {Over(a.lo, c), Over(a.lo, d), Over(a.hi, c), Over(a.hi, d)}
  OBVIOUS
<1> QED
  BY <1>1, <1>2 DEF c, d

\* The quotient of two numbers is between those of the bounds, when these are exact
\* and the divisor is not nearer to 0 than DIV_EPS (handleDiv).
LEMMA RatioWithin ==
    ASSUME NEW x, NEW y, Bounded(x), Bounded(y),
           \A m \in {x.lo, x.hi}, n \in {y.lo, y.hi, DivEps, -DivEps} :
               Abs(n) >= DivEps => (m * Unit) % Abs(n) = 0,
           NEW a \in Int, NEW f \in Nat \ {0}, Within(a, f, x),
           NEW b \in Int, NEW h \in Nat \ {0}, Within(b, h, y), Abs(b) * Unit >= DivEps * h
    PROVE  /\ Within(Dividend(a, b, h), f * Abs(b), HandleDiv(x, y)) /\ b # 0
           /\ HandleDiv(x, y).lo \in Int /\ HandleDiv(x, y).hi \in Int
<1> DEFINE cc == LeastDivisor(y)
           dd == GreatestDivisor(y)
<1>1. PICK x1 \in Int, x2 \in Int, y1 \in Int, y2 \in Int :
        x1 = x.lo /\ x2 = x.hi /\ y1 = y.lo /\ y2 = y.hi
  BY DEF Bounded
<1>2. PICK U \in Nat \ {0}, E \in Nat \ {0} : U = Unit /\ E = DivEps
  BY BitsAssumption, ArithmeticAssumption
<1>3. PICK A \in Int, B \in Int : A = a * U /\ B = b * U
  OBVIOUS
<1>4. x1 * f <= A /\ A <= x2 * f /\ y1 * h <= B /\ B <= y2 * h
  BY <1>1, <1>2, <1>3 DEF Within
<1>5. PICK M \in Nat \ {0} : M = Abs(b) /\ b = (IF b < 0 THEN -M ELSE M)
  <2>1. E * h \in Nat \ {0}
    OBVIOUS
  <2>2. b # 0
    BY <1>2, <2>1 DEF Abs
  <2> QED
    BY <2>2 DEF Abs
<1>6. Abs(B) = M * U /\ B # 0 /\ (B < 0 <=> b < 0) /\ B = (IF b < 0 THEN -(M * U) ELSE M * U)
  <2>1. M * U \in Nat \ {0}
    OBVIOUS
  <2>2. B = IF b < 0 THEN -(M * U) ELSE M * U
    BY <1>3, <1>5
  <2> QED
    BY <2>1, <2>2, <1>5 DEF Abs
<1>7. PICK P \in Nat \ {0} : P = E * h /\ (B >= P \/ B <= -P)
  <2>1. E * h \in Nat \ {0} /\ M * U \in Nat
    OBVIOUS
  <2> QED
    BY <1>2, <1>5, <1>6, <2>1
<1>8. PICK c \in Int, d \in Int :
        /\ c = cc /\ d = dd
        /\ c \in {y1, E, -E} /\ d \in {y2, E, -E} /\ (c >= E \/ c <= -E) /\ (d >= E \/ d <= -E)
        /\ \/ d < 0 /\ y2 <= 0 /\ c = (IF y1 <= -E THEN y1 ELSE -E) /\ d = (IF y2 <= -E THEN y2 ELSE -E)
           \/ c > 0 /\ y1 >= 0 /\ c = (IF y1 <= E THEN E ELSE y1) /\ d = (IF y2 <= E THEN E ELSE y2)
           \/ c = -E /\ d = E
  <2>0. -E \in Int /\ E \in Int /\ y1 <= y2
    BY <1>1 DEF Bounded
  <2>1. CASE y2 <= 0
    <3>1. cc = Min({y1, -E}) /\ dd = Min({y2, -E})
      BY <1>1, <1>2, <2>1 DEF LeastDivisor, GreatestDivisor
    <3>2. cc = (IF y1 <= -E THEN y1 ELSE -E) /\ dd = (IF y2 <= -E THEN y2 ELSE -E)
      BY <2>0, <3>1, MinOfTwo
    <3> HIDE DEF cc, dd
    <3> QED
      BY <2>0, <2>1, <3>2
  <2>2. CASE y2 > 0 /\ y1 < 0
    <3>1. cc = -E /\ dd = E
      BY <1>1, <1>2, <2>2 DEF LeastDivisor, GreatestDivisor
    <3> HIDE DEF cc, dd
    <3> QED
      BY <2>0, <3>1
  <2>3. CASE y2 > 0 /\ y1 >= 0
    <3>1. cc = Max({y1, E}) /\ dd = Max({y2, E})
      BY <1>1, <1>2, <2>3 DEF LeastDivisor, GreatestDivisor
    <3>2. cc = (IF y1 <= E THEN E ELSE y1) /\ dd = (IF y2 <= E THEN E ELSE y2)
      BY <2>0, <3>1, MaxOfTwo
    <3> HIDE DEF cc, dd
    <3> QED
      BY <2>0, <2>3, <3>2
  <2> HIDE DEF cc, dd
  <2> QED
    BY <2>0, <2>1, <2>2, <2>3
<1>9. c # 0 /\ d # 0 /\ \A m \in {x1, x2}, n \in {c, d} : (m * Unit) % Abs(n) = 0
  <2>1. \A n \in {c, d} : n \in {y.lo, y.hi, DivEps, -DivEps} /\ Abs(n) >= DivEps
    BY <1>1, <1>2, <1>8 DEF Abs
  <2> QED
    BY <1>1, <1>8, <2>1
<1>10. Divides(B, h, c, d)
  <2>0. (-E) * h = -P /\ h \in Nat /\ y1 * h \in Int /\ y2 * h \in Int /\ 0 * h = 0
    BY <1>7
  <2>1. CASE d < 0 /\ y2 <= 0 /\ c = (IF y1 <= -E THEN y1 ELSE -E) /\ d = (IF y2 <= -E THEN y2 ELSE -E)
    <3>1. y2 * h <= 0
      BY <2>0, <2>1, ProductOrder
    <3>2. B <= -P
      BY <1>4, <1>7, <2>0, <3>1
    <3>3. c * h <= y1 * h
      <4>1. c <= y1
        BY <2>1
      <4> QED
        BY <2>0, <4>1, ProductOrder
    <3>4. B <= d * h
      BY <1>4, <2>0, <2>1, <3>2
    <3>5. c * h \in Int /\ d * h \in Int
      OBVIOUS
    <3> QED
      BY <1>4, <2>0, <2>1, <3>3, <3>4, <3>5 DEF Divides
  <2>2. CASE c > 0 /\ y1 >= 0 /\ c = (IF y1 <= E THEN E ELSE y1) /\ d = (IF y2 <= E THEN E ELSE y2)
    <3>1. 0 <= y1 * h
      BY <2>0, <2>2, ProductOrder
    <3>2. P <= B
      BY <1>4, <1>7, <2>0, <3>1
    <3>3. y2 * h <= d * h
      <4>1. y2 <= d
        BY <2>2
      <4> QED
        BY <2>0, <4>1, ProductOrder
    <3>4. c * h <= B
      BY <1>4, <1>7, <2>0, <2>2, <3>2
    <3>5. c * h \in Int /\ d * h \in Int
      OBVIOUS
    <3> QED
      BY <1>4, <2>0, <2>2, <3>3, <3>4, <3>5 DEF Divides
  <2>3. CASE c = -E /\ d = E
    BY <1>7, <2>3 DEF Divides
  <2> QED
    BY <1>8, <2>1, <2>2, <2>3
<1> HIDE DEF cc, dd
<1>11. PICK S : S = {Over(x1, c), Over(x1, d), Over(x2, c), Over(x2, d)}
  OBVIOUS
<1>12. PICK k \in S, l \in S : Spans(Dividend(A, B, h) * Unit, f * Abs(B), k, l)
  <2>1. Spans(A, f, x1, x2) /\ B # 0 /\ c # 0 /\ d # 0
    BY <1>4, <1>6, <1>9 DEF Spans
  <2>2. Exact(x1, c) /\ Exact(x1, d) /\ Exact(x2, c) /\ Exact(x2, d)
    BY <1>9 DEF Exact
  <2> QED
    BY ONLY <1>10, <1>11, <2>1, <2>2, CornersBetween, x1 \in Int, x2 \in Int, c \in Int, d \in Int,
            A \in Int, B \in Int, f \in Nat \ {0}, h \in Nat \ {0}
<1>13. PICK o1 \in Int, o2 \in Int, o3 \in Int, o4 \in Int :
          o1 = Over(x1, c) /\ o2 = Over(x1, d) /\ o3 = Over(x2, c) /\ o4 = Over(x2, d)
  BY <1>9, OverIsQuotient
<1>14. HandleDiv(x, y) = Hull(S)
  BY <1>1, <1>8, <1>11, DivHull DEF cc, dd
<1>15. PICK N \in Int, z \in Nat \ {0} : N = Dividend(a, b, h) /\ z = f * M
  BY DEF Dividend
<1>16. Dividend(A, B, h) * Unit = (N * U) * U
  BY <1>2, <1>3, <1>6, <1>15 DEF Dividend
<1>17. k \in Int /\ l \in Int
  BY <1>11, <1>13
<1>18. k * z <= N * U /\ N * U <= l * z
  <2>1. k * (f * (M * U)) = (k * (f * M)) * U /\ l * (f * (M * U)) = (l * (f * M)) * U
    BY <1>17
  <2>2. PICK K \in Int, L \in Int, X \in Int : K = k * z /\ L = l * z /\ X = N * U
    BY <1>17
  <2>3. K * U <= X * U /\ X * U <= L * U
    BY <1>6, <1>12, <1>15, <1>16, <2>1, <2>2 DEF Spans
  <2> QED
    BY <2>2, <2>3, Cancelled
<1>19. Hull(S).lo * z <= N * U /\ N * U <= Hull(S).hi * z /\ Hull(S).lo \in Int /\ Hull(S).hi \in Int
  <2>1. PICK X \in Int : X = N * U
    OBVIOUS
  <2>2. \E i, j \in S : i * z <= X /\ X <= j * z
    BY <1>18, <2>1
  <2>3. FourOf(S) /\ z \in Nat
    BY <1>11, <1>13 DEF FourOf
  <2>4. Hull(S).lo * z <= X /\ X <= Hull(S).hi * z /\ Hull(S).lo \in Int /\ Hull(S).hi \in Int
    BY ONLY <2>2, <2>3, X \in Int, HullAround
  <2> QED
    BY <2>1, <2>4
<1> QED
  BY <1>2, <1>5, <1>14, <1>15, <1>19 DEF Within

-----------------------------------------------------------------------------
(***************************************************************************)
(* Rounding.                                                               *)
(***************************************************************************)
\* A number at another place of the point, rounded down, is less than a place off.
LEMMA OneNear ==
    ASSUME NEW a \in Int, NEW F \in Int, NEW f \in Nat \ {0}, NEW g \in Nat \ {0}, NEW h \in Nat \ {0},
           f * F <= a * g, a * g < f * F + f
    PROVE  \E x \in Nat : x < f * h /\ F * (f * h) = (a * h) * g - x
<1>1. PICK X \in Nat : X = a * g - f * F /\ X < f
  OBVIOUS
<1>2. PICK x \in Nat : x = X * h
  OBVIOUS
<1>3. x < f * h
  <2>1. (X + 1) * h <= f * h
    BY <1>1, ProductOrder
  <2>2. (X + 1) * h = X * h + h
    OBVIOUS
  <2> QED
    BY <1>2, <2>1, <2>2
<1>4. F * (f * h) = (a * h) * g - x
  <2>1. (f * F) * h = F * (f * h) /\ (a * g) * h = (a * h) * g
    OBVIOUS
  <2>2. (a * g - f * F) * h = (a * g) * h - (f * F) * h
    OBVIOUS
  <2>3. X * h = (a * h) * g - F * (f * h)
    BY <1>1, <2>1, <2>2
  <2>4. (a * h) * g \in Int /\ F * (f * h) \in Int
    OBVIOUS
  <2> QED
    BY <1>2, <2>3, <2>4
<1> QED
  BY <1>3, <1>4

\* So are sums and differences of two, less than two places off.
LEMMA SumNear ==
    ASSUME NEW a \in Int, NEW F \in Int, NEW f \in Nat \ {0}, NEW g \in Nat \ {0}, NEW h \in Nat \ {0},
           f * F <= a * g, a * g < f * F + f,
           NEW b \in Int, NEW G \in Int, h * G <= b * g, b * g < h * G + h
    PROVE  /\ Abs((F + G) * (f * h) - (a * h + b * f) * g) < 2 * (f * h)
           /\ Abs((F - G) * (f * h) - (a * h - b * f) * g) < 2 * (f * h)
<1>1. PICK x \in Nat : x < f * h /\ F * (f * h) = (a * h) * g - x
  BY OneNear
<1>2. PICK y \in Nat : y < f * h /\ G * (f * h) = (b * f) * g - y
  <2>1. \E y \in Nat : y < h * f /\ G * (h * f) = (b * f) * g - y
    BY OneNear
  <2>2. h * f = f * h
    OBVIOUS
  <2> QED
    BY <2>1, <2>2
<1>3. PICK z \in Nat : z = f * h
  OBVIOUS
<1>4. PICK A \in Int, B \in Int : A = (a * h) * g /\ B = (b * f) * g
  OBVIOUS
<1>5. (a * h + b * f) * g = A + B /\ (a * h - b * f) * g = A - B
  BY <1>4
<1>6. (F + G) * z = F * z + G * z /\ (F - G) * z = F * z - G * z
  OBVIOUS
<1>7. F * z = A - x /\ G * z = B - y /\ x < z /\ y < z
  BY <1>1, <1>2, <1>3, <1>4
<1>8. (F + G) * z - (A + B) = -x - y /\ (F - G) * z - (A - B) = y - x
  BY <1>6, <1>7
<1>9. Abs(-x - y) < 2 * z /\ Abs(y - x) < 2 * z
  BY <1>7 DEF Abs
<1> QED
  BY <1>3, <1>5, <1>8, <1>9

\* n with the sign that it has when b is made positive.
Mirrored(n, b) == IF b < 0 THEN -n ELSE n

\* Z is a quotient of n by m towards zero, or nearer to it.
TowardsZero(n, m, Z) ==
    /\ n >= 0 => Z >= 0 /\ m * Z <= n
    /\ n < 0 => Z <= 0 /\ n <= m * Z

\* Towards zero, a quotient is less than one off, and of its dividend's sign.
LEMMA QuotientOf ==
    ASSUME NEW n \in Int, NEW b \in Int, b # 0
    PROVE  /\ Quotient(n, b) \in Int /\ Abs(b) \in Nat \ {0} /\ Mirrored(n, b) \in Int
           /\ TowardsZero(Mirrored(n, b), Abs(b), Quotient(n, b))
           /\ Mirrored(n, b) >= 0 => Quotient(n, b) <= Mirrored(n, b)
           /\ Mirrored(n, b) < 0 => Mirrored(n, b) <= Quotient(n, b)
           /\ \E y \in Int : b * Quotient(n, b) = n - y /\ -Abs(b) < y /\ y < Abs(b)
<1>0. PICK m, d, Z : m = Abs(b) /\ d = (IF b < 0 THEN -n ELSE n) /\ Z = Quotient(n, b) /\ d = Mirrored(n, b)
  BY DEF Mirrored
<1>1. m \in Nat \ {0} /\ d \in Int /\ (b = m \/ b = -m) /\ (b < 0 <=> b = -m)
  BY <1>0 DEF Abs
<1>2. CASE d >= 0
  <2>1. Abs(n) = d /\ ((n < 0) = (b < 0) \/ n = 0)
    BY <1>0, <1>1, <1>2 DEF Abs
  <2>2. 0 \div m = 0
    BY <1>1
  <2>3. Z = d \div m
    BY <1>0, <1>1, <2>1, <2>2 DEF Quotient, Abs
  <2>4. Z \in Int /\ m * Z <= d /\ d < m * Z + m
    BY <1>1, <1>2, <2>3, QuotientBounds
  <2>5. 0 <= Z
    BY <1>1, <1>2, <2>2, <2>3, QuotientMonotonic
  <2>6. PICK x \in Nat : x = d - m * Z /\ x < m
    BY <1>1, <2>4
  <2>7. Z <= d
    <3>1. 1 * Z <= m * Z
      BY <1>1, <2>4, <2>5, ProductOrder
    <3> QED
      BY <1>1, <2>4, <3>1
  <2>8. \E y \in Int : b * Z = n - y /\ -m < y /\ y < m
    <3>1. CASE b = m /\ n = d
      BY <1>1, <2>4, <2>6, <3>1
    <3>2. CASE b = -m /\ n = -d
      <4>1. PICK K \in Int : K = m * Z /\ b * Z = -K
        BY <1>1, <2>4, <3>2
      <4>2. PICK y \in Int : y = -x
        OBVIOUS
      <4>3. b * Z = n - y /\ -m < y /\ y < m
        <5>1. x = d - K
          BY <2>6, <4>1
        <5> QED
          BY <1>1, <2>6, <3>2, <4>1, <4>2, <5>1
      <4> QED
        BY <4>3
    <3> QED
      BY <1>0, <1>1, <3>1, <3>2
  <2> QED
    BY <1>0, <1>1, <1>2, <2>4, <2>5, <2>7, <2>8 DEF TowardsZero
<1>3. CASE d < 0
  <2>1. Abs(n) = -d /\ ((n < 0) # (b < 0))
    BY <1>0, <1>1, <1>3 DEF Abs
  <2>0. PICK e \in Nat : e = -d
    BY <1>1, <1>3
  <2>2. 0 \div m = 0
    BY <1>1
  <2>3. PICK W \in Int : W = e \div m /\ Z = -W
    <3>1. e \div m \in Int
      BY <1>1, QuotientBounds
    <3> QED
      BY <1>0, <1>1, <2>0, <2>1, <3>1 DEF Quotient
  <2>4. m * W <= e /\ e < m * W + m
    <3>1. m * (e \div m) <= e /\ e < m * (e \div m) + m
      BY <1>1, QuotientBounds
    <3> QED
      BY <2>3, <3>1
  <2>5. 0 <= W
    BY <1>1, <2>2, <2>3, QuotientMonotonic
  <2>6. PICK x \in Nat : x = e - m * W /\ x < m
    BY <1>1, <2>4
  <2>7. W <= e
    <3>1. 1 * W <= m * W
      BY <1>1, <2>5, ProductOrder
    <3> QED
      BY <1>1, <2>4, <3>1
  <2>8. \E y \in Int : b * Z = n - y /\ -m < y /\ y < m
    <3>1. CASE b = m /\ n = d
      <4>1. b * Z = -(m * W) /\ m * W \in Int
        BY <1>1, <2>3, <3>1
      <4>2. PICK y \in Int : y = -x
        OBVIOUS
      <4>3. b * Z = n - y /\ -m < y /\ y < m
        BY <1>1, <2>0, <2>4, <2>6, <3>1, <4>1, <4>2
      <4> QED
        BY <4>3
    <3>2. CASE b = -m /\ n = -d
      <4>1. b * Z = m * W /\ m * W \in Int
        BY <1>1, <2>3, <3>2
      <4>2. x \in Int /\ b * Z = n - x /\ -m < x /\ x < m
        BY <1>1, <2>0, <2>4, <2>6, <3>2, <4>1
      <4> QED
        BY <4>2
    <3> QED
      BY <1>0, <1>1, <3>1, <3>2
  <2>9. Z \in Int /\ Z <= 0 /\ d <= Z
    BY <1>1, <2>0, <2>3, <2>5, <2>7
  <2>10. d <= m * Z
    <3>1. m * Z = -(m * W) /\ m * W \in Int
      BY <1>1, <2>3
    <3> QED
      BY <1>1, <2>0, <2>4, <3>1
  <2> QED
    BY <1>0, <1>1, <1>3, <2>8, <2>9, <2>10 DEF TowardsZero
<1> QED
  BY <1>0, <1>1, <1>2, <1>3 DEF TowardsZero

\* And at another place of the point, rounded down.
LEMMA QuotientNear ==
    ASSUME NEW a \in Int, NEW b \in Int, b # 0, NEW h \in Nat \ {0}, NEW f \in Nat \ {0}, NEW g \in Nat \ {0},
           NEW Z \in Int, NEW y \in Int, b * Z = a * h - y, -Abs(b) < y, y < Abs(b),
           NEW F \in Int, f * F <= Z * g, Z * g < f * F + f
    PROVE  Abs((F * b) * f - a * (h * g)) < Abs(b) * (f + g)
<1>1. PICK X \in Nat : X = Z * g - f * F /\ X < f
  OBVIOUS
<1>2. PICK M \in Nat \ {0} : M = Abs(b) /\ (b = M \/ b = -M) /\ -M < y /\ y < M
  BY DEF Abs
<1>3. (F * b) * f - a * (h * g) = -(y * g) - X * b
  <2>1. (F * b) * f = (f * F) * b
    OBVIOUS
  <2>2. f * F = Z * g - X
    BY <1>1
  <2>3. (Z * g - X) * b = (b * Z) * g - X * b
    OBVIOUS
  <2>4. (a * h - y) * g = a * (h * g) - y * g
    OBVIOUS
  <2>5. a * (h * g) \in Int /\ y * g \in Int /\ X * b \in Int
    OBVIOUS
  <2> QED
    BY <2>1, <2>2, <2>3, <2>4, <2>5
<1>4. PICK Y \in Nat : (y = Y \/ y = -Y) /\ Y < M
  BY <1>2
<1>5. Y * g < M * g
  <2>1. (Y + 1) * g <= M * g
    BY <1>4, ProductOrder
  <2>2. (Y + 1) * g = Y * g + g
    OBVIOUS
  <2> QED
    BY <2>1, <2>2
<1>6. X * M < f * M
  <2>1. (X + 1) * M <= f * M
    BY <1>1, ProductOrder
  <2>2. (X + 1) * M = X * M + M
    OBVIOUS
  <2> QED
    BY <2>1, <2>2
<1>7. PICK A \in Nat, B \in Nat : A = Y * g /\ B = X * M
  OBVIOUS
<1>8. (y * g = A \/ y * g = -A) /\ (X * b = B \/ X * b = -B)
  BY <1>2, <1>4, <1>7
<1>9. M * (f + g) = f * M + M * g
  OBVIOUS
<1>10. PICK K \in Nat, L \in Nat : K = M * g /\ L = f * M
  OBVIOUS
<1>11. PICK D \in Int : D = (F * b) * f - a * (h * g)
  OBVIOUS
<1>12. -(A + B) <= D /\ D <= A + B /\ A < K /\ B < L
  BY <1>3, <1>5, <1>6, <1>7, <1>8, <1>10, <1>11
<1>13. Abs(D) < K + L
  BY <1>12 DEF Abs
<1> QED
  BY <1>2, <1>9, <1>10, <1>11, <1>13

-----------------------------------------------------------------------------
(***************************************************************************)
(* What is less than a place outside of a range.                           *)
(***************************************************************************)
\* The bit pattern of a number in the range x.
InRange(u, t0, x) == u \in Patterns(t0) /\ Within(Raw(u, t0), 2^t0.frac, x)

\* What Held has are the bit patterns of the numbers in the range.
LEMMA HeldInRange == \A t0, x : \A u \in Held(t0, x) : InRange(u, t0, x)
BY DEF Held, InRange, Within

\* The numbers of a type, and its place of the point.
LEMMA ScaleOf ==
    ASSUME NEW t0, IsType(t0)
    PROVE  2^t0.frac \in Nat \ {0}
BY PowerOfTwo DEF IsType

\* The places after the point of two types together.
LEMMA ScaleOfBoth ==
    ASSUME NEW t0, IsType(t0), NEW d0, IsType(d0)
    PROVE  2^(t0.frac + d0.frac) = 2^t0.frac * 2^d0.frac
BY PowerOfSum DEF IsType

\* A number in a range, converted, is less than a place below the lower bound, if
\* at all.
LEMMA ConvertedNear ==
    ASSUME NEW t0, NEW d0, IsType(t0), IsType(d0), NEW x, Bounded(x), NEW u, InRange(u, t0, x)
    PROVE  \E F \in Int : /\ FixedToFixed(u, t0, d0) = Bits(F, d0.width)
                          /\ 2^t0.frac * F <= Raw(u, t0) * 2^d0.frac
                          /\ Raw(u, t0) * 2^d0.frac < 2^t0.frac * F + 2^t0.frac
                          /\ x.lo * 2^d0.frac - Unit < F * Unit
                          /\ F * Unit <= x.hi * 2^d0.frac
                          /\ (x.lo * 2^d0.frac) % Unit = 0 => x.lo * 2^d0.frac <= F * Unit
<1>1. PICK f \in Nat \ {0}, g \in Nat \ {0} : f = 2^t0.frac /\ g = 2^d0.frac
  BY ScaleOf
<1>2. PICK a \in Int : a = Raw(u, t0)
  BY RawFits DEF InRange
<1>3. PICK lo \in Int, hi \in Int : lo = x.lo /\ hi = x.hi
  BY DEF Bounded
<1>4. lo * f <= a * Unit /\ a * Unit <= hi * f
  BY <1>1, <1>2, <1>3 DEF InRange, Within
<1>5. PICK F : F = (a * g) \div f
  OBVIOUS
<1>6. /\ F \in Int /\ f * F <= a * g /\ a * g < f * F + f
      /\ lo * g - Unit < F * Unit /\ F * Unit <= hi * g
      /\ (lo * g) % Unit = 0 => lo * g <= F * Unit
  BY <1>4, <1>5, Floored
<1>7. FixedToFixed(u, t0, d0) = Bits(F, d0.width)
  BY <1>1, <1>2, <1>5, ConvertsDown DEF InRange
<1> QED
  BY <1>1, <1>2, <1>3, <1>6, <1>7

\* What the operands and the result are like when the code is run.
Typed == IsType(s) /\ IsType(r) /\ IsType(t) /\ IntBits(t) >= 0 /\ Bounded(p) /\ Bounded(q)

\* Close, of a sum.
LEMMA CloseSum ==
    ASSUME op = "add", IsType(s), IsType(r), NEW a, NEW b, NEW c,
           LET z == 2^s.frac * 2^r.frac
           IN  Abs(c * z - (a * 2^r.frac + b * 2^s.frac) * 2^t.frac) < 2 * z
    PROVE  Close(a, b, c)
<1>1. 2^(s.frac + r.frac) = 2^s.frac * 2^r.frac
  BY ScaleOfBoth
<1> QED
  BY <1>1 DEF Close

\* Close, of a difference.
LEMMA CloseDifference ==
    ASSUME op = "sub", IsType(s), IsType(r), NEW a, NEW b, NEW c,
           LET z == 2^s.frac * 2^r.frac
           IN  Abs(c * z - (a * 2^r.frac - b * 2^s.frac) * 2^t.frac) < 2 * z
    PROVE  Close(a, b, c)
<1>1. 2^(s.frac + r.frac) = 2^s.frac * 2^r.frac
  BY ScaleOfBoth
<1> QED
  BY <1>1 DEF Close

\* Close, of a product.
LEMMA CloseProduct ==
    ASSUME op = "mul", IsType(s), IsType(r), NEW a, NEW b, NEW c,
           LET z == 2^s.frac * 2^r.frac
           IN  Abs(c * z - (a * b) * 2^t.frac) < 1 * z
    PROVE  Close(a, b, c)
<1>1. 2^(s.frac + r.frac) = 2^s.frac * 2^r.frac
  BY ScaleOfBoth
<1> QED
  BY <1>1 DEF Close

\* Close, of a negation.
LEMMA CloseNegation ==
    ASSUME op = "neg", IsType(s), IsType(r), NEW a, NEW b, NEW c,
           LET z == 2^s.frac * 2^r.frac
           IN  Abs(c * z - (-a * 2^r.frac) * 2^t.frac) < 1 * z
    PROVE  Close(a, b, c)
<1>1. 2^(s.frac + r.frac) = 2^s.frac * 2^r.frac
  BY ScaleOfBoth
<1> QED
  BY <1>1 DEF Close

\* Close, of a conversion from or to an integer.
LEMMA CloseConversion ==
    ASSUME op \in {"fromint", "toint"}, IsType(s), IsType(r), NEW a, NEW b, NEW c,
           LET z == 2^s.frac * 2^r.frac
           IN  Abs(c * z - (a * 2^r.frac) * 2^t.frac) < 1 * z
    PROVE  Close(a, b, c)
<1>1. 2^(s.frac + r.frac) = 2^s.frac * 2^r.frac
  BY ScaleOfBoth
<1> QED
  BY <1>1 DEF Close

\* The number less than a place outside of a range that its type holds is that of
\* its last bits.
LEMMA NearFits ==
    ASSUME NEW t0, IsType(t0), IntBits(t0) >= 0, NEW lo \in Int, NEW hi \in Int,
           Holds(t0, MakeRange(lo, hi)), NEW k \in Int,
           lo * 2^t0.frac - Unit < k * Unit, k * Unit < hi * 2^t0.frac + Unit
    PROVE  Raw(Bits(k, t0.width), t0) = k
<1>1. Fits(k, t0)
  BY HoldsFits
<1> QED
  BY <1>1, BitsFit

\* convertBinOp, of an addition: each operand is rounded down before they are added, so
\* that one of the lower bounds is to be exact for the sum not to fall below its range.
LEMMA SumClose ==
    ASSUME op = "add", Typed, range = HandleAdd(p, q), Holds(t, range),
           Representable(p.lo) \/ Representable(q.lo),
           NEW u, InRange(u, s, p), NEW v, InRange(v, r, q)
    PROVE  Close(Raw(u, s), Raw(v, r), Raw(Result(u, v), t))
<1>1. PICK f \in Nat \ {0}, h \in Nat \ {0}, g \in Nat \ {0} : f = 2^s.frac /\ h = 2^r.frac /\ g = 2^t.frac
  BY ScaleOf DEF Typed
<1>2. PICK a \in Int, b \in Int : a = Raw(u, s) /\ b = Raw(v, r)
  BY RawFits DEF InRange, Typed
<1>3. PICK F \in Int :
        /\ FixedToFixed(u, s, t) = Bits(F, t.width)
        /\ f * F <= a * g /\ a * g < f * F + f
        /\ p.lo * g - Unit < F * Unit /\ F * Unit <= p.hi * g
        /\ (p.lo * g) % Unit = 0 => p.lo * g <= F * Unit
  BY <1>1, <1>2, ConvertedNear DEF Typed
<1>4. PICK G \in Int :
        /\ FixedToFixed(v, r, t) = Bits(G, t.width)
        /\ h * G <= b * g /\ b * g < h * G + h
        /\ q.lo * g - Unit < G * Unit /\ G * Unit <= q.hi * g
        /\ (q.lo * g) % Unit = 0 => q.lo * g <= G * Unit
  BY <1>1, <1>2, ConvertedNear DEF Typed
<1>5. Result(u, v) = Bits(F + G, t.width)
  <2>1. Result(u, v) = Bits(Bits(F, t.width) + Bits(G, t.width), t.width)
    BY <1>3, <1>4 DEF Result, Sum
  <2> QED
    BY ZenonT(40), <2>1, BitsOfSum DEF Typed, IsType
<1>6. PICK lo1 \in Int, hi1 \in Int, lo2 \in Int, hi2 \in Int, U \in Nat \ {0} :
        lo1 = p.lo /\ hi1 = p.hi /\ lo2 = q.lo /\ hi2 = q.hi /\ U = Unit
  BY BitsAssumption DEF Typed, Bounded
<1>7. Raw(Bits(F + G, t.width), t) = F + G
  <2>1. PICK lo \in Int, hi \in Int : lo = lo1 + lo2 /\ hi = hi1 + hi2 /\ Holds(t, MakeRange(lo, hi))
    BY <1>6 DEF HandleAdd
  <2>2. PICK k \in Int : k = F + G
    OBVIOUS
  <2>3. PICK A \in Int, B \in Int, C \in Int, D \in Int, FU \in Int, GU \in Int :
          /\ A = lo1 * g /\ B = hi1 * g /\ C = lo2 * g /\ D = hi2 * g /\ FU = F * U /\ GU = G * U
          /\ lo * g = A + C /\ hi * g = B + D /\ k * U = FU + GU
    BY <2>1, <2>2
  <2>4. A - U < FU /\ FU <= B /\ C - U < GU /\ GU <= D /\ (A <= FU \/ C <= GU)
    BY <1>1, <1>3, <1>4, <1>6, <2>3 DEF Representable
  <2>5. lo * 2^t.frac - Unit < k * Unit /\ k * Unit < hi * 2^t.frac + Unit
    BY <1>1, <1>6, <2>3, <2>4
  <2> QED
    BY <2>1, <2>2, <2>5, NearFits DEF Typed
<1>8. Abs((F + G) * (f * h) - (a * h + b * f) * g) < 2 * (f * h)
  BY <1>3, <1>4, SumNear
<1> QED
  BY <1>1, <1>2, <1>5, <1>7, <1>8, CloseSum DEF Typed

\* convertBinOp, of a subtraction: what one operand and the other lose when they are
\* rounded down is of opposite sign.
LEMMA DifferenceClose ==
    ASSUME op = "sub", Typed, range = HandleSub(p, q), Holds(t, range),
           NEW u, InRange(u, s, p), NEW v, InRange(v, r, q)
    PROVE  Close(Raw(u, s), Raw(v, r), Raw(Result(u, v), t))
<1>1. PICK f \in Nat \ {0}, h \in Nat \ {0}, g \in Nat \ {0} : f = 2^s.frac /\ h = 2^r.frac /\ g = 2^t.frac
  BY ScaleOf DEF Typed
<1>2. PICK a \in Int, b \in Int : a = Raw(u, s) /\ b = Raw(v, r)
  BY RawFits DEF InRange, Typed
<1>3. PICK F \in Int :
        /\ FixedToFixed(u, s, t) = Bits(F, t.width)
        /\ f * F <= a * g /\ a * g < f * F + f
        /\ p.lo * g - Unit < F * Unit /\ F * Unit <= p.hi * g
  BY <1>1, <1>2, ConvertedNear DEF Typed
<1>4. PICK G \in Int :
        /\ FixedToFixed(v, r, t) = Bits(G, t.width)
        /\ h * G <= b * g /\ b * g < h * G + h
        /\ q.lo * g - Unit < G * Unit /\ G * Unit <= q.hi * g
  BY <1>1, <1>2, ConvertedNear DEF Typed
<1>5. Result(u, v) = Bits(F - G, t.width)
  <2>1. Result(u, v) = Bits(Bits(F, t.width) - Bits(G, t.width), t.width)
    BY <1>3, <1>4 DEF Result, Difference
  <2> QED
    BY ZenonT(40), <2>1, BitsOfSum DEF Typed, IsType
<1>6. PICK lo1 \in Int, hi1 \in Int, lo2 \in Int, hi2 \in Int, U \in Nat \ {0} :
        lo1 = p.lo /\ hi1 = p.hi /\ lo2 = q.lo /\ hi2 = q.hi /\ U = Unit
  BY BitsAssumption DEF Typed, Bounded
<1>7. Raw(Bits(F - G, t.width), t) = F - G
  <2>1. PICK lo \in Int, hi \in Int : lo = lo1 - hi2 /\ hi = hi1 - lo2 /\ Holds(t, MakeRange(lo, hi))
    BY <1>6 DEF HandleSub
  <2>2. PICK k \in Int : k = F - G
    OBVIOUS
  <2>3. PICK A \in Int, B \in Int, C \in Int, D \in Int, FU \in Int, GU \in Int :
          /\ A = lo1 * g /\ B = hi1 * g /\ C = lo2 * g /\ D = hi2 * g /\ FU = F * U /\ GU = G * U
          /\ lo * g = A - D /\ hi * g = B - C /\ k * U = FU - GU
    BY <2>1, <2>2
  <2>4. A - U < FU /\ FU <= B /\ C - U < GU /\ GU <= D
    BY <1>3, <1>4, <1>6, <2>3
  <2>5. lo * 2^t.frac - Unit < k * Unit /\ k * Unit < hi * 2^t.frac + Unit
    BY <1>1, <1>6, <2>3, <2>4
  <2> QED
    BY <2>1, <2>2, <2>5, NearFits DEF Typed
<1>8. Abs((F - G) * (f * h) - (a * h - b * f) * g) < 2 * (f * h)
  BY <1>3, <1>4, SumNear
<1> QED
  BY <1>1, <1>2, <1>5, <1>7, <1>8, CloseDifference DEF Typed

\* A number rounded down is less than a place off.
LEMMA FlooredNear ==
    ASSUME NEW a \in Int, NEW F \in Int, NEW f \in Nat \ {0}, NEW g \in Nat \ {0}, NEW h \in Nat \ {0},
           f * F <= a * g, a * g < f * F + f
    PROVE  /\ Abs(F * (f * h) - (a * h) * g) < 1 * (f * h)
           /\ Abs((-F) * (f * h) - (-a * h) * g) < 1 * (f * h)
<1>1. PICK x \in Nat : x < f * h /\ F * (f * h) = (a * h) * g - x
  BY OneNear
<1>2. PICK z \in Nat, A \in Int : z = f * h /\ A = (a * h) * g
  OBVIOUS
<1>3. (-F) * z = -(F * z) /\ (-a * h) * g = -A /\ F * z \in Int
  BY <1>2
<1>4. F * z - A = -x /\ (-F) * z - (-A) = x /\ x < z
  BY <1>1, <1>2, <1>3
<1>5. Abs(-x) < 1 * z /\ Abs(x) < 1 * z
  BY <1>4 DEF Abs
<1> QED
  BY <1>2, <1>3, <1>4, <1>5

\* convertUnaryOp: the operand is rounded down, and then negated.
LEMMA NegationClose ==
    ASSUME op = "neg", Typed, range = HandleNeg(p), Holds(t, range),
           NEW u, InRange(u, s, p), NEW b
    PROVE  \A v : Close(Raw(u, s), b, Raw(Result(u, v), t))
<1>1. PICK f \in Nat \ {0}, h \in Nat \ {0}, g \in Nat \ {0} : f = 2^s.frac /\ h = 2^r.frac /\ g = 2^t.frac
  BY ScaleOf DEF Typed
<1>2. PICK a \in Int : a = Raw(u, s)
  BY RawFits DEF InRange, Typed
<1>3. PICK F \in Int :
        /\ FixedToFixed(u, s, t) = Bits(F, t.width)
        /\ f * F <= a * g /\ a * g < f * F + f
        /\ p.lo * g - Unit < F * Unit /\ F * Unit <= p.hi * g
  BY <1>1, <1>2, ConvertedNear DEF Typed
<1>5. \A v : Result(u, v) = Bits(-F, t.width)
  <2>1. \A v : Result(u, v) = Bits(-Bits(F, t.width), t.width)
    BY <1>3 DEF Result, Negation
  <2>2. Bits(-Bits(F, t.width), t.width) = Bits(-F, t.width)
    BY BitsOfSum DEF Typed, IsType
  <2> QED
    BY <2>1, <2>2
<1>6. PICK lo1 \in Int, hi1 \in Int, U \in Nat \ {0} : lo1 = p.lo /\ hi1 = p.hi /\ U = Unit
  BY BitsAssumption DEF Typed, Bounded
<1>7. Raw(Bits(-F, t.width), t) = -F
  <2>1. PICK lo \in Int, hi \in Int : lo = -hi1 /\ hi = -lo1 /\ Holds(t, MakeRange(lo, hi))
    BY <1>6 DEF HandleNeg
  <2>2. PICK k \in Int : k = -F
    OBVIOUS
  <2>3. PICK A \in Int, B \in Int, FU \in Int :
          /\ A = lo1 * g /\ B = hi1 * g /\ FU = F * U
          /\ lo * g = -B /\ hi * g = -A /\ k * U = -FU
    BY <2>1, <2>2
  <2>4. A - U < FU /\ FU <= B
    BY <1>3, <1>6, <2>3
  <2>5. lo * 2^t.frac - Unit < k * Unit /\ k * Unit < hi * 2^t.frac + Unit
    BY <1>1, <1>6, <2>3, <2>4
  <2> QED
    BY <2>1, <2>2, <2>5, NearFits DEF Typed
<1>8. Abs((-F) * (f * h) - (-a * h) * g) < 1 * (f * h)
  BY <1>3, FlooredNear
<1> QED
  BY <1>1, <1>2, <1>5, <1>7, <1>8, CloseNegation DEF Typed

\* The integers of a range may be a bit fewer than its numbers.
LEMMA ConversionClose ==
    ASSUME op \in {"fromint", "toint"}, Typed,
           NEW lo \in Int, NEW hi \in Int, Holds(t, MakeRange(lo, hi)), lo <= p.lo,
           p.hi * 2^t.frac < hi * 2^t.frac + Unit,
           NEW u, InRange(u, s, p), NEW b
    PROVE  \A v : Close(Raw(u, s), b, Raw(Result(u, v), t))
<1>1. PICK f \in Nat \ {0}, h \in Nat \ {0}, g \in Nat \ {0} : f = 2^s.frac /\ h = 2^r.frac /\ g = 2^t.frac
  BY ScaleOf DEF Typed
<1>2. PICK a \in Int : a = Raw(u, s)
  BY RawFits DEF InRange, Typed
<1>3. PICK F \in Int :
        /\ FixedToFixed(u, s, t) = Bits(F, t.width)
        /\ f * F <= a * g /\ a * g < f * F + f
        /\ p.lo * g - Unit < F * Unit /\ F * Unit <= p.hi * g
  BY <1>1, <1>2, ConvertedNear DEF Typed
<1>5. \A v : Result(u, v) = Bits(F, t.width)
  BY <1>3 DEF Result
<1>6. PICK lo1 \in Int, hi1 \in Int, U \in Nat \ {0} : lo1 = p.lo /\ hi1 = p.hi /\ U = Unit
  BY BitsAssumption DEF Typed, Bounded
<1>7. Raw(Bits(F, t.width), t) = F
  <2>1. lo * g <= lo1 * g
    BY <1>6, ProductOrder
  <2>2. PICK A \in Int, B \in Int, FU \in Int, L \in Int, H \in Int :
          A = lo1 * g /\ B = hi1 * g /\ FU = F * U /\ L = lo * g /\ H = hi * g
    OBVIOUS
  <2>5. lo * 2^t.frac - Unit < F * Unit /\ F * Unit < hi * 2^t.frac + Unit
    BY <1>1, <1>3, <1>6, <2>1, <2>2
  <2> QED
    BY <2>5, NearFits DEF Typed
<1>8. Abs(F * (f * h) - (a * h) * g) < 1 * (f * h)
  BY <1>3, FlooredNear
<1> QED
  BY <1>1, <1>2, <1>5, <1>7, <1>8, CloseConversion DEF Typed

-----------------------------------------------------------------------------
(***************************************************************************)
(* Numbers, products and quotients that are converted.                     *)
(***************************************************************************)
\* genConvertFloatToFix and convertAPFloat, towards zero and down.
LEMMA FloatsClose ==
    ASSUME Typed, range = p, Holds(t, range), NEW x \in Int, p.lo <= x, x <= p.hi,
           NEW u \in {FloatToFix(x, t), ConvertAPFloat(x, t)}
    PROVE  Abs(Raw(u, t) * Unit - x * 2^t.frac) < Unit
<1>1. PICK g \in Nat \ {0}, U \in Nat \ {0}, lo \in Int, hi \in Int :
        g = 2^t.frac /\ U = Unit /\ lo = p.lo /\ hi = p.hi
  BY ScaleOf, BitsAssumption DEF Typed, Bounded
<1>2. PICK m \in Int : m = x * g
  OBVIOUS
<1>3. ASSUME NEW k \in Int, k * U - U < m, m < k * U + U, lo * g - U < k * U, k * U < hi * g + U
      PROVE  Abs(Raw(Bits(k, t.width), t) * Unit - x * 2^t.frac) < Unit
  <2>1. Holds(t, MakeRange(lo, hi))
    BY <1>1, MakeRangeFields DEF Holds
  <2>2. lo * 2^t.frac - Unit < k * Unit /\ k * Unit < hi * 2^t.frac + Unit
    BY <1>1, <1>3
  <2>3. Raw(Bits(k, t.width), t) = k
    BY <2>1, <2>2, NearFits DEF Typed
  <2>4. PICK K \in Int : K = k * U
    OBVIOUS
  <2>5. Abs(K - m) < U
    BY <1>3, <2>4 DEF Abs
  <2> QED
    BY <1>1, <1>2, <2>3, <2>4, <2>5
<1>4. lo * g <= m /\ m <= hi * g
  BY <1>1, <1>2, ProductOrder
<1>5. \A n \in Int : \E K \in Int, k \in Int : K = k * U /\ k = n \div U /\ K <= n /\ n < K + U
  <2> SUFFICES ASSUME NEW n \in Int
               PROVE  \E K \in Int, k \in Int : K = k * U /\ k = n \div U /\ K <= n /\ n < K + U
    OBVIOUS
  <2>1. n \div U \in Int /\ U * (n \div U) <= n /\ n < U * (n \div U) + U
    BY QuotientBounds
  <2>2. PICK k \in Int : k = n \div U
    BY <2>1
  <2>3. PICK K \in Int : K = k * U /\ K = U * k
    OBVIOUS
  <2> QED
    BY <2>1, <2>2, <2>3
<1>6. PICK A \in Int, B \in Int : A = lo * g /\ B = hi * g
  OBVIOUS
<1>7. CASE u = Bits(m \div U, t.width)
  <2>1. PICK K \in Int, k \in Int : K = k * U /\ k = m \div U /\ K <= m /\ m < K + U
    BY <1>5
  <2>2. k * U - U < m /\ m < k * U + U /\ lo * g - U < k * U /\ k * U < hi * g + U
    BY <1>4, <1>6, <2>1
  <2> QED
    BY <1>3, <1>7, <2>1, <2>2
<1>8. CASE u = Bits(-((-m) \div U), t.width)
  <2>0. -m \in Int
    OBVIOUS
  <2>1. PICK K \in Int, k \in Int : K = k * U /\ k = (-m) \div U /\ K <= -m /\ -m < K + U
    BY <1>5, <2>0
  <2>2. PICK l \in Int : l = -k
    OBVIOUS
  <2>3. l * U = -K
    BY <2>1, <2>2
  <2>4. l * U - U < m /\ m < l * U + U /\ lo * g - U < l * U /\ l * U < hi * g + U
    BY <1>4, <1>6, <2>1, <2>3
  <2> QED
    BY <1>3, <1>8, <2>1, <2>2, <2>4
<1>9. u = Bits(m \div U, t.width) \/ u = Bits(-((-m) \div U), t.width)
  BY <1>1, <1>2 DEF FloatToFix, ConvertAPFloat
<1> QED
  BY <1>7, <1>8, <1>9

\* How large the number of a bit pattern may be.
LEMMA RawBelow ==
    ASSUME NEW t0, IsType(t0), NEW u \in Patterns(t0)
    PROVE  \E h \in Nat \ {0} : /\ h = 2^(t0.width - 1) /\ 2^t0.width = 2 * h
                                /\ Raw(u, t0) \in Int /\ -(2 * h) < Raw(u, t0) /\ Raw(u, t0) < 2 * h
                                /\ t0.signed => -h <= Raw(u, t0) /\ Raw(u, t0) <= h
<1>1. PICK h \in Nat \ {0} : h = 2^(t0.width-1) /\ 2^t0.width = 2 * h
  BY HalfOfPatterns DEF IsType
<1>2. Raw(u, t0) \in Int /\ Fits(Raw(u, t0), t0)
  BY RawFits
<1> QED
  BY <1>1, <1>2 DEF Fits, IsType

\* The type of intermediate results has half of the patterns that the two operands
\* have together.
LEMMA IntermediateType ==
    ASSUME IsType(s), IsType(r), IsType(t)
    PROVE  LET i == IntermType(s, r, t)
           IN  /\ IsType(i) /\ i.signed = t.signed /\ i.frac = s.frac + r.frac
               /\ 2^(i.width - 1) = 2^(s.width - 1) * (2 * 2^(r.width - 1))
               /\ 2^i.width = (2 * 2^(s.width - 1)) * (2 * 2^(r.width - 1))
<1>1. PICK w \in Nat, v \in Nat : w = s.width - 1 /\ v = r.width /\ s.width = w + 1
  BY DEF IsType
<1>2. 2^(w + v) = 2^w * 2^v
  BY PowerOfSum
<1>3. PICK h \in Nat \ {0}, k \in Nat \ {0} : h = 2^(s.width - 1) /\ k = 2^(r.width - 1) /\ 2^r.width = 2 * k /\ 2^s.width = 2 * h
  BY HalfOfPatterns DEF IsType
<1>4. 2^(s.width + r.width) = 2^s.width * 2^r.width
  BY PowerOfSum DEF IsType
<1>5. /\ IntermType(s, r, t).width = s.width + r.width /\ IntermType(s, r, t).signed = t.signed
      /\ IntermType(s, r, t).frac = s.frac + r.frac
  BY DEF IntermType
<1>6. IsType(IntermType(s, r, t))
  BY <1>5 DEF IsType
<1>7. IntermType(s, r, t).width - 1 = w + v
  BY <1>1, <1>5 DEF IsType
<1> QED
  BY <1>1, <1>2, <1>3, <1>4, <1>5, <1>6, <1>7

\* The product of numbers below two bounds is below that of the bounds.
LEMMA ProductBelow ==
    ASSUME NEW a \in Int, NEW b \in Int, NEW m \in Nat \ {0}, NEW n \in Nat \ {0},
           -m <= a, a <= m, -n < b, b < n
    PROVE  -(m * n) < a * b /\ a * b < m * n
<1>1. PICK k \in Nat : k = n - 1
  OBVIOUS
<1>2. PICK A \in Nat : (a = A \/ a = -A) /\ A <= m
  OBVIOUS
<1>3. PICK B \in Nat : (b = B \/ b = -B) /\ B <= k
  BY <1>1
<1>4. A * B <= m * B /\ B * m <= k * m
  BY <1>2, <1>3, ProductOrder
<1>5. m * B = B * m /\ k * m = m * n - m
  BY <1>1
<1>6. PICK P \in Nat, Q \in Nat, R \in Nat : P = A * B /\ Q = m * n /\ R = B * m
  OBVIOUS
<1>7. a * b = P \/ a * b = -P
  BY <1>2, <1>3, <1>6
<1>8. P < Q
  BY <1>4, <1>5, <1>6
<1> QED
  BY <1>6, <1>7, <1>8

\* An operand, extended to the intermediate type, has the bits of its number.
LEMMA ExtendedBits ==
    ASSUME NEW t0, IsType(t0), NEW u \in Patterns(t0), NEW i, IsType(i)
    PROVE  LET e == ExtOrTrunc(u, t0.signed, t0.width, i.width)
           IN  e = Bits(Raw(u, t0), i.width) /\ Raw(e, i) \in Int
               /\ Bits(Raw(e, i), i.width) = Bits(Raw(u, t0), i.width)
<1> DEFINE e == ExtOrTrunc(u, t0.signed, t0.width, i.width)
<1>1. e = Bits(Raw(u, t0), i.width)
  BY DEF ExtOrTrunc, Raw
<1>2. Raw(u, t0) \in Int
  BY RawFits
<1> HIDE DEF e
<1>3. e \in Patterns(i)
  BY <1>1, <1>2, BitsFit
<1>4. Raw(e, i) \in Int /\ Bits(Raw(e, i), i.width) = Bits(e, i.width)
  BY <1>3, RawFits, BitsOfRaw DEF IsType
<1>5. Bits(e, i.width) = Bits(Raw(u, t0), i.width)
  BY <1>1, <1>2, BitsOfBits DEF IsType
<1> QED
  BY <1>1, <1>4, <1>5 DEF e

\* Products of operands fit the intermediate type.
LEMMA ProductFits ==
    ASSUME IsType(s), IsType(r), IsType(t), t.signed => s.signed \/ r.signed,
           NEW u \in Patterns(s), NEW v \in Patterns(r), ~t.signed => 0 <= Raw(u, s) * Raw(v, r)
    PROVE  Fits(Raw(u, s) * Raw(v, r), IntermType(s, r, t))
<1>1. PICK i : i = IntermType(s, r, t)
  OBVIOUS
<1>2. PICK m \in Nat \ {0} : /\ m = 2^(s.width - 1) /\ 2^s.width = 2 * m
                             /\ Raw(u, s) \in Int /\ -(2 * m) < Raw(u, s) /\ Raw(u, s) < 2 * m
                             /\ s.signed => -m <= Raw(u, s) /\ Raw(u, s) <= m
  BY RawBelow
<1>3. PICK n \in Nat \ {0} : /\ n = 2^(r.width - 1) /\ 2^r.width = 2 * n
                             /\ Raw(v, r) \in Int /\ -(2 * n) < Raw(v, r) /\ Raw(v, r) < 2 * n
                             /\ r.signed => -n <= Raw(v, r) /\ Raw(v, r) <= n
  BY RawBelow
<1>4. PICK a \in Int, b \in Int : a = Raw(u, s) /\ b = Raw(v, r)
  BY <1>2, <1>3
<1>5. i.signed = t.signed /\ 2^(i.width - 1) = m * (2 * n) /\ 2^i.width = (2 * m) * (2 * n)
  BY <1>1, <1>2, <1>3, IntermediateType
<1>6. PICK k \in Nat \ {0}, l \in Nat \ {0} : k = 2 * m /\ l = 2 * n
  OBVIOUS
<1>7. CASE t.signed /\ s.signed
  <2>1. -m <= a /\ a <= m /\ -l < b /\ b < l
    BY <1>2, <1>3, <1>4, <1>6, <1>7
  <2>2. -(m * l) < a * b /\ a * b < m * l
    BY <2>1, ProductBelow
  <2> QED
    BY <1>1, <1>4, <1>5, <1>6, <1>7, <2>2 DEF Fits
<1>8. CASE t.signed /\ r.signed
  <2>1. -n <= b /\ b <= n /\ -k < a /\ a < k
    BY <1>2, <1>3, <1>4, <1>6, <1>8
  <2>2. -(n * k) < b * a /\ b * a < n * k
    BY <2>1, ProductBelow
  <2>3. b * a = a * b /\ n * k = m * (2 * n)
    BY <1>6
  <2> QED
    BY <1>1, <1>4, <1>5, <1>8, <2>2, <2>3 DEF Fits
<1>9. CASE ~t.signed
  <2>1. -k <= a /\ a <= k /\ -l < b /\ b < l
    BY <1>2, <1>3, <1>4, <1>6
  <2>2. a * b < k * l
    BY <2>1, ProductBelow
  <2> QED
    BY <1>1, <1>4, <1>5, <1>6, <1>9, <2>2 DEF Fits
<1> QED
  BY <1>7, <1>8, <1>9

\* convertBinOp, of a multiplication: the product is exact in the intermediate type, and
\* then rounded down to the places of the result.
LEMMA ProductClose ==
    ASSUME op = "mul", Typed, range = HandleMul(p, q), Holds(t, range),
           t.signed => s.signed \/ r.signed,
           \A m \in {p.lo, p.hi}, n \in {q.lo, q.hi} : (m * n) % Unit = 0,
           NEW u, InRange(u, s, p), NEW v, InRange(v, r, q)
    PROVE  Close(Raw(u, s), Raw(v, r), Raw(Result(u, v), t))
<1>1. PICK f \in Nat \ {0}, h \in Nat \ {0}, g \in Nat \ {0} : f = 2^s.frac /\ h = 2^r.frac /\ g = 2^t.frac
  BY ScaleOf DEF Typed
<1>2. PICK a \in Int, b \in Int : a = Raw(u, s) /\ b = Raw(v, r)
  BY RawFits DEF InRange, Typed
<1>3. PICK z \in Nat \ {0}, c \in Int : z = f * h /\ c = a * b
  OBVIOUS
<1>4. Within(c, z, range) /\ range.lo \in Int /\ range.hi \in Int
  <2>1. Within(a, f, p) /\ Within(b, h, q)
    BY <1>1, <1>2 DEF InRange
  <2> QED
    BY <1>3, <2>1, ProductWithin DEF Typed
<1>5. PICK lo \in Int, hi \in Int, U \in Nat \ {0} : lo = range.lo /\ hi = range.hi /\ U = Unit
  BY <1>4, BitsAssumption
<1>6. lo * z <= c * U /\ c * U <= hi * z /\ Holds(t, MakeRange(lo, hi))
  BY <1>4, <1>5, MakeRangeFields DEF Within, Holds
<1>7. ~t.signed => 0 <= c
  <2>1. ASSUME ~t.signed PROVE 0 <= c
    <3>1. 0 <= lo
      BY <1>5, <2>1 DEF Holds
    <3>2. 0 * z <= lo * z
      BY <3>1, ProductOrder
    <3>3. 0 * U <= c * U
      <4>1. PICK L \in Int, C \in Int : L = lo * z /\ C = c * U
        OBVIOUS
      <4> QED
        BY <1>6, <3>2, <4>1
    <3> QED
      BY <3>3, Cancelled
  <2> QED
    BY <2>1
<1>8. PICK i : i = IntermType(s, r, t)
  OBVIOUS
<1>9. IsType(i) /\ i.frac = s.frac + r.frac /\ i.width \in Nat /\ Fits(c, i)
  <2>1. Fits(c, i)
    BY <1>2, <1>3, <1>7, <1>8, ProductFits DEF Typed, InRange
  <2> QED
    BY <1>8, <2>1, IntermediateType DEF Typed, IsType
<1>10. PICK e1, e2 : e1 = ExtOrTrunc(u, s.signed, s.width, i.width) /\ e2 = ExtOrTrunc(v, r.signed, r.width, i.width)
  OBVIOUS
<1>11. PICK a1 \in Int, b1 \in Int :
          /\ a1 = Raw(e1, i) /\ b1 = Raw(e2, i)
          /\ Bits(a1, i.width) = Bits(a, i.width) /\ Bits(b1, i.width) = Bits(b, i.width)
  <2>1. Raw(e1, i) \in Int /\ Bits(Raw(e1, i), i.width) = Bits(a, i.width)
    BY <1>2, <1>9, <1>10, ExtendedBits DEF Typed, InRange
  <2>2. Raw(e2, i) \in Int /\ Bits(Raw(e2, i), i.width) = Bits(b, i.width)
    BY <1>2, <1>9, <1>10, ExtendedBits DEF Typed, InRange
  <2> QED
    BY <2>1, <2>2
<1>12. Bits(a1 * b1, i.width) = Bits(c, i.width)
  <2>1. Bits(a1 * b1, i.width) = Bits(a * b, i.width)
    BY <1>9, <1>11, BitsOfTimes
  <2> QED
    BY <1>3, <2>1
<1>13. Result(u, v) = FixedToFixed(Bits(c, i.width), i, t)
  BY <1>8, <1>10, <1>11, <1>12 DEF Result, Product
<1>14. Bits(c, i.width) \in Patterns(i) /\ Raw(Bits(c, i.width), i) = c
  BY <1>9, BitsFit
<1>15. PICK F : F = (c * g) \div z
  OBVIOUS
<1>16. 2^i.frac = z
  BY <1>1, <1>3, <1>9, ScaleOfBoth DEF Typed
<1>17. Result(u, v) = Bits(F, t.width)
  BY <1>1, <1>9, <1>13, <1>14, <1>15, <1>16, ConvertsDown DEF Typed
<1>18. /\ F \in Int /\ z * F <= c * g /\ c * g < z * F + z
       /\ lo * g - Unit < F * Unit /\ F * Unit <= hi * g
  BY ZenonT(40), <1>5, <1>6, <1>15, Floored
<1>19. Raw(Bits(F, t.width), t) = F
  <2>1. F * Unit < hi * g + Unit
    BY <1>5, <1>18
  <2> QED
    BY <1>1, <1>6, <1>18, <2>1, NearFits DEF Typed
<1>20. Abs(F * z - c * g) < 1 * z
  <2>1. PICK X \in Int, Y \in Int : X = F * z /\ X = z * F /\ Y = c * g
    BY <1>18
  <2> QED
    BY <1>18, <2>1 DEF Abs
<1> QED
  BY <1>1, <1>2, <1>3, <1>17, <1>19, <1>20, CloseProduct DEF Typed

\* F is less than a place outside of the range of lo, hi and 0.
NearRange(F, g, lo, hi) ==
    /\ (IF lo < 0 THEN lo ELSE 0) * g - Unit < F * Unit
    /\ F * Unit < (IF hi > 0 THEN hi ELSE 0) * g + Unit

\* A quotient towards zero, at another place of the point and rounded down, is not a
\* place outside of the range of what it is the quotient of and 0.
LEMMA QuotientPlace ==
    ASSUME NEW N \in Int, NEW M \in Nat \ {0}, NEW Z \in Int,
           TowardsZero(N, M, Z),
           NEW f \in Nat \ {0}, NEW g \in Nat \ {0}, NEW lo \in Int, NEW hi \in Int,
           Spans(N * Unit, f * M, lo, hi),
           NEW F \in Int, f * F <= Z * g, Z * g < f * F + f
    PROVE  NearRange(F, g, lo, hi)
<1>1. PICK U \in Nat \ {0} : U = Unit
  BY BitsAssumption
<1>0. lo * (f * M) <= N * Unit /\ N * Unit <= hi * (f * M)
  BY DEF Spans
<1>2. PICK z \in Nat \ {0} : z = f * M
  OBVIOUS
<1>3. PICK P \in Int : P = Z * g
  OBVIOUS
<1>4. (N * U) * g <= (hi * g) * z /\ (lo * g) * z <= (N * U) * g
  <2>1. PICK L \in Int, H \in Int, K \in Int : L = lo * z /\ H = hi * z /\ K = N * U
    OBVIOUS
  <2>2. L * g <= K * g /\ K * g <= H * g
    BY <1>0, <1>1, <1>2, <2>1, ProductOrder
  <2>3. (lo * z) * g = (lo * g) * z /\ (hi * z) * g = (hi * g) * z
    OBVIOUS
  <2> QED
    BY <2>1, <2>2, <2>3
<1>5. CASE N >= 0
  <2>1. F * z <= N * g
    <3>1. (f * F) * M <= P * M
      BY <1>3, ProductOrder
    <3>2. (M * Z) * g <= N * g
      <4>1. M * Z \in Int /\ M * Z <= N
        BY <1>5 DEF TowardsZero
      <4> QED
        BY <4>1, ProductOrder
    <3>3. (f * F) * M = F * (f * M) /\ (Z * g) * M = (M * Z) * g
      OBVIOUS
    <3>4. PICK A \in Int, B \in Int, C \in Int : A = F * z /\ B = (M * Z) * g /\ C = N * g
      OBVIOUS
    <3> QED
      BY <1>2, <1>3, <3>1, <3>2, <3>3, <3>4
  <2>2. F * U <= hi * g
    <3>1. PICK A \in Int, B \in Int : A = F * z /\ B = N * g
      OBVIOUS
    <3>2. A * U <= B * U
      BY <2>1, <3>1, ProductOrder
    <3>3. (F * z) * U = (F * U) * z /\ (N * g) * U = (N * U) * g
      OBVIOUS
    <3>4. PICK X \in Int, Y \in Int, W \in Int : X = F * U /\ Y = hi * g /\ W = (N * U) * g
      OBVIOUS
    <3>5. X * z <= Y * z
      <4>1. X * z \in Int /\ Y * z \in Int
        OBVIOUS
      <4> QED
        BY <1>4, <3>1, <3>2, <3>3, <3>4, <4>1
    <3> QED
      BY <3>4, <3>5, Cancelled
  <2>3. 0 <= F
    <3>1. 0 * g <= Z * g
      BY <1>5, ProductOrder DEF TowardsZero
    <3>2. -1 < F
      <4>1. (-1) * f < F * f
        <5>1. PICK A \in Int : A = f * F /\ A = F * f
          OBVIOUS
        <5> QED
          BY <1>3, <3>1, <5>1
      <4> QED
        BY <4>1, Cancelled
    <3> QED
      BY <3>2
  <2>4. 0 <= F * U
    <3>1. 0 * U <= F * U
      BY <2>3, ProductOrder
    <3> QED
      BY <3>1
  <2>5. (IF lo < 0 THEN lo ELSE 0) * g <= 0 /\ hi * g <= (IF hi > 0 THEN hi ELSE 0) * g
    <3>1. PICK l \in Int, k \in Int : l = (IF lo < 0 THEN lo ELSE 0) /\ k = (IF hi > 0 THEN hi ELSE 0)
      OBVIOUS
    <3>2. l * g <= 0 * g /\ hi * g <= k * g
      BY <3>1, ProductOrder
    <3> QED
      BY <3>1, <3>2
  <2>6. PICK X \in Int, A \in Int, B \in Int, C \in Int :
          /\ X = F * U /\ A = (IF lo < 0 THEN lo ELSE 0) * g
          /\ B = (IF hi > 0 THEN hi ELSE 0) * g /\ C = hi * g
    OBVIOUS
  <2> QED
    BY <1>1, <2>2, <2>4, <2>5, <2>6 DEF NearRange
<1>6. CASE N < 0
  <2>1. N * g < F * z + z
    <3>1. (P + 1) * M <= (f * F + f) * M
      <4>1. P + 1 <= f * F + f /\ f * F + f \in Int
        BY <1>3
      <4> QED
        BY <4>1, ProductOrder
    <3>2. N * g <= (M * Z) * g
      <4>1. M * Z \in Int /\ N <= M * Z
        BY <1>6 DEF TowardsZero
      <4> QED
        BY <4>1, ProductOrder
    <3>3. (f * F + f) * M = F * (f * M) + f * M /\ (Z * g) * M = (M * Z) * g /\ (P + 1) * M = P * M + M
      OBVIOUS
    <3>4. PICK A \in Int, B \in Int, C \in Int : A = F * z /\ B = (M * Z) * g /\ C = N * g
      OBVIOUS
    <3> QED
      BY <1>2, <1>3, <3>1, <3>2, <3>3, <3>4
  <2>2. lo * g < F * U + U
    <3>1. PICK A \in Int, B \in Int : A = F * z + z /\ B = N * g
      OBVIOUS
    <3>2. (B + 1) * U <= A * U
      BY <2>1, <3>1, ProductOrder
    <3>3. (F * z + z) * U = (F * U + U) * z /\ (N * g) * U = (N * U) * g /\ (B + 1) * U = B * U + U
      OBVIOUS
    <3>4. PICK X \in Int, Y \in Int, W \in Int : X = F * U + U /\ Y = lo * g /\ W = (N * U) * g
      OBVIOUS
    <3>5. Y * z < X * z
      <4>1. X * z \in Int /\ Y * z \in Int
        OBVIOUS
      <4> QED
        BY <1>4, <3>1, <3>2, <3>3, <3>4, <4>1
    <3> QED
      BY <3>4, <3>5, Cancelled
  <2>3. F <= 0
    <3>1. Z * g <= 0 * g
      BY <1>6, ProductOrder DEF TowardsZero
    <3>2. F * f <= 0 * f
      <4>1. PICK A \in Int : A = f * F /\ A = F * f
        OBVIOUS
      <4> QED
        BY <1>3, <3>1, <4>1
    <3> QED
      BY <3>2, Cancelled
  <2>4. F * U <= 0
    <3>1. F * U <= 0 * U
      BY <2>3, ProductOrder
    <3> QED
      BY <3>1
  <2>5. (IF lo < 0 THEN lo ELSE 0) * g <= lo * g /\ 0 <= (IF hi > 0 THEN hi ELSE 0) * g
    <3>1. PICK l \in Int, k \in Int : l = (IF lo < 0 THEN lo ELSE 0) /\ k = (IF hi > 0 THEN hi ELSE 0)
      OBVIOUS
    <3>2. lo < 0
      <4>1. N * U < 0
        <5>1. (N + 1) * U <= 0 * U
          BY <1>6, ProductOrder
        <5>2. (N + 1) * U = N * U + U
          OBVIOUS
        <5> QED
          BY <5>1, <5>2
      <4>2. lo * z < 0 * z
        <5>1. PICK A \in Int, B \in Int : A = lo * z /\ B = N * U
          OBVIOUS
        <5> QED
          BY <1>0, <1>1, <1>2, <4>1, <5>1
      <4> QED
        BY <4>2, Cancelled
    <3>3. 0 * g <= k * g
      BY <3>1, ProductOrder
    <3> QED
      BY <3>1, <3>2, <3>3
  <2>6. PICK X \in Int, A \in Int, B \in Int, C \in Int :
          /\ X = F * U /\ A = (IF lo < 0 THEN lo ELSE 0) * g
          /\ B = (IF hi > 0 THEN hi ELSE 0) * g /\ C = lo * g
    OBVIOUS
  <2> QED
    BY <1>1, <2>2, <2>4, <2>5, <2>6 DEF NearRange
<1> QED
  BY <1>5, <1>6

\* Close, of a quotient.
LEMMA CloseRatio ==
    ASSUME op = "div", IsType(r), IsType(t), NEW a, NEW b, NEW c,
           Abs((c * b) * 2^s.frac - a * (2^r.frac * 2^t.frac)) < Abs(b) * (2^s.frac + 2^t.frac)
    PROVE  Close(a, b, c)
<1>1. 2^(r.frac + t.frac) = 2^r.frac * 2^t.frac
  BY ScaleOfBoth
<1> QED
  BY <1>1 DEF Close

\* The dividend, made larger, the divisor and their quotient fit the intermediate
\* type.
LEMMA RatioFits ==
    ASSUME IsType(s), IsType(r), IsType(t), r.frac < r.width,
           NEW u \in Patterns(s), NEW v \in Patterns(r), ~t.signed => 0 <= Raw(u, s) /\ 0 < Raw(v, r),
           NEW Z \in Int, NEW N, N = Dividend(Raw(u, s), Raw(v, r), 2^r.frac),
           N >= 0 => 0 <= Z /\ Z <= N, N < 0 => N <= Z /\ Z <= 0
    PROVE  LET i == IntermType(s, r, t)
           IN  Fits(Raw(u, s) * 2^r.frac, i) /\ Fits(Raw(v, r), i) /\ Fits(Z, i)
<1>1. PICK i : i = IntermType(s, r, t)
  OBVIOUS
<1>2. PICK m \in Nat \ {0} : /\ m = 2^(s.width - 1) /\ 2^s.width = 2 * m
                             /\ Raw(u, s) \in Int /\ -(2 * m) < Raw(u, s) /\ Raw(u, s) < 2 * m
  BY RawBelow
<1>3. PICK n \in Nat \ {0} : /\ n = 2^(r.width - 1) /\ 2^r.width = 2 * n
                             /\ Raw(v, r) \in Int /\ -(2 * n) < Raw(v, r) /\ Raw(v, r) < 2 * n
  BY RawBelow
<1>4. PICK a \in Int, b \in Int : a = Raw(u, s) /\ b = Raw(v, r)
  BY <1>2, <1>3
<1>5. i.signed = t.signed /\ 2^(i.width - 1) = m * (2 * n) /\ 2^i.width = (2 * m) * (2 * n)
  BY <1>1, <1>2, <1>3, IntermediateType
<1>6. PICK h \in Nat \ {0} : h = 2^r.frac /\ h <= n
  <2>1. PICK e \in Nat, w \in Nat : e = r.frac /\ w = r.width - 1 /\ e <= w
    BY DEF IsType
  <2>2. 2^e <= 2^w
    BY <2>1, PowerGrows
  <2> QED
    BY <1>3, <2>1, <2>2, ScaleOf
<1>7. PICK D \in Nat \ {0} : D = m * (2 * n) /\ (2 * m) * (2 * n) = 2 * D
  OBVIOUS
<1>8. PICK A \in Int : A = a * h /\ -D < A /\ A < D
  <2>1. PICK k \in Nat \ {0} : k = 2 * m
    OBVIOUS
  <2>2. -n <= h /\ h <= n /\ -k < a /\ a < k
    BY <1>2, <1>4, <1>6, <2>1
  <2>3. -(n * k) < h * a /\ h * a < n * k
    BY <2>2, ProductBelow
  <2>4. n * k = m * (2 * n) /\ h * a = a * h
    BY <2>1
  <2> QED
    BY <1>7, <2>3, <2>4
<1>9. -D < b /\ b < D
  <2>1. PICK k \in Nat \ {0} : k = 2 * n
    OBVIOUS
  <2>2. 1 * k <= m * k
    BY ProductOrder
  <2> QED
    BY <1>3, <1>4, <1>7, <2>1, <2>2
<1>10. N = (IF b < 0 THEN -A ELSE A)
  BY <1>4, <1>6, <1>8 DEF Dividend
<1>11. -D < Z /\ Z < D
  BY <1>8, <1>10
<1>12. ~t.signed => 0 <= A /\ 0 <= b /\ 0 <= Z
  <2>1. ASSUME 0 <= a PROVE 0 <= A
    <3>1. 0 * h <= a * h
      BY <2>1, ProductOrder
    <3> QED
      BY <1>8, <3>1
  <2> QED
    BY <1>4, <1>8, <1>10, <2>1
<1>13. \A k \in Int : -D < k /\ k < D /\ (t.signed \/ 0 <= k) => Fits(k, i)
  BY <1>5, <1>7 DEF Fits
<1>14. t.signed \in BOOLEAN
  BY DEF IsType
<1>15. Fits(A, i) /\ Fits(b, i) /\ Fits(Z, i)
  BY <1>8, <1>9, <1>11, <1>12, <1>13, <1>14
<1> QED
  BY <1>1, <1>4, <1>6, <1>8, <1>15

\* convertBinOp, of a division: the quotient is rounded towards zero in the intermediate
\* type, and then down to the places of the result.
LEMMA RatioClose ==
    ASSUME op = "div", Typed, range = HandleDiv(p, q), Holds(t, range),
           t.signed \/ (p.lo >= 0 /\ q.lo >= 0), r.frac < r.width,
           \A m \in {p.lo, p.hi}, n \in {q.lo, q.hi, DivEps, -DivEps} :
               Abs(n) >= DivEps => (m * Unit) % Abs(n) = 0,
           NEW u, InRange(u, s, p), NEW v, InRange(v, r, q),
           Abs(Raw(v, r)) * Unit >= DivEps * 2^r.frac
    PROVE  Close(Raw(u, s), Raw(v, r), Raw(Result(u, v), t))
<1>1. PICK f \in Nat \ {0}, h \in Nat \ {0}, g \in Nat \ {0} : f = 2^s.frac /\ h = 2^r.frac /\ g = 2^t.frac
  BY ScaleOf DEF Typed
<1>2. PICK a \in Int, b \in Int : a = Raw(u, s) /\ b = Raw(v, r)
  BY RawFits DEF InRange, Typed
<1>3. /\ Within(Dividend(a, b, h), f * Abs(b), range) /\ b # 0
      /\ range.lo \in Int /\ range.hi \in Int
  <2>1. Within(a, f, p) /\ Within(b, h, q) /\ Abs(b) * Unit >= DivEps * h
    BY <1>1, <1>2 DEF InRange
  <2>2. Bounded(p) /\ Bounded(q)
    BY DEF Typed
  <2> QED
    BY <2>1, <2>2, RatioWithin, ZenonT(60)
<1>4. PICK lo \in Int, hi \in Int, U \in Nat \ {0} : lo = range.lo /\ hi = range.hi /\ U = Unit
  BY <1>3, BitsAssumption
<1>5. PICK n \in Int : n = a * h
  OBVIOUS
<1>6. PICK N : N = (IF b < 0 THEN -n ELSE n) /\ N = Dividend(a, b, h)
  BY <1>5 DEF Dividend
<1>7. PICK M, Z : M = Abs(b) /\ Z = Quotient(n, b)
  OBVIOUS
<1>8. /\ Z \in Int /\ M \in Nat \ {0} /\ N \in Int
      /\ N >= 0 => Z >= 0 /\ M * Z <= N /\ Z <= N
      /\ N < 0 => Z <= 0 /\ N <= M * Z /\ N <= Z
      /\ \E y \in Int : b * Z = n - y /\ -M < y /\ y < M
  <2>1. N = Mirrored(n, b)
    BY <1>6 DEF Mirrored
  <2>2. /\ Z \in Int /\ M \in Nat \ {0} /\ N \in Int /\ TowardsZero(N, M, Z)
        /\ (N >= 0 => Z <= N) /\ (N < 0 => N <= Z)
        /\ \E y \in Int : b * Z = n - y /\ -M < y /\ y < M
    BY <1>3, <1>7, <2>1, QuotientOf
  <2> QED
    BY <2>2 DEF TowardsZero
<1>9. lo * (f * M) <= N * Unit /\ N * Unit <= hi * (f * M)
  BY <1>3, <1>4, <1>6, <1>7 DEF Within
<1>10. ~t.signed => 0 <= a /\ 0 < b
  <2>1. ASSUME ~t.signed PROVE 0 <= a /\ 0 < b
    <3>1. PICK l1 \in Int, l2 \in Int : l1 = p.lo /\ l2 = q.lo /\ 0 <= l1 /\ 0 <= l2
      BY <2>1 DEF Typed, Bounded
    <3>2. l1 * f <= a * U /\ l2 * h <= b * U
      BY <1>1, <1>2, <1>4, <3>1 DEF InRange, Within
    <3>3. 0 * f <= l1 * f /\ 0 * h <= l2 * h
      BY <3>1, ProductOrder
    <3>4. PICK A \in Int, B \in Int, C \in Int, D \in Int : A = l1 * f /\ B = a * U /\ C = l2 * h /\ D = b * U
      OBVIOUS
    <3>5. 0 * U <= a * U /\ 0 * U <= b * U
      BY <3>2, <3>3, <3>4
    <3>6. 0 <= a /\ 0 <= b
      BY <3>5, Cancelled
    <3> QED
      BY <1>3, <3>6
  <2> QED
    BY <2>1
<1>11. PICK i : i = IntermType(s, r, t)
  OBVIOUS
<1>12. IsType(i) /\ i.frac = s.frac + r.frac /\ Fits(n, i) /\ Fits(b, i) /\ Fits(Z, i)
  <2>1. IsType(s) /\ IsType(r) /\ IsType(t) /\ u \in Patterns(s) /\ v \in Patterns(r)
    BY DEF Typed, InRange
  <2>2. N = Dividend(Raw(u, s), Raw(v, r), 2^r.frac) /\ (~t.signed => 0 <= Raw(u, s) /\ 0 < Raw(v, r))
    BY <1>1, <1>2, <1>6, <1>10
  <2>3. Fits(Raw(u, s) * 2^r.frac, i) /\ Fits(Raw(v, r), i) /\ Fits(Z, i)
    BY <1>8, <1>11, <2>1, <2>2, RatioFits
  <2> QED
    BY <1>1, <1>2, <1>5, <1>11, <2>1, <2>3, IntermediateType
<1>13. PICK j : j = [i EXCEPT !.frac = s.frac]
  OBVIOUS
<1>14. IsType(j) /\ j.width = i.width /\ j.frac = s.frac /\ Fits(Z, j)
  <2>1. j.width = i.width /\ j.frac = s.frac /\ j.signed = i.signed
    BY <1>11, <1>13 DEF IntermType
  <2>2. IsType(j)
    BY <1>12, <2>1 DEF IsType, Typed
  <2> QED
    BY <1>12, <2>1, <2>2 DEF Fits
<1>15. FixedToFixed(u, s, i) = Bits(n, i.width)
  <2>1. FixedToFixed(u, s, i) = Bits((a * 2^i.frac) \div f, i.width)
    BY <1>1, <1>2, <1>12, ConvertsDown DEF Typed, InRange
  <2>2. 2^i.frac = f * h
    BY <1>1, <1>12, ScaleOfBoth DEF Typed
  <2>3. a * (f * h) = f * n
    BY <1>5
  <2>4. (f * n) \div f = n
    BY QuotientOfMultiple
  <2> QED
    BY <2>1, <2>2, <2>3, <2>4
<1>16. ExtOrTrunc(v, r.signed, r.width, i.width) = Bits(b, i.width)
  BY <1>2 DEF ExtOrTrunc, Raw
<1>17. Raw(Bits(n, i.width), i) = n /\ Raw(Bits(b, i.width), i) = b
  BY <1>12, BitsFit
<1>18. Result(u, v) = FixedToFixed(Bits(Z, i.width), j, t)
  BY <1>7, <1>11, <1>13, <1>15, <1>16, <1>17 DEF Result, Ratio
<1>19. Bits(Z, j.width) \in Patterns(j) /\ Raw(Bits(Z, j.width), j) = Z
  BY <1>8, <1>14, BitsFit
<1>20. PICK F \in Int : F = (Z * g) \div f /\ f * F <= Z * g /\ Z * g < f * F + f
  <2>1. PICK P \in Int : P = Z * g
    BY <1>8
  <2>2. P \div f \in Int /\ f * (P \div f) <= P /\ P < f * (P \div f) + f
    BY QuotientBounds
  <2> QED
    BY <2>1, <2>2
<1>21. Result(u, v) = Bits(F, t.width)
  BY <1>1, <1>14, <1>18, <1>19, <1>20, ConvertsDown DEF Typed
<1>22. PICK l \in Int, k \in Int : l = (IF lo < 0 THEN lo ELSE 0) /\ k = (IF hi > 0 THEN hi ELSE 0)
  OBVIOUS
<1>23. l * g - Unit < F * Unit /\ F * Unit < k * g + Unit
  <2>1. TowardsZero(N, M, Z) /\ Spans(N * Unit, f * M, lo, hi)
    BY <1>8, <1>9 DEF TowardsZero, Spans
  <2>2. N \in Int /\ M \in Nat \ {0} /\ Z \in Int /\ f * F <= Z * g /\ Z * g < f * F + f
    BY <1>8, <1>20
  <2>3. NearRange(F, g, lo, hi)
    BY ONLY <2>1, <2>2, QuotientPlace, lo \in Int, hi \in Int, F \in Int,
            f \in Nat \ {0}, g \in Nat \ {0}
  <2> QED
    BY <1>22, <2>3 DEF NearRange
<1>24. Holds(t, MakeRange(l, k))
  <2>1. PICK e \in Nat : e = IntBits(t) /\ t.frac \in Nat
    BY DEF Typed, IsType, IntBits, SignBit
  <2>2. PICK B \in Nat \ {0}, C \in Nat \ {0} : B = 2^e /\ C = 2^(e + t.frac)
    BY <2>1, PowerOfTwo
  <2>3. 0 <= B * U /\ 0 <= (C - 1) * U /\ 0 * g = 0
    OBVIOUS
  <2>4. (lo < 0 => t.signed) /\ -lo <= B * U /\ hi * g <= (C - 1) * U
    BY <1>1, <1>4, <2>1, <2>2 DEF Holds
  <2>5. (l < 0 => t.signed) /\ -l <= B * U /\ k * g <= (C - 1) * U
    BY <1>22, <2>3, <2>4
  <2> QED
    BY <1>1, <1>4, <2>1, <2>2, <2>5, MakeRangeFields DEF Holds
<1>25. Raw(Bits(F, t.width), t) = F
  BY <1>1, <1>23, <1>24, NearFits DEF Typed
<1>26. PICK y \in Int : b * Z = a * h - y /\ -Abs(b) < y /\ y < Abs(b)
  BY <1>5, <1>7, <1>8
<1>27. Abs((F * b) * f - a * (h * g)) < Abs(b) * (f + g)
  BY <1>3, <1>8, <1>20, <1>26, QuotientNear
<1> QED
  BY <1>1, <1>2, <1>21, <1>25, <1>27, CloseRatio DEF Typed

-----------------------------------------------------------------------------
(***************************************************************************)
(* The types that are allocated and merged.                                *)
(***************************************************************************)
\* A type with no less than no bits before the point.
Sized(c) == IsType(c) /\ IntBits(c) >= 0

\* The type for a range is such a type, and has a bit before the point or for the
\* sign when the range is not that of 0.
LEMMA SizedForRanges ==
    ASSUME NEW x, x.finite, NEW c \in TypeFor(x)
    PROVE  Sized(c) /\ (Bounded(x) /\ (x.lo # 0 \/ x.hi # 0) => c.frac < c.width)
<1> DEFINE m == Magnitude(x)
           i == WholeBits(m) + SignBit(x.lo < 0)
<1>2. PICK z \in ZeroBits(m) :
        c = [width |-> SizeFor(i, z),
             frac |-> IF SizeFor(i, z) - i < FracThreshold THEN 0 ELSE SizeFor(i, z) - i,
             signed |-> x.lo < 0]
  BY DEF TypeFor
<1>3. Bounded(x) => m \in Int /\ (x.lo # 0 \/ x.hi # 0 => m > 0)
  BY DEF Magnitude, Larger, Bounded
<1>4. WholeBits(m) \in Nat /\ (m \in Int /\ m > 0 => WholeBits(m) # 0)
  <2> DEFINE T == {k \in 0..MaxExponent : 2^k * Unit < m + Unit}
  <2>1. IsFiniteSet(0..MaxExponent) /\ T \subseteq 0..MaxExponent
    BY FS_Interval, BitsAssumption
  <2>2. IsFiniteSet(T) /\ Cardinality(T) \in Nat
    BY <2>1, FS_Subset, FS_CardinalityType
  <2>3. ASSUME m \in Int, m > 0 PROVE 0 \in T
    <3>1. 2^0 = 1 /\ 0 \in 0..MaxExponent
      BY PowerOfTwo, BitsAssumption
    <3> HIDE DEF m
    <3> QED
      BY <2>3, <3>1, BitsAssumption
  <2>4. WholeBits(m) = Cardinality(T)
    BY DEF WholeBits
  <2> HIDE DEF T, m
  <2>5. ASSUME m \in Int, m > 0 PROVE Cardinality(T) # 0
    BY <2>2, <2>3, <2>5, FS_EmptySet
  <2> QED
    BY <2>2, <2>4, <2>5
<1>5. IsType(c)
  BY TypesForRanges
<1>6. PICK w \in Nat, size \in Nat \ {0}, sg \in {0, 1} :
        w = WholeBits(m) /\ sg = SignBit(x.lo < 0) /\ size = c.width /\ size = SizeFor(i, z)
  BY <1>2, <1>4, <1>5 DEF IsType, SignBit
<1>7. /\ c.frac = (IF size - (w + sg) < FracThreshold THEN 0 ELSE size - (w + sg))
      /\ IntBits(c) = size - c.frac - sg
  BY <1>2, <1>6 DEF IntBits
<1> HIDE DEF m, i
<1> QED
  BY <1>3, <1>4, <1>5, <1>6, <1>7 DEF Sized

\* The integer types are, too.
LEMMA IntegersSized == \A b \in BOOLEAN : Sized(IntType(b)) /\ IntType(b).frac = 0
BY ArithmeticAssumption DEF IntType, Sized, IsType, IntBits, SignBit

\* Merged types are, and have a bit before the point or for the sign when one of
\* the two has.
LEMMA MergedSized ==
    ASSUME NEW c, NEW d, Sized(c), HasFields(d), IntBits(d) >= 0, NEW m
    PROVE  /\ m \in Merge(c, d) \cup Merge(d, c) => Sized(m) /\ (c.frac < c.width => m.frac < m.width)
<1>1. HasFields(c)
  BY DEF HasFields, Sized, IsType
<1>2. ASSUME m \in Merge(c, d) \cup Merge(d, c)
      PROVE  /\ IsType(m) /\ m.signed = (c.signed \/ d.signed)
             /\ IntBits(m) = Larger(IntBits(c), IntBits(d))
  <2>1. IsType(m)
    BY <1>1, <1>2, MergedTypes DEF Sized
  <2>2. /\ m.signed = (c.signed \/ d.signed)
        /\ m.frac = m.width - Larger(IntBits(c), IntBits(d)) - SignBit(m.signed)
    BY <1>1, <1>2 DEF Merge, Larger, HasFields, IntBits, SignBit, Sized
  <2>3. IntBits(c) \in Int /\ IntBits(d) \in Int
    BY <1>1 DEF HasFields, IntBits, SignBit
  <2>4. Larger(IntBits(c), IntBits(d)) \in Int
    BY <2>3 DEF Larger
  <2> QED
    BY <2>1, <2>2, <2>4 DEF IntBits, IsType, SignBit
<1>3. IntBits(c) \in Int /\ IntBits(d) \in Int /\ IntBits(c) >= 0
  BY <1>1 DEF HasFields, IntBits, SignBit, Sized
<1>4. c.frac < c.width => IntBits(c) > 0 \/ c.signed
  BY <1>1 DEF HasFields, IntBits, SignBit
<1> QED
  BY <1>2, <1>3, <1>4 DEF Sized, IsType, IntBits, Larger, SignBit

\* From their allocation on, the operands and the result of an instruction that is
\* converted have types with no less than no bits before the point; an integer has
\* none after it; and a divisor that is not 0 has one before the point or for its sign.
Prepared ==
    /\ Analyzed
    /\ phase \in {"merge", "done"} /\ op \in Converted =>
          /\ Sized(s) /\ Sized(r) /\ Sized(t)
          /\ op = "toint" => t.frac = 0
          /\ op = "div" /\ (q.lo # 0 \/ q.hi # 0) => r.frac < r.width

LEMMA OtherTypesSized == \A u \in OtherTypes : HasFields(u) /\ IntBits(u) >= 0
BY ArithmeticAssumption DEF TypeT, HasFields

\* The ranges of operands and results have bounds.
LEMMA RangesFinite ==
    ASSUME Operands
    PROVE  p.finite /\ q.finite /\ (op \in Converted => RangeOf.finite)
<1>1. \A x \in Ranges : x.finite
  <2> SUFFICES ASSUME NEW m, NEW n
               PROVE  MakeRange(m, n).finite
    BY DEF Ranges, RangesOver
  <2> QED
    BY DEF MakeRange
<1>2. p.finite /\ q.finite
  BY <1>1 DEF Operands
<1>3. \A S : Hull(S).finite
  BY DEF Hull, MakeRange
<1>4. ASSUME op \in Converted PROVE RangeOf.finite
  <2>1. CASE op = "add"
    BY <2>1 DEF RangeOf, Comparisons, HandleAdd, MakeRange
  <2>2. CASE op = "sub"
    BY <2>2 DEF RangeOf, Comparisons, HandleSub, MakeRange
  <2>3. CASE op = "mul"
    BY <1>3, <2>3 DEF RangeOf, Comparisons, HandleMul
  <2>4. CASE op = "div"
    BY <1>3, <2>4 DEF RangeOf, Comparisons, HandleDiv
  <2>5. CASE op = "neg"
    BY <2>5 DEF RangeOf, Comparisons, HandleNeg, MakeRange
  <2>6. CASE op = "toint"
    BY <2>6 DEF RangeOf, Comparisons, HandleCastToSI, MakeRange
  <2>7. CASE op \in {"fromint", "fromfloat"}
    BY <1>2, <2>7 DEF RangeOf, Comparisons
  <2> QED
    BY <1>4, <2>1, <2>2, <2>3, <2>4, <2>5, <2>6, <2>7 DEF Converted
<1> QED
  BY <1>2, <1>4

\* Allocation makes such types, and merging keeps them.
LEMMA PreparedKept == Prepared /\ [Next]_vars => Prepared'
<1> SUFFICES ASSUME Prepared, [Next]_vars, phase' \in {"merge", "done"}, op' \in Converted
             PROVE  /\ Sized(s)' /\ Sized(r)' /\ Sized(t)'
                    /\ op' = "toint" => t'.frac = 0
                    /\ op' = "div" /\ (q'.lo # 0 \/ q'.hi # 0) => r'.frac < r'.width
  BY AnalyzedKept DEF Prepared
<1>0. op' = op /\ p' = p /\ q' = q /\ op \in Converted
  BY DEF Next, vars, Analyze, Allocate, MergeTypes, Convert, Done
<1>1. CASE Analyze
  BY <1>1 DEF Analyze, Converted
<1>2. CASE Allocate
  <2>1. Operands /\ range = RangeOf /\ phase = "allocate" /\ op \notin Comparisons
    BY <1>0, <1>2 DEF Allocate, Prepared, Analyzed, Converted, Comparisons
  <2>2. p.finite /\ q.finite /\ range.finite
    BY <1>0, <2>1, RangesFinite
  <2>3. Sized(s')
    <3>1. (p.lo < 0) \in BOOLEAN
      OBVIOUS
    <3>2. s' \in (IF op = "fromint" THEN {IntType(p.lo < 0)} ELSE TypeFor(p))
      BY <1>2 DEF Allocate
    <3> QED
      BY <2>2, <3>1, <3>2, IntegersSized, SizedForRanges
  <2>4. Sized(r') /\ (q.lo # 0 \/ q.hi # 0 => r'.frac < r'.width)
    <3>1. r' \in TypeFor(q)
      BY <1>2 DEF Allocate
    <3>2. Bounded(q)
      BY <2>1, RangesAreBounded DEF Operands
    <3> QED
      BY <2>2, <3>1, <3>2, SizedForRanges
  <2>5. Sized(t') /\ (op = "toint" => t'.frac = 0)
    <3>1. CASE op = "toint"
      <4>1. t' \in (CASE op = "toint" -> {IntType(p.lo < 0)}
                      [] op \in Comparisons -> {NoType}
                      [] OTHER -> TypeFor(range))
        BY <1>2 DEF Allocate
      <4>2. (p.lo < 0) \in BOOLEAN
        OBVIOUS
      <4> QED
        BY <3>1, <4>1, <4>2, IntegersSized DEF Comparisons
    <3>2. CASE op # "toint"
      <4>1. t' \in TypeFor(range)
        BY <1>2, <2>1, <3>2 DEF Allocate
      <4> QED
        BY <2>2, <3>2, <4>1, SizedForRanges
    <3> QED
      BY <3>1, <3>2
  <2> QED
    BY <1>0, <2>3, <2>4, <2>5 DEF Sized, IsType, IntBits, SignBit
<1>3. CASE MergeTypes
  <2>1. /\ Sized(s) /\ Sized(r) /\ Sized(t) /\ op # "toint"
        /\ op = "div" /\ (q.lo # 0 \/ q.hi # 0) => r.frac < r.width
    BY <1>0, <1>3 DEF MergeTypes, Prepared
  <2>2. \A c, d : Sized(c) /\ HasFields(d) /\ IntBits(d) >= 0 =>
          \A m \in Merge(c, d) \cup Merge(d, c) : Sized(m) /\ (c.frac < c.width => m.frac < m.width)
    BY MergedSized
  <2>3. \A c : Sized(c) => HasFields(c) /\ IntBits(c) >= 0
    BY DEF Sized, IsType, HasFields
  <2>4. /\ \A m \in Merge(s, t) \cup Merge(r, t) \cup Merge(s, r) : Sized(m)
        /\ \A m \in Merge(r, t) \cup Merge(s, r) : r.frac < r.width => m.frac < m.width
        /\ \A u \in OtherTypes : \A m \in Merge(s, u) \cup Merge(t, u) : Sized(m)
    BY <2>1, <2>2, <2>3, OtherTypesSized
  <2>5. CASE \E m \in Merge(s, t) : s' = m /\ t' = m /\ r' = r
    BY <1>0, <2>1, <2>4, <2>5 DEF Sized, IsType, IntBits, SignBit
  <2>6. CASE \E m \in Merge(r, t) : r' = m /\ t' = m /\ s' = s
    BY <1>0, <2>1, <2>4, <2>6 DEF Sized, IsType, IntBits, SignBit
  <2>7. CASE \E m \in Merge(s, r) : s' = m /\ r' = m /\ t' = t
    BY <1>0, <2>1, <2>4, <2>7 DEF Sized, IsType, IntBits, SignBit
  <2>8. CASE \E u \in OtherTypes : s' \in Merge(s, u) /\ UNCHANGED <<r, t>>
    BY <1>0, <2>1, <2>4, <2>8 DEF Sized, IsType, IntBits, SignBit
  <2>9. CASE \E u \in OtherTypes : t' \in Merge(t, u) /\ UNCHANGED <<s, r>>
    BY <1>0, <2>1, <2>4, <2>9 DEF Sized, IsType, IntBits, SignBit
  <2> QED
    BY <1>3, <2>5, <2>6, <2>7, <2>8, <2>9 DEF MergeTypes
<1>4. CASE Convert
  BY <1>0, <1>4 DEF Convert, Prepared, Sized, IsType, IntBits, SignBit
<1>5. CASE UNCHANGED vars \/ Done
  BY <1>0, <1>5 DEF Done, vars, Prepared, Sized, IsType, IntBits, SignBit
<1> QED
  BY <1>1, <1>2, <1>3, <1>4, <1>5 DEF Next

\* No type is allocated at first.
LEMMA PreparedAtFirst == Init => Prepared
BY AnalyzedAtFirst DEF Init, Prepared

\* Casts to an integer: what is rounded down is not below the lower bound rounded
\* down, and not a place above the upper bound, which is rounded towards 0.
LEMMA CastClose ==
    ASSUME op = "toint", Typed, range = HandleCastToSI(p), t.frac = 0,
           Holds(t, MakeRange(Down(p.lo), range.hi)),
           NEW u, InRange(u, s, p), NEW b
    PROVE  \A v : Close(Raw(u, s), b, Raw(Result(u, v), t))
<1>1. p.lo \in Int /\ p.hi \in Int
  BY DEF Typed, Bounded
<1>2. range.hi = Truncated(p.hi)
  BY DEF HandleCastToSI, MakeRange
<1>3. \A m \in Int : Down(m) \in Int /\ Down(m) <= m /\ m < Down(m) + Unit
  BY BitsAssumption DEF Down
<1>5. /\ Down(p.lo) \in Int /\ Down(p.lo) <= p.lo
      /\ Truncated(p.hi) \in Int /\ p.hi < Truncated(p.hi) + Unit
  BY <1>1, <1>3, BitsAssumption DEF Up, Truncated
<1>4. 2^t.frac = 1
  BY PowerOfTwo
<1> QED
  BY <1>1, <1>2, <1>4, <1>5, ConversionClose

\* The types of an instruction that is converted.
LEMMA PreparedTyped ==
    ASSUME Prepared, phase = "done", op \in Converted
    PROVE  Typed /\ range = RangeOf /\ p \in Ranges /\ q \in Ranges
<1>1. p \in Ranges /\ q \in Ranges /\ range = RangeOf
  BY DEF Prepared, Analyzed, Operands
<1> QED
  BY <1>1, RangesAreBounded DEF Prepared, Typed, Sized

\* The bounds of ranges of operands are among the bounds.
LEMMA BoundsOfRanges ==
    ASSUME op \in Converted
    PROVE  \A x \in Ranges : x.lo \in Bounds /\ x.hi \in Bounds
<1> SUFFICES ASSUME NEW m \in Bounds, NEW n \in Bounds
             PROVE  MakeRange(m, n).lo \in Bounds /\ MakeRange(m, n).hi \in Bounds
  BY DEF Ranges, RangesOver, Converted, OnIntegers, Shifts
<1> QED
  BY DEF MakeRange

\* A divisor is not 0.
LEMMA DivisorNotZero ==
    ASSUME Typed, NEW v, InRange(v, r, q), Abs(Raw(v, r)) * Unit >= DivEps * 2^r.frac
    PROVE  q.lo # 0 \/ q.hi # 0
<1>1. PICK h \in Nat \ {0} : h = 2^r.frac
  BY ScaleOf DEF Typed
<1>2. PICK b \in Int : b = Raw(v, r)
  BY RawFits DEF InRange, Typed
<1>3. q.lo * h <= b * Unit /\ b * Unit <= q.hi * h /\ Abs(b) * Unit >= DivEps * h
  BY <1>1, <1>2 DEF InRange, Within
<1>4. PICK e \in Nat \ {0} : e = DivEps * h
  BY <1>1, ArithmeticAssumption
<1>5. CASE q.lo = 0 /\ q.hi = 0
  <2>1. b * Unit = 0
    BY <1>1, <1>2, <1>3, <1>5, BitsAssumption
  <2>2. b = 0
    BY <1>2, <2>1, BitsAssumption
  <2>3. Abs(b) * Unit = 0
    BY <2>2, BitsAssumption DEF Abs
  <2> QED
    BY <1>3, <1>4, <2>3
<1> QED
  BY <1>5

\* Once its operands have ranges and types, what is computed is close.
LEMMA PreparedClose == ExactBounds /\ Prepared => ResultsClose
<1> SUFFICES ASSUME ExactBounds, Prepared, phase = "done", op \in Converted,
                    Holds(t, range), ~ResultKnownWrong
             PROVE  IF op = "fromfloat"
                    THEN \A x \in Numbers(p) : \A u \in {FloatToFix(x, t), ConvertAPFloat(x, t)} :
                            Abs(Raw(u, t) * Unit - x * 2^t.frac) < Unit
                    ELSE \A u \in Held(s, p), v \in Held(r, q) :
                            (op = "div" => Abs(Raw(v, r)) * Unit >= DivEps * 2^r.frac)
                                => Close(Raw(u, s), Raw(v, r), Raw(Result(u, v), t))
  BY DEF ResultsClose
<1>1. Typed /\ range = RangeOf /\ p \in Ranges /\ q \in Ranges
  BY PreparedTyped
<1>2. CASE op = "fromfloat"
  <2>1. range = p
    BY <1>1, <1>2 DEF RangeOf, Comparisons
  <2>2. \A x \in Numbers(p) : x \in Int /\ p.lo <= x /\ x <= p.hi
    BY <1>1 DEF Numbers, Typed, Bounded
  <2>3. \A x \in Numbers(p) : \A u \in {FloatToFix(x, t), ConvertAPFloat(x, t)} :
            Abs(Raw(u, t) * Unit - x * 2^t.frac) < Unit
    BY <1>1, <2>1, <2>2, FloatsClose
  <2> QED
    BY <1>2, <2>3
<1>3. ASSUME op # "fromfloat", NEW u \in Held(s, p), NEW v \in Held(r, q),
             op = "div" => Abs(Raw(v, r)) * Unit >= DivEps * 2^r.frac
      PROVE  Close(Raw(u, s), Raw(v, r), Raw(Result(u, v), t))
  <2>1. InRange(u, s, p) /\ InRange(v, r, q)
    BY HeldInRange
  <2>2. /\ p.lo \in Bounds /\ p.hi \in Bounds /\ q.lo \in Bounds /\ q.hi \in Bounds
    BY <1>1, BoundsOfRanges
  <2>3. CASE op = "add"
    <3>1. range = HandleAdd(p, q)
      BY <1>1, <2>3 DEF RangeOf, Comparisons
    <3>2. Representable(p.lo) \/ Representable(q.lo)
      BY <2>3 DEF ResultKnownWrong
    <3> QED
      BY <1>1, <2>1, <2>3, <3>1, <3>2, SumClose
  <2>4. CASE op = "sub"
    <3>1. range = HandleSub(p, q)
      BY <1>1, <2>4 DEF RangeOf, Comparisons
    <3> QED
      BY <1>1, <2>1, <2>4, <3>1, DifferenceClose
  <2>5. CASE op = "mul"
    <3>1. range = HandleMul(p, q)
      BY <1>1, <2>5 DEF RangeOf, Comparisons
    <3>2. t.signed => s.signed \/ r.signed
      BY <2>5 DEF ResultKnownWrong
    <3>3. \A m \in {p.lo, p.hi}, n \in {q.lo, q.hi} : (m * n) % Unit = 0
      BY <2>2 DEF ExactBounds
    <3> QED
      BY <1>1, <2>1, <2>5, <3>1, <3>2, <3>3, ProductClose
  <2>6. CASE op = "div"
    <3>1. range = HandleDiv(p, q)
      BY <1>1, <2>6 DEF RangeOf, Comparisons
    <3>2. t.signed \/ (p.lo >= 0 /\ q.lo >= 0)
      BY <1>1, <2>6 DEF ResultKnownWrong, Typed, Bounded
    <3>3. \A m \in {p.lo, p.hi}, n \in {q.lo, q.hi, DivEps, -DivEps} :
              Abs(n) >= DivEps => (m * Unit) % Abs(n) = 0
      BY <2>2 DEF ExactBounds
    <3>4. Abs(Raw(v, r)) * Unit >= DivEps * 2^r.frac
      BY <1>3, <2>6
    <3>5. r.frac < r.width
      BY <1>1, <2>1, <2>6, <3>4, DivisorNotZero DEF Prepared
    <3> QED
      BY <1>1, <2>1, <2>6, <3>1, <3>2, <3>3, <3>4, <3>5, RatioClose
  <2>7. CASE op = "neg"
    <3>1. range = HandleNeg(p)
      BY <1>1, <2>7 DEF RangeOf, Comparisons
    <3> QED
      BY <1>1, <2>1, <2>7, <3>1, NegationClose
  <2>8. CASE op = "fromint"
    <3>1. range = p
      BY <1>1, <2>8 DEF RangeOf, Comparisons
    <3>2. p.lo \in Int /\ p.hi \in Int
      BY <1>1 DEF Typed, Bounded
    <3>3. Holds(t, MakeRange(p.lo, p.hi))
      BY <3>1 DEF Holds, MakeRange
    <3>4. PICK g \in Nat \ {0} : g = 2^t.frac
      BY <1>1, ScaleOf DEF Typed
    <3>5. p.hi * 2^t.frac < p.hi * 2^t.frac + Unit
      BY <3>2, <3>4, BitsAssumption
    <3> QED
      BY <1>1, <2>1, <2>8, <3>2, <3>3, <3>5, ConversionClose
  <2>9. CASE op = "toint"
    <3>1. range = HandleCastToSI(p)
      BY <1>1, <2>9 DEF RangeOf, Comparisons
    <3>2. t.frac = 0
      BY <2>9 DEF Prepared
    <3>3. Holds(t, MakeRange(Down(p.lo), range.hi))
      BY <2>9 DEF ResultKnownWrong
    <3> QED
      BY <1>1, <2>1, <2>9, <3>1, <3>2, <3>3, CastClose
  <2> QED
    BY <1>3, <2>3, <2>4, <2>5, <2>6, <2>7, <2>8, <2>9 DEF Converted
<1> QED
  BY <1>2, <1>3

\* What is made of an instruction (convertBinOp, convertUnaryOp, convertCast,
\* genConvertFloatToFix, convertLiteral) is close to what the instruction makes of all
\* numbers in the ranges of its operands, for the type that dataTypeAllocation gives
\* its range, merged or not, whatever the bounds, the types and the sizes.
THEOREM ResultsStayClose == ASSUME ExactBounds PROVE Spec => []ResultsClose
<1>1. Prepared => ResultsClose
  BY PreparedClose
<1> QED
  BY PreparedAtFirst, PreparedKept, <1>1, PTL DEF Spec
===============================================================================
