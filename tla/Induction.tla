------------------------------- MODULE Induction -------------------------------
(***************************************************************************)
(* Facts that the proofs of the other modules use.  Induction is stated    *)
(* with sets: the least element of a set of natural numbers in place of a  *)
(* predicate.  From it: that a recursion over numbers or over the elements *)
(* of a sequence defines a function, and what powers of two do.            *)
(***************************************************************************)
EXTENDS Integers, Sequences, FiniteSets, FiniteSetTheorems, FunctionTheorems,
        WellFoundedInduction, TLAPS

\* A set of natural numbers that is not empty has a least element.
LEMMA LeastNatural ==
    ASSUME NEW T, T \subseteq Nat, NEW m \in T
    PROVE  \E n \in T : \A k \in T : n <= k
<1> DEFINE R == {ss \in Nat \X Nat : ss[1] < ss[2]}
<1>1. R = OpToRel(<, Nat)
  BY Zenon DEF OpToRel
<1>2. IsWellFoundedOn(R, Nat)
  BY <1>1, NatLessThanWellFounded, Zenon
<1> HIDE DEF R
<1>3. PICK n \in T : \A y \in T : <<y, n>> \notin R
  BY <1>2, WFMin, Zenon
<1>4. \A y \in T : ~(y < n)
  BY <1>3 DEF R
<1> QED
  BY <1>4

\* What holds of 0, and of n + 1 with n, holds of all natural numbers.
LEMMA InductionOnSet ==
    ASSUME NEW S, 0 \in S, \A n \in Nat : n \in S => n + 1 \in S
    PROVE  Nat \subseteq S
<1> SUFFICES ASSUME NEW b \in Nat, b \notin S
             PROVE  FALSE
  OBVIOUS
<1> DEFINE T == Nat \ S
<1>1. PICK n \in T : \A k \in T : n <= k
  BY LeastNatural
<1>2. n # 0 /\ n - 1 \in Nat /\ n - 1 \notin T
  BY <1>1
<1> QED
  BY <1>1, <1>2

\* The same, up to m.
LEMMA InductionUpTo ==
    ASSUME NEW m \in Nat, NEW S, 0 \in S, \A n \in 0..m : n < m /\ n \in S => n + 1 \in S
    PROVE  0..m \subseteq S
<1> DEFINE T == S \cup {n \in Nat : n > m}
<1>1. \A n \in Nat : n \in T => n + 1 \in T
  OBVIOUS
<1>2. Nat \subseteq T
  <2> HIDE DEF T
  <2>1. 0 \in T
    BY DEF T
  <2> QED
    BY <1>1, <2>1, InductionOnSet
<1> QED
  BY <1>2

(***************************************************************************)
(* Steps G[1], G[2], ... taken one after the other from base.              *)
(***************************************************************************)
LEMMA IterationExists ==
    ASSUME NEW A, NEW base \in A, NEW m \in Nat, NEW G \in [1..m -> [A -> A]]
    PROVE  \E f \in [0..m -> A] : f[0] = base /\ \A i \in 1..m : f[i] = G[i][f[i-1]]
<1> DEFINE IsUpTo(n, f) == f[0] = base /\ \A i \in 1..n : f[i] = G[i][f[i-1]]
           S == {n \in 0..m : \E f \in [0..n -> A] : IsUpTo(n, f)}
<1>1. 0 \in S
  <2> DEFINE f == [i \in 0..0 |-> base]
  <2>1. f \in [0..0 -> A] /\ IsUpTo(0, f)
    OBVIOUS
  <2>2. 0 \in 0..m
    OBVIOUS
  <2> HIDE DEF f, IsUpTo
  <2> QED
    BY <2>1, <2>2
<1>2. ASSUME NEW n \in 0..m, n < m, n \in S
      PROVE  n + 1 \in S
  <2>1. PICK f \in [0..n -> A] : IsUpTo(n, f)
    BY <1>2
  <2> DEFINE g == [i \in 0..(n+1) |-> IF i = n + 1 THEN G[n+1][f[n]] ELSE f[i]]
  <2>2. G[n+1][f[n]] \in A
    BY <1>2
  <2>3. g \in [0..(n+1) -> A]
    BY <2>2
  <2>4. \A i \in 1..(n+1) : g[i] = G[i][g[i-1]]
    <3> SUFFICES ASSUME NEW i \in 1..(n+1)
                 PROVE  g[i] = G[i][g[i-1]]
      OBVIOUS
    <3>1. g[i-1] = f[i-1]
      OBVIOUS
    <3>2. CASE i = n + 1
      BY <3>1, <3>2
    <3>3. CASE i # n + 1
      BY <3>1, <3>3, <2>1
    <3> QED
      BY <3>2, <3>3
  <2>5. g[0] = base
    BY <2>1
  <2> HIDE DEF g
  <2> QED
    BY <2>3, <2>4, <2>5, <1>2
<1> HIDE DEF S
<1>3. 0..m \subseteq S
  BY <1>1, <1>2, InductionUpTo
<1>4. m \in S
  BY <1>3
<1> QED
  BY <1>4 DEF S

\* The largest element of a set of numbers from 1 to n.
LEMMA LargestUpTo ==
    ASSUME NEW n \in Nat, NEW s \in SUBSET (1..n), s # {}
    PROVE  \E x \in s : \A y \in s : y <= x
<1> DEFINE T == {n - x : x \in s}
<1>1. PICK x \in s : TRUE
  OBVIOUS
<1>2. T \subseteq Nat /\ n - x \in T
  OBVIOUS
<1>3. PICK k \in T : \A l \in T : k <= l
  <2> HIDE DEF T
  <2> QED
    BY <1>2, LeastNatural
<1>4. PICK z \in s : k = n - z
  OBVIOUS
<1>5. ASSUME NEW y \in s
      PROVE  y <= z
  <2>1. n - y \in T
    OBVIOUS
  <2>2. k <= n - y
    BY <2>1, <1>3
  <2> QED
    BY <2>2, <1>4
<1> QED
  BY <1>5

\* A set of natural numbers with a bound has a largest element.
LEMMA LargestBounded ==
    ASSUME NEW b \in Nat, NEW s, s \subseteq 0..b, s # {}
    PROVE  \E x \in s : \A y \in s : y <= x
<1> DEFINE T == {b - x : x \in s}
<1>1. PICK x \in s : TRUE
  OBVIOUS
<1>2. T \subseteq Nat /\ b - x \in T
  OBVIOUS
<1>3. PICK k \in T : \A l \in T : k <= l
  <2> HIDE DEF T
  <2> QED
    BY <1>2, LeastNatural
<1>4. PICK z \in s : k = b - z
  OBVIOUS
<1>5. ASSUME NEW y \in s
      PROVE  y <= z
  <2>1. b - y \in T
    OBVIOUS
  <2>2. k <= b - y
    BY <2>1, <1>3
  <2> QED
    BY <2>2, <1>4
<1> QED
  BY <1>5

(***************************************************************************)
(* A set that grows with each step, inside a finite set U, grows no        *)
(* further after as many steps as U has elements.                          *)
(***************************************************************************)
Grows(G, U) == G \in [SUBSET U -> SUBSET U] /\ \A W \in SUBSET U : W \subseteq G[W]
IsGrowth(f, U, m, G) == f \in [0..m -> SUBSET U] /\ \A i \in 1..m : f[i] = G[f[i - 1]]

LEMMA GrowthEnds ==
    ASSUME NEW U, IsFiniteSet(U), NEW m \in Nat, m >= Cardinality(U),
           NEW G, Grows(G, U), NEW f, IsGrowth(f, U, m, G)
    PROVE  G[f[m]] = f[m]
<1>0. /\ G \in [SUBSET U -> SUBSET U] /\ \A W \in SUBSET U : W \subseteq G[W]
      /\ f \in [0..m -> SUBSET U] /\ \A i \in 1..m : f[i] = G[f[i - 1]]
  BY DEF Grows, IsGrowth
<1> DEFINE S == {i \in 0..m : Cardinality(f[i]) >= i \/ G[f[i]] = f[i]}
<1>1. ASSUME NEW i \in 0..m
      PROVE  /\ f[i] \in SUBSET U /\ IsFiniteSet(f[i]) /\ Cardinality(f[i]) \in Nat
             /\ Cardinality(f[i]) <= Cardinality(U)
             /\ Cardinality(U) = Cardinality(f[i]) => U = f[i]
  BY <1>0, FS_Subset, FS_CardinalityType
<1>2. 0 \in S
  BY <1>1
<1>3. ASSUME NEW i \in 0..m, i < m, i \in S
      PROVE  i + 1 \in S
  <2>1. PICK X \in SUBSET U, Y \in SUBSET U : X = f[i] /\ Y = f[i + 1] /\ Y = G[X]
    <3>1. i + 1 \in 1..m /\ i + 1 \in 0..m /\ (i + 1) - 1 = i
      BY <1>3
    <3>2. f[i + 1] = G[f[i]]
      BY <1>0, <3>1
    <3> QED
      BY <1>0, <1>1, <3>1, <3>2
  <2>2. CASE Y = X
    <3>1. i + 1 \in 0..m
      BY <1>3
    <3>2. G[Y] = Y
      BY <2>1, <2>2
    <3>3. G[f[i + 1]] = f[i + 1]
      BY <2>1, <3>2
    <3> QED
      BY <3>1, <3>3
  <2>3. CASE Y # X
    <3>1. IsFiniteSet(Y) /\ Cardinality(Y) \in Nat /\ Cardinality(X) \in Nat
      BY FS_Subset, FS_CardinalityType
    <3>2. X \in SUBSET Y
      BY <1>0, <2>1
    <3>3. Cardinality(X) <= Cardinality(Y) /\ Cardinality(X) # Cardinality(Y)
      BY <2>3, <3>1, <3>2, FS_Subset
    <3>4. Cardinality(X) >= i
      BY <1>3, <2>1, <2>3
    <3>5. Cardinality(f[i + 1]) >= i + 1
      BY <2>1, <3>1, <3>3, <3>4
    <3> QED
      BY <1>3, <3>5
  <2> QED
    BY <2>2, <2>3
<1>4. m \in S
  <2>1. \A i \in 0..m : i < m /\ i \in S => i + 1 \in S
    BY <1>3
  <2> HIDE DEF S
  <2>2. 0..m \subseteq S
    BY <1>2, <2>1, InductionUpTo
  <2> QED
    BY <2>2
<1>5. CASE Cardinality(f[m]) >= m
  <2>1. Cardinality(U) \in Nat
    BY FS_CardinalityType
  <2>2. f[m] = U
    BY <1>1, <1>5, <2>1
  <2>3. U \in SUBSET U /\ G[U] \in SUBSET U
    BY <1>0
  <2>4. U \subseteq G[U]
    BY <1>0, <2>3
  <2> QED
    BY <2>2, <2>3, <2>4
<1> QED
  BY <1>4, <1>5

\* There are n numbers from 1 to n.
LEMMA NumbersUpTo ==
    ASSUME NEW n \in Nat
    PROVE  IsFiniteSet(1..n) /\ Cardinality(1..n) = n
BY FS_Interval

\* A set of numbers from 1 on without gaps is as large as its last element.
LEMMA InitialSegment ==
    ASSUME NEW m \in Nat, NEW S \in SUBSET (1..m),
           \A i \in S : \A j \in 1..m : j < i => j \in S
    PROVE  Cardinality(S) \in 0..m /\ S = 1..Cardinality(S)
<1>1. CASE S = {}
  BY <1>1, FS_EmptySet
<1>2. CASE S # {}
  <2>1. PICK x \in S : \A y \in S : y <= x
    BY <1>2, LargestUpTo
  <2>2. S = 1..x /\ x \in 0..m
    <3>1. x \in 1..m
      OBVIOUS
    <3>2. S \subseteq 1..x
      BY <2>1
    <3>3. ASSUME NEW j \in 1..x PROVE j \in S
      BY <3>1
    <3>4. S = 1..x
      BY <3>2, <3>3
    <3> QED
      BY <3>1, <3>4
  <2>3. Cardinality(1..x) = x
    <3>1. x \in Nat
      BY <2>2
    <3> QED
      BY <3>1, FS_Interval
  <2> QED
    BY <2>2, <2>3
<1> QED
  BY <1>1, <1>2

\* The same, from 0 on.
LEMMA SegmentFromZero ==
    ASSUME NEW m \in Nat, NEW S \in SUBSET (0..m),
           \A i \in S : \A j \in 0..m : j < i => j \in S
    PROVE  Cardinality(S) \in 0..(m+1) /\ S = 0..(Cardinality(S) - 1)
<1>1. CASE S = {}
  BY <1>1, FS_EmptySet
<1>2. CASE S # {}
  <2> DEFINE T == {i + 1 : i \in S}
  <2>1. T \in SUBSET (1..(m+1)) /\ T # {}
    <3>1. \A i \in S : i + 1 \in 1..(m+1)
      OBVIOUS
    <3>2. PICK i \in S : TRUE
      BY <1>2
    <3>3. i + 1 \in T
      OBVIOUS
    <3> QED
      BY <3>1, <3>3
  <2>2. PICK x \in T : \A y \in T : y <= x
    <3> HIDE DEF T
    <3>1. m + 1 \in Nat
      OBVIOUS
    <3> QED
      BY <2>1, <3>1, LargestUpTo
  <2>3. x - 1 \in S /\ \A y \in S : y <= x - 1
    <3>1. PICK i \in S : x = i + 1
      BY <2>2
    <3>2. ASSUME NEW y \in S PROVE y <= i
      <4>1. y + 1 \in T
        OBVIOUS
      <4> HIDE DEF T
      <4>2. y + 1 <= x
        BY <4>1, <2>2
      <4> QED
        BY <4>2, <3>1
    <3> QED
      BY <3>1, <3>2
  <2>4. S = 0..(x - 1) /\ x - 1 \in 0..m
    <3>1. x - 1 \in 0..m
      BY <2>3
    <3> DEFINE z == x - 1
    <3> HIDE DEF z
    <3>2. z \in S /\ z \in 0..m /\ \A y \in S : y <= z
      BY <2>3, <3>1 DEF z
    <3>3. S \subseteq 0..z
      BY <3>2
    <3>4. ASSUME NEW j \in 0..z PROVE j \in S
      BY <3>2
    <3>5. S = 0..z
      BY <3>3, <3>4
    <3> QED
      BY <3>1, <3>5 DEF z
  <2>5. Cardinality(0..(x - 1)) = x
    <3>1. x - 1 \in Int /\ 0 \in Int /\ 0 <= x - 1
      BY <2>4
    <3> QED
      BY <3>1, FS_Interval
  <2> QED
    BY <2>4, <2>5
<1> QED
  BY <1>1, <1>2

(***************************************************************************)
(* Steps that are taken from base for the numbers of a set s, the greatest *)
(* last, as in the folds of the community modules.                         *)
(***************************************************************************)
IsFold(f, base, m, G) ==
    /\ f[{}] = base
    /\ \A s \in SUBSET (1..m) : \A x \in s :
          (\A y \in s : y <= x) => f[s] = G[x][f[s \ {x}]]

LEMMA FoldExists ==
    ASSUME NEW A, NEW base \in A, NEW m \in Nat, NEW G \in [1..m -> [A -> A]]
    PROVE  \E f \in [SUBSET (1..m) -> A] : IsFold(f, base, m, G)
<1> DEFINE IsUpTo(n, f) ==
               /\ f[{}] = base
               /\ \A s \in SUBSET (1..n) : \A x \in s :
                     (\A y \in s : y <= x) => f[s] = G[x][f[s \ {x}]]
           S == {n \in 0..m : \E f \in [SUBSET (1..n) -> A] : IsUpTo(n, f)}
<1>1. 0 \in S
  <2> DEFINE f == [s \in SUBSET (1..0) |-> base]
  <2>1. f \in [SUBSET (1..0) -> A] /\ IsUpTo(0, f)
    OBVIOUS
  <2>2. 0 \in 0..m
    OBVIOUS
  <2> HIDE DEF f, IsUpTo
  <2> QED
    BY <2>1, <2>2
<1>2. ASSUME NEW n \in 0..m, n < m, n \in S
      PROVE  n + 1 \in S
  <2>1. PICK f \in [SUBSET (1..n) -> A] : IsUpTo(n, f)
    BY <1>2
  <2> DEFINE g == [s \in SUBSET (1..(n+1)) |->
                      IF n + 1 \in s THEN G[n+1][f[s \ {n+1}]] ELSE f[s]]
  <2>2. ASSUME NEW s \in SUBSET (1..(n+1))
        PROVE  s \ {n+1} \in SUBSET (1..n) /\ (n + 1 \notin s => s \in SUBSET (1..n))
    OBVIOUS
  <2>3. g \in [SUBSET (1..(n+1)) -> A]
    BY <2>2, <1>2
  <2>4. ASSUME NEW s \in SUBSET (1..(n+1)), NEW x \in s, \A y \in s : y <= x
        PROVE  g[s] = G[x][g[s \ {x}]]
    <3>1. CASE x = n + 1
      <4>1. g[s \ {n+1}] = f[s \ {n+1}] /\ g[s] = G[n+1][f[s \ {n+1}]]
        BY <2>2, <3>1
      <4> QED
        BY <4>1, <3>1
    <3>2. CASE x # n + 1
      <4>1. n + 1 \notin s /\ x \in 1..n
        BY <3>2, <2>4
      <4>2. s \in SUBSET (1..n) /\ s \ {x} \in SUBSET (1..n)
        BY <4>1, <2>2
      <4>3. g[s] = f[s] /\ g[s \ {x}] = f[s \ {x}]
        BY <4>1, <4>2
      <4> QED
        BY <4>2, <4>3, <2>1, <2>4
    <3> QED
      BY <3>1, <3>2
  <2>5. g[{}] = base
    BY <2>1
  <2> HIDE DEF g
  <2>6. IsUpTo(n + 1, g)
    BY <2>4, <2>5
  <2> HIDE DEF IsUpTo
  <2> QED
    BY <2>3, <2>6, <1>2
<1>3. m \in S
  <2>1. \A n \in 0..m : n < m /\ n \in S => n + 1 \in S
    BY <1>2
  <2> HIDE DEF S
  <2>2. 0..m \subseteq S
    BY <1>1, <2>1, InductionUpTo
  <2> QED
    BY <2>2
<1> QED
  BY <1>3 DEF IsFold

(***************************************************************************)
(* A power of two is the number of subsets of a set: it is positive, and   *)
(* the next one is twice as large.                                         *)
(***************************************************************************)
LEMMA PowerOfTwo ==
    ASSUME NEW n \in Nat
    PROVE  2^n \in Nat \ {0} /\ 2^(n+1) = 2 * 2^n
<1> DEFINE A == SUBSET (1..n)
           B == {s \cup {n+1} : s \in A}
           f == [s \in A |-> s \cup {n+1}]
<1>1. IsFiniteSet(1..n) /\ Cardinality(1..n) = n
      /\ IsFiniteSet(1..(n+1)) /\ Cardinality(1..(n+1)) = n + 1
  BY FS_Interval
<1>2. IsFiniteSet(A) /\ Cardinality(A) = 2^n
  BY <1>1, FS_SUBSET
<1>3. Cardinality(SUBSET (1..(n+1))) = 2^(n+1)
  BY <1>1, FS_SUBSET
<1>4. f \in Bijection(A, B)
  <2>1. f \in [A -> B]
    OBVIOUS
  <2>2. \A a, b \in A : f[a] = f[b] => a = b
    OBVIOUS
  <2>3. \A t \in B : \E s \in A : f[s] = t
    OBVIOUS
  <2> HIDE DEF f, A, B
  <2> QED
    BY <2>1, <2>2, <2>3, Fun_IsBij
<1>5. IsFiniteSet(B) /\ Cardinality(B) = Cardinality(A)
  <2>1. ExistsBijection(A, B)
    BY <1>4, Zenon DEF ExistsBijection
  <2> QED
    BY <1>2, <2>1, FS_Bijection
<1>6. A \cap B = {} /\ A \cup B = SUBSET (1..(n+1))
  <2>1. A \cap B = {}
    OBVIOUS
  <2>2. ASSUME NEW s \in SUBSET (1..(n+1))
        PROVE  s \in A \cup B
    <3>1. CASE n + 1 \in s
      <4>1. s \ {n+1} \in A /\ s = (s \ {n+1}) \cup {n+1}
        BY <3>1
      <4> QED
        BY <4>1
    <3>2. CASE n + 1 \notin s
      BY <3>2
    <3> QED
      BY <3>1, <3>2
  <2>3. ASSUME NEW s \in A \cup B
        PROVE  s \in SUBSET (1..(n+1))
    <3>1. \A t \in A : t \subseteq 1..(n+1) /\ t \cup {n+1} \subseteq 1..(n+1)
      OBVIOUS
    <3> QED
      BY <3>1
  <2> QED
    BY <2>1, <2>2, <2>3
<1>7. {} \in A
  OBVIOUS
<1> HIDE DEF A, B, f
<1>8. Cardinality(A \cup B) = Cardinality(A) + Cardinality(B) - Cardinality({})
  BY <1>2, <1>5, <1>6, FS_Union
<1>9. Cardinality(A) \in Nat /\ Cardinality(A) # 0 /\ Cardinality({}) = 0
  BY <1>2, <1>7, FS_CardinalityType, FS_EmptySet
<1>10. Cardinality(A \cup B) = Cardinality(A) + Cardinality(A)
  BY <1>5, <1>8, <1>9
<1>11. 2^n = Cardinality(A) /\ 2^(n+1) = Cardinality(A) + Cardinality(A)
  BY <1>2, <1>3, <1>6, <1>10
<1> QED
  BY <1>9, <1>11

\* The first powers.
LEMMA PowersFromZero == 2^0 = 1 /\ 2^1 = 2
<1>1. 2^0 = 1
  OBVIOUS
<1>2. 2^(0+1) = 2 * 2^0
  BY PowerOfTwo
<1> QED
  BY <1>1, <1>2

\* Exponents are added when powers are multiplied.
LEMMA PowerOfSum ==
    ASSUME NEW m \in Nat, NEW n \in Nat
    PROVE  2^(m + n) = 2^m * 2^n
<1> DEFINE S == {k \in Nat : 2^(m + k) = 2^m * 2^k}
<1>1. 0 \in S
  BY PowersFromZero, PowerOfTwo
<1>2. ASSUME NEW k \in Nat, k \in S
      PROVE  k + 1 \in S
  <2>1. 2^((m + k) + 1) = 2 * 2^(m + k) /\ 2^(k+1) = 2 * 2^k
    BY PowerOfTwo
  <2>2. 2^m \in Nat /\ 2^k \in Nat /\ 2^(m + k) = 2^m * 2^k
    BY PowerOfTwo, <1>2
  <2>3. m + (k + 1) = (m + k) + 1
    OBVIOUS
  <2>4. ASSUME NEW a \in Nat, NEW b \in Nat
        PROVE  2 * (a * b) = a * (2 * b)
    OBVIOUS
  <2> QED
    BY <2>1, <2>2, <2>3, <2>4
<1> HIDE DEF S
<1>3. n \in S
  BY <1>1, <1>2, InductionOnSet
<1> QED
  BY <1>3 DEF S

\* Powers of two grow with their exponents.
LEMMA PowerGrows ==
    ASSUME NEW m \in Nat, NEW n \in Nat
    PROVE  (m <= n => 2^m <= 2^n) /\ (m < n => 2^m < 2^n)
<1>1. CASE m <= n
  <2>1. n - m \in Nat /\ m + (n - m) = n
    BY <1>1
  <2>2. 2^n = 2^m * 2^(n - m)
    BY <2>1, PowerOfSum
  <2>3. 2^m \in Nat \ {0} /\ 2^(n - m) \in Nat \ {0}
    BY <2>1, PowerOfTwo
  <2>4. ASSUME NEW a \in Nat \ {0}, NEW b \in Nat \ {0}
        PROVE  a <= a * b /\ (b > 1 => a < a * b)
    OBVIOUS
  <2>5. CASE m < n
    <3>1. 2^((n - m - 1) + 1) = 2 * 2^(n - m - 1) /\ 2^(n - m - 1) \in Nat \ {0}
      BY <2>5, PowerOfTwo
    <3>2. 2^(n - m) > 1
      BY <3>1, <2>5
    <3> QED
      BY <3>2, <2>2, <2>3, <2>4
  <2> QED
    BY <2>2, <2>3, <2>4, <2>5, <1>1
<1> QED
  BY <1>1

\* No number is as large as the power of two it is the exponent of.
LEMMA PowerExceeds ==
    ASSUME NEW n \in Nat
    PROVE  n < 2^n
<1> DEFINE S == {k \in Nat : k < 2^k}
<1>1. 0 \in S
  BY PowersFromZero
<1>2. ASSUME NEW k \in Nat, k \in S
      PROVE  k + 1 \in S
  BY <1>2, PowerOfTwo
<1> HIDE DEF S
<1>3. n \in S
  BY <1>1, <1>2, InductionOnSet
<1> QED
  BY <1>3 DEF S
=============================================================================
