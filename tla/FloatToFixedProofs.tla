-------------------------- MODULE FloatToFixedProofs --------------------------
(***************************************************************************)
(* Proofs about the conversion pass, FloatToFixed: its variables have      *)
(* their types; the sorted queue holds every value that depends on one     *)
(* with metadata once and before its users, with roots that are roots of   *)
(* themselves alone; a value fails to convert only for one of the reasons  *)
(* the code gives, whatever the order its operands are read in; and the    *)
(* code that is left computes what the program did.                        *)
(*                                                                         *)
(* A visit of sortQueue deletes some places of the queue and adds places   *)
(* at its end; where every other value goes is stated by Places and        *)
(* Moving.  What was traced to a root is followed along Leads, the paths   *)
(* through users of values that are no phi nodes.                          *)
(*                                                                         *)
(* In the code that is left each value has a version that counts, its      *)
(* Survivor: the new one if it was converted and nothing that it belongs   *)
(* to failed, else the old one.                                            *)
(***************************************************************************)
EXTENDS FloatToFixed, Induction, SequenceTheorems

(***************************************************************************)
(* Queues without repetitions, and the places that their values move to    *)
(* when some of them are taken out.                                        *)
(***************************************************************************)
Queues == {q \in Seq(Value) : IsInjective(q)}

\* P[i] is the number of the first i values of q that are not in S, and kept
\* are those values, in order.
Places(q, S, P, kept) ==
    /\ P \in [0..Len(q) -> Nat] /\ P[0] = 0
    /\ \A i \in 1..Len(q) : P[i] = P[i - 1] + (IF q[i] \in S THEN 0 ELSE 1)
    /\ kept \in Seq(Value) /\ Len(kept) = P[Len(q)]
    /\ \A i \in 1..Len(q) : q[i] \notin S => kept[P[i]] = q[i]
    /\ \A k \in 1..Len(kept) : \E i \in 1..Len(q) : q[i] \notin S /\ P[i] = k /\ kept[k] = q[i]

\* f[i] are those of the first i values of q that are not in S.
TakenOut(q, S, n, f) ==
    /\ f \in [0..n -> Seq(Value)] /\ f[0] = <<>>
    /\ \A i \in 1..n : f[i] = IF q[i] \in S THEN f[i - 1] ELSE Append(f[i - 1], q[i])

\* Values can be taken out one after the other.
LEMMA TakingStep ==
    ASSUME NEW q, NEW S, NEW n \in Nat, \A i \in 1..n : q[i] \in Value
    PROVE  \E f : TakenOut(q, S, n, f)
<1>e. PICK e : e = <<>>
  OBVIOUS
<1> DEFINE A == Seq(Value)
           G == [i \in 1..n |-> [s \in A |-> IF q[i] \in S THEN s ELSE Append(s, q[i])]]
<1>0. e \in A /\ \A i \in 1..n : \A s \in A : Append(s, q[i]) \in A
  BY <1>e
<1> HIDE DEF A
<1>1. G \in [1..n -> [A -> A]]
  BY <1>0
<1>2. PICK f \in [0..n -> A] : f[0] = e /\ \A i \in 1..n : f[i] = G[i][f[i-1]]
  <2> HIDE DEF G
  <2>1. \E f \in [0..n -> A] : f[0] = e /\ \A i \in 1..n : f[i] = G[i][f[i-1]]
    BY <1>0, <1>1, IterationExists
  <2> QED
    BY <2>1
<1>3. \A i \in 1..n : f[i] = IF q[i] \in S THEN f[i - 1] ELSE Append(f[i - 1], q[i])
  <2> SUFFICES ASSUME NEW i \in 1..n
               PROVE  f[i] = IF q[i] \in S THEN f[i - 1] ELSE Append(f[i - 1], q[i])
    OBVIOUS
  <2>1. i - 1 \in 0..n /\ f[i] = G[i][f[i - 1]]
    <3> HIDE DEF G
    <3> QED
      BY <1>2
  <2>2. f[i - 1] \in A
    BY <2>1
  <2> QED
    BY <2>1, <2>2
<1> QED
  BY <1>e, <1>2, <1>3 DEF TakenOut, A

\* Taking values out one after the other leaves a queue.
LEMMA TakingOut ==
    ASSUME NEW q \in Seq(Value), NEW S, NEW n \in Nat, n = Len(q)
    PROVE  \E f : TakenOut(q, S, n, f) /\ Without(q, S) = f[n]
<1> DEFINE Eq(f) == f = [i \in 0..Len(q) |-> IF i = 0 THEN <<>>
                                             ELSE IF q[i] \in S THEN f[i - 1]
                                                  ELSE Append(f[i - 1], q[i])]
           it == CHOOSE f : Eq(f)
<1>1. PICK f : TakenOut(q, S, n, f)
  <2>1. \A i \in 1..n : q[i] \in Value
    OBVIOUS
  <2> QED
    BY <2>1, TakingStep
<1>2. f \in [0..n -> Seq(Value)] /\ f[0] = <<>>
  BY <1>1 DEF TakenOut
<1>3. \A i \in 1..n : f[i] = IF q[i] \in S THEN f[i - 1] ELSE Append(f[i - 1], q[i])
  BY <1>1 DEF TakenOut
<1>4. Eq(f)
  <2>1. \A i \in 0..n : f[i] = IF i = 0 THEN <<>> ELSE IF q[i] \in S THEN f[i - 1]
                                                  ELSE Append(f[i - 1], q[i])
    <3>1. \A i \in 0..n : i = 0 \/ i \in 1..n
      OBVIOUS
    <3> QED
      BY <1>2, <1>3, <3>1
  <2> QED
    BY <1>2, <2>1
<1>5. Eq(it)
  <2> HIDE DEF Eq
  <2> QED
    BY <1>4, Zenon
<1>6. Without(q, S) = it[Len(q)]
  BY Zenon DEF Without
<1> HIDE DEF it
<1>7. \A i \in 0..n : it[i] = IF i = 0 THEN <<>> ELSE IF q[i] \in S THEN it[i - 1]
                                                  ELSE Append(it[i - 1], q[i])
  BY <1>5
<1> DEFINE T == {i \in 0..n : it[i] = f[i]}
<1>8. 0 \in T
  <2>1. 0 \in 0..n
    OBVIOUS
  <2>2. it[0] = <<>>
    BY <1>7, <2>1
  <2> QED
    BY <1>2, <2>1, <2>2
<1>9. ASSUME NEW i \in 0..n, i < n, i \in T PROVE i + 1 \in T
  <2>1. i + 1 \in 1..n /\ i + 1 \in 0..n /\ i + 1 # 0 /\ (i + 1) - 1 = i
    BY <1>9
  <2>2. it[i + 1] = IF q[i + 1] \in S THEN it[i] ELSE Append(it[i], q[i + 1])
    BY <1>7, <2>1
  <2>3. f[i + 1] = IF q[i + 1] \in S THEN f[i] ELSE Append(f[i], q[i + 1])
    BY <1>3, <2>1
  <2> QED
    BY <1>9, <2>1, <2>2, <2>3
<1>10. it[n] = f[n]
  <2>1. \A i \in 0..n : i < n /\ i \in T => i + 1 \in T
    BY <1>9
  <2> HIDE DEF T
  <2>2. 0..n \subseteq T
    BY <1>8, <2>1, InductionUpTo
  <2>3. n \in T
    BY <2>2
  <2> QED
    BY <2>3 DEF T
<1> QED
  BY <1>1, <1>6, <1>10

\* What is left is in the places counted by P.
LEMMA WithoutPlaces ==
    ASSUME NEW q \in Seq(Value), NEW S
    PROVE  \E P : Places(q, S, P, Without(q, S))
<1> PICK n \in Nat : n = Len(q)
  OBVIOUS
<1>0. PICK f : TakenOut(q, S, n, f) /\ Without(q, S) = f[n]
  BY TakingOut
<1>1. /\ f \in [0..n -> Seq(Value)] /\ f[0] = <<>>
      /\ \A i \in 1..n : f[i] = IF q[i] \in S THEN f[i - 1] ELSE Append(f[i - 1], q[i])
  BY <1>0 DEF TakenOut
<1> DEFINE P == [i \in 0..n |-> Len(f[i])]
           In(i) == /\ \A j \in 1..i : q[j] \notin S => P[j] \in 1..P[i] /\ f[i][P[j]] = q[j]
                    /\ \A k \in 1..P[i] : \E j \in 1..i : q[j] \notin S /\ P[j] = k /\ f[i][k] = q[j]
           T == {i \in 0..n : In(i)}
<1>2. P \in [0..n -> Nat] /\ P[0] = 0 /\ \A i \in 0..n : P[i] = Len(f[i])
  BY <1>1
<1>3. ASSUME NEW i \in 1..n
      PROVE  /\ i - 1 \in 0..n /\ i \in 0..n /\ q[i] \in Value
             /\ f[i] \in Seq(Value) /\ f[i - 1] \in Seq(Value)
             /\ q[i] \in S => f[i] = f[i - 1] /\ P[i] = P[i - 1]
             /\ q[i] \notin S => /\ f[i] = Append(f[i - 1], q[i]) /\ P[i] = P[i - 1] + 1
  <2>1. i - 1 \in 0..n /\ i \in 0..n /\ q[i] \in Value
    OBVIOUS
  <2>2. f[i] \in Seq(Value) /\ f[i - 1] \in Seq(Value) /\ P[i] = Len(f[i]) /\ P[i - 1] = Len(f[i - 1])
    BY <1>1, <1>2, <2>1
  <2>3. f[i] = IF q[i] \in S THEN f[i - 1] ELSE Append(f[i - 1], q[i])
    BY <1>1
  <2> HIDE DEF P
  <2>4. q[i] \notin S => Len(Append(f[i - 1], q[i])) = Len(f[i - 1]) + 1
    BY <2>1, <2>2
  <2> QED
    BY <2>1, <2>2, <2>3, <2>4
<1> HIDE DEF P
<1>4. 0 \in T
  BY <1>2
<1>5. ASSUME NEW i \in 0..n, i < n, i \in T PROVE i + 1 \in T
  <2>a. i + 1 \in 1..n /\ (i + 1) - 1 = i /\ i + 1 \in 0..n
    BY <1>5
  <2>b. In(i)
    <3> HIDE DEF In
    <3> QED
      BY <1>5
  <2>0. i + 1 \in 1..n /\ (i + 1) - 1 = i /\ i + 1 \in 0..n /\ In(i)
    <3> HIDE DEF In
    <3> QED
      BY <2>a, <2>b
  <2>1. /\ f[i] \in Seq(Value) /\ P[i] = Len(f[i]) /\ P[i] \in Nat /\ q[i + 1] \in Value
        /\ P[i + 1] = Len(f[i + 1]) /\ P[i + 1] \in Nat
    BY <1>2, <1>3, <2>0
  <2>2. CASE q[i + 1] \in S
    <3>1. f[i + 1] = f[i] /\ P[i + 1] = P[i]
      BY <1>3, <2>0, <2>2
    <3>2. \A j \in 1..(i + 1) : q[j] \notin S => j \in 1..i
      BY <2>2, <2>0
    <3>3. \A j \in 1..i : j \in 1..(i + 1)
      OBVIOUS
    <3>4. In(i + 1)
      BY <2>0, <3>1, <3>2, <3>3
    <3> QED
      BY <2>0, <3>4
  <2>3. CASE q[i + 1] \notin S
    <3>1. f[i + 1] = Append(f[i], q[i + 1]) /\ P[i + 1] = P[i] + 1
      BY <1>3, <2>0, <2>3
    <3>2. f[i + 1][P[i + 1]] = q[i + 1] /\ \A k \in 1..P[i] : f[i + 1][k] = f[i][k]
      BY <2>1, <3>1
    <3>3. ASSUME NEW j \in 1..(i + 1), q[j] \notin S
          PROVE  P[j] \in 1..P[i + 1] /\ f[i + 1][P[j]] = q[j]
      <4>1. CASE j = i + 1
        BY <2>1, <3>1, <3>2, <4>1
      <4>2. CASE j # i + 1
        <5>1. j \in 1..i
          BY <4>2
        <5>2. P[j] \in 1..P[i] /\ f[i][P[j]] = q[j]
          BY <2>0, <3>3, <5>1
        <5> QED
          BY <2>1, <3>1, <3>2, <5>2
      <4> QED
        BY <4>1, <4>2
    <3>4. ASSUME NEW k \in 1..P[i + 1]
          PROVE  \E j \in 1..(i + 1) : q[j] \notin S /\ P[j] = k /\ f[i + 1][k] = q[j]
      <4>1. CASE k = P[i + 1]
        BY <2>3, <3>2, <4>1
      <4>2. CASE k # P[i + 1]
        <5>1. k \in 1..P[i]
          BY <2>1, <3>1, <4>2
        <5>2. PICK j \in 1..i : q[j] \notin S /\ P[j] = k /\ f[i][k] = q[j]
          BY <2>0, <5>1
        <5>3. j \in 1..(i + 1)
          OBVIOUS
        <5> QED
          BY <3>2, <5>1, <5>2, <5>3
      <4> QED
        BY <4>1, <4>2
    <3>5. In(i + 1)
      BY <3>3, <3>4
    <3> QED
      BY <2>0, <3>5
  <2> QED
    BY <2>2, <2>3
<1>6. In(n)
  <2>1. \A i \in 0..n : i < n /\ i \in T => i + 1 \in T
    BY <1>5
  <2> HIDE DEF T
  <2>2. 0..n \subseteq T
    BY <1>4, <2>1, InductionUpTo
  <2>3. n \in T
    BY <2>2
  <2> QED
    BY <2>3 DEF T
<1>7. \A i \in 1..n : P[i] = P[i - 1] + (IF q[i] \in S THEN 0 ELSE 1)
  BY <1>2, <1>3
<1>8. f[n] \in Seq(Value) /\ Len(f[n]) = P[n]
  BY <1>1, <1>2
<1>9. Places(q, S, P, Without(q, S))
  BY <1>0, <1>2, <1>6, <1>7, <1>8 DEF Places
<1> QED
  BY <1>9

\* The places keep the order.
LEMMA PlacesOrdered ==
    ASSUME NEW q \in Seq(Value), NEW S, NEW P, NEW kept, Places(q, S, P, kept)
    PROVE  \A i \in 0..Len(q) : \A j \in 0..Len(q) : i <= j =>
               P[i] <= P[j] /\ (i < j /\ q[j] \notin S => P[i] < P[j])
<1> PICK n \in Nat : n = Len(q)
  OBVIOUS
<1>1. /\ P \in [0..n -> Nat]
      /\ \A i \in 1..n : P[i] = P[i - 1] + (IF q[i] \in S THEN 0 ELSE 1)
  BY DEF Places
<1> DEFINE In(j) == \A i \in 0..n : i <= j =>
                        P[i] <= P[j] /\ (i < j /\ q[j] \notin S => P[i] < P[j])
           T == {j \in 0..n : In(j)}
<1>2. 0 \in T
  BY <1>1
<1>3. ASSUME NEW j \in 0..n, j < n, j \in T PROVE j + 1 \in T
  <2>1. j + 1 \in 1..n /\ j + 1 \in 0..n /\ (j + 1) - 1 = j
    BY <1>3
  <2>2. P[j + 1] = P[j] + (IF q[j + 1] \in S THEN 0 ELSE 1) /\ P[j + 1] \in Nat /\ P[j] \in Nat
    BY <1>1, <2>1
  <2>3. ASSUME NEW i \in 0..n, i <= j + 1
        PROVE  P[i] <= P[j + 1] /\ (i < j + 1 /\ q[j + 1] \notin S => P[i] < P[j + 1])
    <3>1. P[i] \in Nat
      BY <1>1
    <3>2. CASE i = j + 1
      BY <3>1, <3>2
    <3>3. CASE i <= j
      <4>1. P[i] <= P[j]
        BY <1>3, <3>3
      <4> QED
        BY <2>2, <3>1, <4>1
    <3> QED
      BY <2>3, <3>2, <3>3
  <2> QED
    BY <2>1, <2>3
<1>4. 0..n \subseteq T
  <2>1. \A i \in 0..n : i < n /\ i \in T => i + 1 \in T
    BY <1>3
  <2> HIDE DEF T
  <2> QED
    BY <1>2, <2>1, InductionUpTo
<1> QED
  BY <1>4

\* P counts what is taken out, too.
LEMMA PlacesCount ==
    ASSUME NEW q \in Seq(Value), NEW S, NEW P, NEW kept, Places(q, S, P, kept),
           NEW m \in 0..Len(q)
    PROVE  Cardinality({i \in 1..m : q[i] \in S}) = m - P[m]
<1> PICK n \in Nat : n = Len(q)
  OBVIOUS
<1>1. /\ P \in [0..n -> Nat] /\ P[0] = 0
      /\ \A i \in 1..n : P[i] = P[i - 1] + (IF q[i] \in S THEN 0 ELSE 1)
  BY DEF Places
<1> DEFINE D(j) == {i \in 1..j : q[i] \in S}
           T == {j \in 0..n : IsFiniteSet(D(j)) /\ Cardinality(D(j)) = j - P[j]}
<1>2. 0 \in T
  <2>1. D(0) = {}
    OBVIOUS
  <2> HIDE DEF D
  <2>2. IsFiniteSet(D(0)) /\ Cardinality(D(0)) = 0
    BY <2>1, FS_EmptySet
  <2>3. P[0] = 0 /\ 0 \in 0..n
    BY <1>1
  <2> QED
    BY <2>2, <2>3
<1>3. ASSUME NEW j \in 0..n, j < n, j \in T PROVE j + 1 \in T
  <2>1. j + 1 \in 1..n /\ j + 1 \in 0..n /\ (j + 1) - 1 = j
    BY <1>3
  <2>2. P[j + 1] = P[j] + (IF q[j + 1] \in S THEN 0 ELSE 1) /\ P[j + 1] \in Nat /\ P[j] \in Nat
    BY <1>1, <2>1
  <2>3. D(j + 1) = IF q[j + 1] \in S THEN D(j) \cup {j + 1} ELSE D(j)
    OBVIOUS
  <2>4. j + 1 \notin D(j)
    OBVIOUS
  <2> HIDE DEF D
  <2>5. IsFiniteSet(D(j)) /\ Cardinality(D(j)) = j - P[j]
    BY <1>3
  <2>6. IsFiniteSet(D(j) \cup {j + 1}) /\ Cardinality(D(j) \cup {j + 1}) = Cardinality(D(j)) + 1
    BY <2>4, <2>5, FS_AddElement
  <2> QED
    BY <2>1, <2>2, <2>3, <2>5, <2>6
<1>4. m \in T
  <2>1. \A i \in 0..n : i < n /\ i \in T => i + 1 \in T
    BY <1>3
  <2> HIDE DEF T
  <2>2. 0..n \subseteq T
    BY <1>2, <2>1, InductionUpTo
  <2> QED
    BY <2>2
<1> QED
  BY <1>4

\* The indices and values of a queue.
LEMMA QueueFacts ==
    ASSUME NEW q \in Queues
    PROVE  /\ q \in Seq(Value) /\ Len(q) \in Nat /\ ToSet(q) \subseteq Value
           /\ ToSet(q) = {q[i] : i \in 1..Len(q)}
           /\ \A i, j \in 1..Len(q) : q[i] = q[j] => i = j
<1>1. q \in Seq(Value) /\ IsInjective(q) /\ DOMAIN q = 1..Len(q) /\ Len(q) \in Nat
      /\ \A i \in 1..Len(q) : q[i] \in Value
  BY DEF Queues
<1> QED
  BY <1>1 DEF ToSet, IsInjective

\* Each value of a queue that is not in S has its place in what is left, and
\* nothing else has one.
LEMMA WithoutQueue ==
    ASSUME NEW q \in Queues, NEW S, NEW P, NEW w, Places(q, S, P, w)
    PROVE  /\ w \in Queues /\ ToSet(w) = ToSet(q) \ S /\ Len(w) = P[Len(q)]
           /\ \A i \in 1..Len(q) : q[i] \notin S => P[i] \in 1..Len(w) /\ w[P[i]] = q[i]
<1> PICK n \in Nat : n = Len(q)
  BY QueueFacts
<1>1. /\ q \in Seq(Value) /\ ToSet(q) = {q[i] : i \in 1..n}
      /\ \A i, j \in 1..n : q[i] = q[j] => i = j
  BY QueueFacts
<1>2. /\ P \in [0..n -> Nat] /\ w \in Seq(Value) /\ Len(w) = P[n] /\ P[0] = 0
      /\ \A i \in 1..n : q[i] \notin S => w[P[i]] = q[i]
      /\ \A k \in 1..Len(w) : \E i \in 1..n : q[i] \notin S /\ P[i] = k /\ w[k] = q[i]
  BY DEF Places
<1>3. \A i \in 0..n : \A j \in 0..n : i <= j =>
               P[i] <= P[j] /\ (i < j /\ q[j] \notin S => P[i] < P[j])
  BY <1>1, PlacesOrdered
<1>4. ASSUME NEW i \in 1..n, q[i] \notin S
      PROVE  P[i] \in 1..Len(w)
  <2>1. i \in 0..n /\ n \in 0..n /\ 0 \in 0..n /\ i <= n /\ 0 < i
    OBVIOUS
  <2>2. P[i] <= P[n] /\ P[0] < P[i] /\ P[i] \in Nat /\ P[n] \in Nat
    BY <1>2, <1>3, <1>4, <2>1
  <2> QED
    BY <1>2, <2>2
<1>5. ASSUME NEW k \in 1..Len(w), NEW l \in 1..Len(w), w[k] = w[l]
      PROVE  k = l
  <2>1. PICK i \in 1..n : q[i] \notin S /\ P[i] = k /\ w[k] = q[i]
    BY <1>2
  <2>2. PICK j \in 1..n : q[j] \notin S /\ P[j] = l /\ w[l] = q[j]
    BY <1>2
  <2> QED
    BY <1>1, <1>5, <2>1, <2>2
<1>6. w \in Queues
  BY <1>2, <1>5 DEF Queues, IsInjective
<1>7. ToSet(w) = {w[k] : k \in 1..Len(w)}
  BY <1>6, QueueFacts
<1>8. ASSUME NEW x PROVE x \in ToSet(w) <=> x \in ToSet(q) \ S
  <2>1. ASSUME x \in ToSet(w) PROVE x \in ToSet(q) \ S
    <3>1. PICK k \in 1..Len(w) : x = w[k]
      BY <1>7, <2>1
    <3> QED
      BY <1>1, <1>2, <3>1
  <2>2. ASSUME x \in ToSet(q) \ S PROVE x \in ToSet(w)
    <3>1. PICK i \in 1..n : x = q[i]
      BY <1>1, <2>2
    <3> QED
      BY <1>2, <1>4, <1>7, <2>2, <3>1
  <2> QED
    BY <2>1, <2>2
<1> QED
  BY <1>2, <1>4, <1>6, <1>8

(***************************************************************************)
(* One value of the queue visited: its users us move to the end.  What has *)
(* been passed then was passed before, or is the value visited, at an      *)
(* index i that it leaves for k; what stood behind it still does.          *)
(***************************************************************************)
Behind(r, k, x) == \E l \in k + 1..Len(r) : r[l] = x

Moves(q, us, n, r, m) ==
    /\ r = Without(q, ToSet(us)) \o us
    /\ m = n + 1 - Cardinality({i \in 1..n - 1 : q[i] \in ToSet(us)})

\* What a visit leaves of the queue: each value passed was passed before and
\* has what was behind it, and the users, behind it.
LEMMA Moving ==
    ASSUME NEW q \in Queues, NEW us \in Queues, NEW n \in 1..Len(q), q[n] \notin ToSet(us),
           NEW r, NEW m, Moves(q, us, n, r, m)
    PROVE  /\ r \in Queues /\ ToSet(r) = ToSet(q) \cup ToSet(us)
           /\ m \in 1..Len(r) + 1
           /\ \A k \in 1..m - 1 : \E i \in 1..n :
                 /\ q[i] = r[k] /\ q[i] \notin ToSet(us)
                 /\ \A j \in i + 1..Len(q) : Behind(r, k, q[j])
                 /\ \A u \in ToSet(us) : Behind(r, k, u)
<1> /\ r = Without(q, ToSet(us)) \o us
    /\ m = n + 1 - Cardinality({i \in 1..n - 1 : q[i] \in ToSet(us)})
  BY DEF Moves
<1> PICK S : S = ToSet(us)
  OBVIOUS
<1> PICK N \in Nat : N = Len(q)
  BY QueueFacts
<1> PICK w : w = Without(q, S)
  OBVIOUS
<1>1. /\ q \in Seq(Value) /\ ToSet(q) = {q[i] : i \in 1..N}
      /\ \A i, j \in 1..N : q[i] = q[j] => i = j
  BY QueueFacts
<1>2. /\ us \in Seq(Value) /\ Len(us) \in Nat /\ S = {us[i] : i \in 1..Len(us)}
      /\ \A i, j \in 1..Len(us) : us[i] = us[j] => i = j
  BY QueueFacts
<1>3. PICK P : Places(q, S, P, w)
  BY <1>1, WithoutPlaces
<1>4. /\ w \in Queues /\ ToSet(w) = ToSet(q) \ S /\ Len(w) = P[N]
      /\ \A i \in 1..N : q[i] \notin S => P[i] \in 1..Len(w) /\ w[P[i]] = q[i]
  BY <1>3, WithoutQueue
<1>5. /\ w \in Seq(Value) /\ Len(w) \in Nat /\ ToSet(w) = {w[i] : i \in 1..Len(w)}
      /\ \A i, j \in 1..Len(w) : w[i] = w[j] => i = j
  BY <1>4, QueueFacts
<1>6. /\ r \in Seq(Value) /\ Len(r) = Len(w) + Len(us)
      /\ \A k \in 1..Len(w) : r[k] = w[k]
      /\ \A k \in 1..Len(us) : r[Len(w) + k] = us[k]
      /\ \A k \in Len(w) + 1..Len(r) : r[k] = us[k - Len(w)]
  BY <1>2, <1>5
<1>7. /\ P \in [0..N -> Nat]
      /\ \A i \in 1..N : P[i] = P[i - 1] + (IF q[i] \in S THEN 0 ELSE 1)
      /\ \A k \in 1..Len(w) : \E i \in 1..N : q[i] \notin S /\ P[i] = k /\ w[k] = q[i]
  BY <1>3 DEF Places
<1>8. \A i \in 0..N : \A j \in 0..N : i <= j =>
               P[i] <= P[j] /\ (i < j /\ q[j] \notin S => P[i] < P[j])
  BY <1>1, <1>3, PlacesOrdered
<1>9. m = P[n] + 1 /\ P[n] \in 0..Len(w) /\ n \in 0..N
  <2>1. n - 1 \in 0..N /\ n \in 0..N /\ N \in 0..N /\ n <= N
    OBVIOUS
  <2>2. Cardinality({i \in 1..n - 1 : q[i] \in S}) = (n - 1) - P[n - 1]
    <3> PICK z : z = n - 1
      OBVIOUS
    <3>1. z \in 0..Len(q)
      BY <2>1
    <3>2. Cardinality({i \in 1..z : q[i] \in S}) = z - P[z]
      BY <1>1, <1>3, <3>1, PlacesCount
    <3> QED
      BY <3>2
  <2>3. P[n - 1] \in Nat /\ P[n] \in Nat /\ P[n] = P[n - 1] + 1
    BY <1>7, <2>1
  <2>4. P[n] <= P[N] /\ P[N] \in Nat
    BY <1>7, <1>8, <2>1
  <2> QED
    BY <1>4, <2>1, <2>2, <2>3, <2>4
<1>10. r \in Queues
  <2>1. ASSUME NEW k \in 1..Len(r), NEW l \in 1..Len(r), r[k] = r[l]
        PROVE  k = l
    <3>1. ASSUME NEW a \in 1..Len(w), NEW b \in 1..Len(us)
          PROVE  w[a] # us[b]
      <4>1. w[a] \in ToSet(w) /\ us[b] \in S
        BY <1>2, <1>5
      <4> QED
        BY <1>4, <4>1
    <3>2. CASE k \in 1..Len(w) /\ l \in 1..Len(w)
      BY <1>5, <1>6, <2>1, <3>2
    <3>3. CASE k \in 1..Len(w) /\ l \notin 1..Len(w)
      <4>1. l \in Len(w) + 1..Len(r) /\ l - Len(w) \in 1..Len(us)
        BY <1>2, <1>5, <1>6, <3>3
      <4> QED
        BY <1>6, <2>1, <3>1, <3>3, <4>1
    <3>4. CASE k \notin 1..Len(w) /\ l \in 1..Len(w)
      <4>1. k \in Len(w) + 1..Len(r) /\ k - Len(w) \in 1..Len(us)
        BY <1>2, <1>5, <1>6, <3>4
      <4> QED
        BY <1>6, <2>1, <3>1, <3>4, <4>1
    <3>5. CASE k \notin 1..Len(w) /\ l \notin 1..Len(w)
      <4>1. /\ k \in Len(w) + 1..Len(r) /\ k - Len(w) \in 1..Len(us)
            /\ l \in Len(w) + 1..Len(r) /\ l - Len(w) \in 1..Len(us)
        BY <1>2, <1>5, <1>6, <3>5
      <4>2. us[k - Len(w)] = us[l - Len(w)]
        BY <1>6, <2>1, <4>1
      <4>3. k - Len(w) = l - Len(w)
        BY <1>2, <4>1, <4>2
      <4> QED
        BY <1>5, <4>1, <4>3
    <3> QED
      BY <3>2, <3>3, <3>4, <3>5
  <2>2. DOMAIN r = 1..Len(r)
    BY <1>6
  <2>3. \A k, l \in DOMAIN r : r[k] = r[l] => k = l
    BY <2>1, <2>2
  <2> QED
    BY <1>6, <2>3, Zenon DEF Queues, IsInjective
<1>11. ToSet(r) = {r[k] : k \in 1..Len(r)}
  BY <1>10, QueueFacts
<1>12. ASSUME NEW u \in S
       PROVE  \E l \in Len(w) + 1..Len(r) : r[l] = u
  <2>1. PICK b \in 1..Len(us) : us[b] = u
    BY <1>2
  <2>2. Len(w) + b \in Len(w) + 1..Len(r)
    BY <1>2, <1>5, <1>6
  <2> QED
    BY <1>6, <2>1, <2>2
<1>13. ToSet(r) = ToSet(q) \cup S
  <2>1. ASSUME NEW x \in ToSet(r) PROVE x \in ToSet(q) \cup S
    <3>1. PICK k \in 1..Len(r) : r[k] = x
      BY <1>11
    <3>2. CASE k \in 1..Len(w)
      BY <1>4, <1>5, <1>6, <3>1, <3>2
    <3>3. CASE k \notin 1..Len(w)
      <4>1. k \in Len(w) + 1..Len(r) /\ k - Len(w) \in 1..Len(us)
        BY <1>2, <1>5, <1>6, <3>3
      <4> QED
        BY <1>2, <1>6, <3>1, <4>1
    <3> QED
      BY <3>2, <3>3
  <2>2. ASSUME NEW x \in S PROVE x \in ToSet(r)
    <3>1. PICK l \in Len(w) + 1..Len(r) : r[l] = x
      BY <1>12
    <3>2. l \in 1..Len(r)
      BY <1>5, <1>6
    <3> QED
      BY <1>11, <3>1, <3>2
  <2>3. ASSUME NEW x \in ToSet(q) \ S PROVE x \in ToSet(r)
    <3>1. PICK k \in 1..Len(w) : w[k] = x
      BY <1>4, <1>5
    <3>2. k \in 1..Len(r)
      BY <1>2, <1>5, <1>6
    <3> QED
      BY <1>6, <1>11, <3>1, <3>2
  <2> QED
    BY <2>1, <2>2, <2>3
<1>14. m \in 1..Len(r) + 1
  BY <1>2, <1>5, <1>6, <1>9
<1>15. ASSUME NEW k \in 1..m - 1
       PROVE  \E i \in 1..n :
                 /\ q[i] = r[k] /\ q[i] \notin S
                 /\ \A j \in i + 1..Len(q) : Behind(r, k, q[j])
                 /\ \A u \in S : Behind(r, k, u)
  <2>1. k \in 1..Len(w) /\ k <= P[n]
    BY <1>5, <1>9
  <2>2. PICK i \in 1..N : q[i] \notin S /\ P[i] = k /\ w[k] = q[i]
    BY <1>7, <2>1
  <2>3. i \in 1..n
    <3>1. SUFFICES ASSUME n < i PROVE FALSE
      OBVIOUS
    <3>2. i \in 0..N
      OBVIOUS
    <3>3. P[n] < P[i]
      BY <1>8, <1>9, <2>2, <3>1, <3>2
    <3>4. P[n] \in Nat /\ P[i] \in Nat
      BY <1>7, <1>9, <3>2
    <3> QED
      BY <2>1, <2>2, <3>3, <3>4
  <2>4. ASSUME NEW u \in S PROVE Behind(r, k, u)
    <3>1. PICK l \in Len(w) + 1..Len(r) : r[l] = u
      BY <1>12
    <3>2. l \in k + 1..Len(r)
      BY <1>5, <1>6, <2>1
    <3> QED
      BY <3>1, <3>2 DEF Behind
  <2>5. ASSUME NEW j \in i + 1..N PROVE Behind(r, k, q[j])
    <3>1. CASE q[j] \in S
      BY <2>4, <3>1
    <3>2. CASE q[j] \notin S
      <4>1. i \in 0..N /\ j \in 0..N /\ i <= j /\ i < j /\ j \in 1..N
        OBVIOUS
      <4>a. P[i] < P[j]
        BY <1>8, <3>2, <4>1
      <4>2. P[i] < P[j] /\ P[i] \in Nat /\ P[j] \in Nat
        BY <1>7, <4>1, <4>a
      <4>3. P[j] \in 1..Len(w) /\ w[P[j]] = q[j]
        BY <1>4, <3>2, <4>1
      <4>4. P[j] \in k + 1..Len(r) /\ r[P[j]] = q[j]
        BY <1>2, <1>5, <1>6, <2>1, <2>2, <4>2, <4>3
      <4> QED
        BY <4>4 DEF Behind
    <3> QED
      BY <3>1, <3>2
  <2>6. q[i] = r[k]
    BY <1>6, <2>1, <2>2
  <2> QED
    BY <2>2, <2>3, <2>4, <2>5, <2>6
<1> QED
  BY <1>10, <1>13, <1>14, <1>15

(***************************************************************************)
(* Operands that are not converted yet: the one the program has, or the    *)
(* placeholder of a phi node.                                              *)
(***************************************************************************)
Roles == {"old", "new", "noconv", "conv", "const", "error", "none"}
AnyOperand == [role : Roles, v : Value \cup {Const}, as : {"float", "fix"}]

AsInProgram(w) ==
    {Old(w)} \cup (IF w \in Value /\ IsPhi(w) THEN {Operand("noconv", w, "float")} ELSE {})

AsWritten(v) ==
    /\ <<"old", v>> \in DOMAIN graph
    /\ DOMAIN Ops(v) = DOMAIN program.ops[v]
    /\ \A k \in DOMAIN program.ops[v] : Ops(v)[k] \in AsInProgram(program.ops[v][k])

\* The fields of an operand.
LEMMA OperandFields ==
    ASSUME NEW role \in Roles, NEW v \in Value \cup {Const}, NEW as \in {"float", "fix"}
    PROVE  /\ Operand(role, v, as) \in AnyOperand /\ Operand(role, v, as).role = role
           /\ Operand(role, v, as).v = v /\ Operand(role, v, as).as = as
BY DEF AnyOperand, Operand

\* Only the sentinel has its role.
LEMMA PoolTyped ==
    /\ PoolT \subseteq AnyOperand /\ None # ConversionError
    /\ None.role = "none" /\ ConversionError.role = "error"
    /\ \A x \in PoolT : x.role = "error" => x = ConversionError
<1>1. /\ None \in AnyOperand /\ None.role = "none"
      /\ ConversionError \in AnyOperand /\ ConversionError.role = "error"
  BY OperandFields DEF None, ConversionError, Roles
<1>2. ASSUME NEW x \in [role : {"old", "new"}, v : Value, as : {"float", "fix"}]
      PROVE  x \in AnyOperand /\ x.role # "error"
  <2>1. x.role \in {"old", "new"} /\ x.v \in Value /\ x.as \in {"float", "fix"}
        /\ x = [role |-> x.role, v |-> x.v, as |-> x.as]
    OBVIOUS
  <2>2. x.role \in Roles /\ x.v \in Value \cup {Const}
    BY <2>1 DEF Roles
  <2>3. x \in AnyOperand
    <3>1. x = Operand(x.role, x.v, x.as)
      BY <2>1 DEF Operand
    <3>2. Operand(x.role, x.v, x.as) \in AnyOperand
      BY <2>1, <2>2, OperandFields
    <3> QED
      BY <3>1, <3>2
  <2> QED
    BY <2>1, <2>3
<1> QED
  BY <1>1, <1>2 DEF PoolT

\* What such an operand was converted to is a failure only if the value failed.
LEMMA OperandRead ==
    ASSUME operandPool \in [Value -> PoolT], NEW w \in Value \cup {Const},
           NEW o \in AsInProgram(w)
    PROVE  /\ o \in AnyOperand /\ o.role # "error" /\ o.v = w
           /\ Pool(o) \in AnyOperand
           /\ Pool(o).role = "error" => Pool(o) = ConversionError
           /\ Pool(o) = ConversionError => w \in Value /\ operandPool[w] = ConversionError
           /\ ~IsPhi(w) /\ w \in Value => o = Old(w) /\ Pool(o) = operandPool[w]
<1>1. CASE w = Const
  <2>1. o = Operand("const", Const, "float") /\ w \notin Value
    BY <1>1, ValueAssumption DEF AsInProgram, Old
  <2>2. o \in AnyOperand /\ o.role = "const" /\ o.v = w
    BY <1>1, <2>1, OperandFields DEF Roles
  <2>3. Pool(o) = None
    BY <2>2 DEF Pool
  <2> QED
    BY <2>1, <2>2, <2>3, PoolTyped DEF PoolT
<1>2. CASE w \in Value /\ o = Old(w)
  <2>1. o = Operand("old", w, "float")
    BY <1>2, ValueAssumption DEF Old
  <2>2. o \in AnyOperand /\ o.role = "old" /\ o.v = w
    BY <1>2, <2>1, OperandFields DEF Roles
  <2>3. Pool(o) = operandPool[w]
    BY <2>2 DEF Pool
  <2>4. operandPool[w] \in PoolT
    BY <1>2
  <2> QED
    BY <1>2, <2>2, <2>3, <2>4, PoolTyped
<1>3. CASE w \in Value /\ o # Old(w)
  <2>1. o = Operand("noconv", w, "float") /\ IsPhi(w)
    BY <1>3 DEF AsInProgram
  <2>2. o \in AnyOperand /\ o.role = "noconv" /\ o.v = w
    BY <1>3, <2>1, OperandFields DEF Roles
  <2>3. Pool(o) = IF w \in noTypeConversion THEN o ELSE Operand("conv", w, "fix")
    BY <2>2 DEF Pool
  <2>4. Operand("conv", w, "fix") \in AnyOperand /\ Operand("conv", w, "fix").role = "conv"
    BY <1>3, OperandFields DEF Roles
  <2>5. Pool(o) \in AnyOperand /\ Pool(o).role # "error"
    BY <2>2, <2>3, <2>4
  <2> QED
    BY <1>3, <2>1, <2>2, <2>5, PoolTyped
<1> QED
  BY <1>1, <1>2, <1>3

\* The operand read in each of the ways the conversions read one.
LEMMA OperandConverted ==
    ASSUME operandPool \in [Value -> PoolT], NEW w \in Value \cup {Const},
           NEW o \in AsInProgram(w)
    PROVE  /\ TranslateOrMatch(o) = ConversionError => Pool(o) = ConversionError
           /\ MatchOp(o) = ConversionError => Pool(o) = ConversionError
           /\ FallbackMatch(o) # ConversionError
           /\ \A as : [o EXCEPT !.as = as] # ConversionError
           /\ ~Matched(o) /\ ~IsPhi(w) /\ w \in Value /\ operandPool[w] # None
                 => operandPool[w] = ConversionError
<1>1. /\ o \in AnyOperand /\ o.role # "error"
      /\ Pool(o) \in AnyOperand
      /\ Pool(o).role = "error" => Pool(o) = ConversionError
      /\ ~IsPhi(w) /\ w \in Value => Pool(o) = operandPool[w]
  BY OperandRead
<1>2. ConversionError.role = "error"
  BY DEF ConversionError, Operand
<1>3. \A as : [o EXCEPT !.as = as].role = o.role /\ [Pool(o) EXCEPT !.as = as].role = Pool(o).role
  BY <1>1 DEF AnyOperand
<1>4. TranslateOrMatch(o) = ConversionError => Pool(o) = ConversionError
  BY <1>1, <1>2, <1>3 DEF TranslateOrMatch
<1>5. MatchOp(o) = ConversionError => Pool(o) = ConversionError
  BY <1>1, <1>2 DEF MatchOp
<1>6. FallbackMatch(o) # ConversionError
  BY <1>1, <1>2, <1>3 DEF FallbackMatch, Matched
<1>7. ~Matched(o) => Pool(o) \in {None, ConversionError}
  BY DEF Matched
<1> QED
  BY <1>1, <1>2, <1>3, <1>4, <1>5, <1>6, <1>7

-----------------------------------------------------------------------------
(***************************************************************************)
(* One value converted: what it was converted to is recorded, and no other *)
(* instruction of the program is touched.                                  *)
(***************************************************************************)
Recorded(v, x) ==
    /\ operandPool' = [operandPool EXCEPT ![v] = x]
    /\ \A u \in Value \ {v} : <<"old", u>> \in DOMAIN graph =>
          <<"old", u>> \in DOMAIN graph' /\ graph'[<<"old", u>>] = graph[<<"old", u>>]
    /\ <<"old", v>> \in DOMAIN graph => <<"old", v>> \in DOMAIN graph'

\* What a conversion that succeeds records.
Versions(v) == {Old(v)} \cup {New(v, as) : as \in {"float", "fix"}}

\* A conversion to a new instruction succeeds.
LEMMA BecomesRecorded ==
    ASSUME NEW v \in Value, NEW ops, NEW as \in {"float", "fix"}, Becomes(v, ops, as)
    PROVE  \E x \in Versions(v) : Recorded(v, x)
BY DEF Becomes, Versions, Recorded

\* So does one that keeps the instruction.
LEMMA StaysRecorded ==
    ASSUME NEW v \in Value, NEW ops, StaysWith(v, ops)
    PROVE  \E x \in Versions(v) : Recorded(v, x)
BY DEF StaysWith, Versions, Recorded

\* One that fails records the sentinel.
LEMMA FailsRecorded ==
    ASSUME NEW v \in Value, Fails(v)
    PROVE  Recorded(v, ConversionError)
BY DEF Fails, Recorded

\* A value that keeps its operands or gets them matched does not fail.
LEMMA FallbackRecorded ==
    ASSUME NEW v \in Value, Fallback(v)
    PROVE  \E x \in Versions(v) : Recorded(v, x)
<1>1. CASE v \in noTypeConversion
  BY <1>1, StaysRecorded DEF Fallback
<1>2. CASE v \notin noTypeConversion
  <2>1. (IF IsVoid(v) \/ IsPointer(v) THEN "float" ELSE "fix") \in {"float", "fix"}
    OBVIOUS
  <2> QED
    BY <1>2, <2>1, BecomesRecorded DEF Fallback
<1> QED
  BY <1>1, <1>2

(***************************************************************************)
(* Why a value v may fail: it is such a call, one of its operands failed,  *)
(* or it is a phi node none of whose operands was converted.               *)
(***************************************************************************)
FailedOperand(v) ==
    \E k \in DOMAIN program.ops[v] :
        program.ops[v][k] \in Value /\ operandPool[program.ops[v][k]] = ConversionError

Unmatched(v) ==
    IsPhi(v) /\ v \in noTypeConversion /\ \A k \in DOMAIN Ops(v) : ~Matched(Ops(v)[k])

MayFail(v) == v \in program.unfit \/ FailedOperand(v) \/ Unmatched(v)

Outcome(v) ==
    \/ \E x \in Versions(v) : Recorded(v, x)
    \/ Recorded(v, ConversionError) /\ MayFail(v)

\* The program's shape.
LEMMA ProgramShape ==
    ASSUME program \in Programs, NEW v \in Value
    PROVE  /\ program.ops[v] \in Seq(Value \cup {Const})
           /\ DOMAIN program.ops[v] = 1..Len(program.ops[v])
           /\ \A k \in DOMAIN program.ops[v] : program.ops[v][k] \in Value \cup {Const}
           /\ Kind(v) \in {"gep", "load", "store"} => 1 \in DOMAIN program.ops[v]
           /\ Kind(v) = "store" => 2 \in DOMAIN program.ops[v]
<1>1. program.ops[v] \in Seq(Value \cup {Const})
  BY ProgramAssumption
<1>2. /\ Kind(v) \in {"gep", "load"} => Len(program.ops[v]) = 1
      /\ Kind(v) = "store" => Len(program.ops[v]) = 2
  BY ProgramAssumption DEF Kind
<1> QED
  BY <1>1, <1>2

\* An operand of v that is not converted yet, and why reading it may fail.
LEMMA OperandOf ==
    ASSUME program \in Programs, operandPool \in [Value -> PoolT], NEW v \in Value, AsWritten(v),
           NEW k \in DOMAIN program.ops[v]
    PROVE  /\ TranslateOrMatch(Ops(v)[k]) = ConversionError => FailedOperand(v)
           /\ MatchOp(Ops(v)[k]) = ConversionError => FailedOperand(v)
           /\ Pool(Ops(v)[k]) = ConversionError => FailedOperand(v)
           /\ FallbackMatch(Ops(v)[k]) # ConversionError
           /\ [Ops(v)[k] EXCEPT !.as = "fix"] # ConversionError
<1> PICK w : w = program.ops[v][k]
  OBVIOUS
<1> PICK o : o = Ops(v)[k]
  OBVIOUS
<1>1. w \in Value \cup {Const} /\ o \in AsInProgram(w)
  BY ProgramShape DEF AsWritten
<1>2. Pool(o) = ConversionError => FailedOperand(v)
  BY <1>1, OperandRead DEF FailedOperand
<1>3. /\ TranslateOrMatch(o) = ConversionError => Pool(o) = ConversionError
      /\ MatchOp(o) = ConversionError => Pool(o) = ConversionError
      /\ FallbackMatch(o) # ConversionError
      /\ [o EXCEPT !.as = "fix"] # ConversionError
  BY <1>1, OperandConverted
<1> QED
  BY <1>2, <1>3

\* So may a conversion of all operands to fixed point.
LEMMA SomeFailedOperand ==
    ASSUME program \in Programs, operandPool \in [Value -> PoolT], NEW v \in Value, AsWritten(v),
           SomeFailed(FixedOps(v))
    PROVE  FailedOperand(v)
<1>1. PICK k \in DOMAIN FixedOps(v) : FixedOps(v)[k] = ConversionError
  BY DEF SomeFailed
<1>2. k \in DOMAIN program.ops[v] /\ FixedOps(v)[k] = TranslateOrMatch(Ops(v)[k])
  BY <1>1 DEF FixedOps, AsWritten
<1> QED
  BY <1>1, <1>2, OperandOf

\* Each kind of instruction ends in a version of it, or fails with a reason.
LEMMA Converted ==
    ASSUME program \in Programs, operandPool \in [Value -> PoolT], NEW v \in Value, AsWritten(v),
           ConvertInstruction(v)
    PROVE  Outcome(v)
<1>1. \A ops : \A as \in {"float", "fix"} : Becomes(v, ops, as) => Outcome(v)
  BY BecomesRecorded DEF Outcome
<1>2. \A ops : StaysWith(v, ops) => Outcome(v)
  BY StaysRecorded DEF Outcome
<1>3. Fallback(v) => Outcome(v)
  BY FallbackRecorded DEF Outcome
<1>4. Fails(v) /\ MayFail(v) => Outcome(v)
  BY FailsRecorded DEF Outcome
<1>5. FailedOperand(v) => MayFail(v)
  BY DEF MayFail
<1>6. ConvertOp(v) => Outcome(v)
  BY <1>1, <1>3, <1>4, <1>5, SomeFailedOperand DEF ConvertOp
<1>7. CASE Kind(v) = "alloca" /\ ConvertAlloca(v)
  BY <1>1, <1>2, <1>7 DEF ConvertAlloca
<1>8. CASE Kind(v) = "load" /\ ConvertLoad(v)
  <2>1. Pool(Ops(v)[1]) = ConversionError => FailedOperand(v)
    BY <1>8, ProgramShape, OperandOf
  <2>2. (IF v \in noTypeConversion THEN "float" ELSE "fix") \in {"float", "fix"}
    OBVIOUS
  <2> QED
    BY <1>1, <1>3, <1>4, <1>5, <1>8, <2>1, <2>2 DEF ConvertLoad
<1>9. CASE Kind(v) = "store" /\ ConvertStore(v)
  <2>1. 1 \in DOMAIN program.ops[v] /\ 2 \in DOMAIN program.ops[v]
    BY <1>9, ProgramShape
  <2>2. /\ TranslateOrMatch(Ops(v)[1]) = ConversionError => FailedOperand(v)
        /\ MatchOp(Ops(v)[1]) = ConversionError => FailedOperand(v)
        /\ MatchOp(Ops(v)[2]) = ConversionError => FailedOperand(v)
        /\ FallbackMatch(Ops(v)[1]) # ConversionError
        /\ [Ops(v)[1] EXCEPT !.as = "fix"] # ConversionError
    BY <2>1, OperandOf
  <2>3. \/ Fails(v) /\ FailedOperand(v)
        \/ Fallback(v)
        \/ \E ops : Becomes(v, ops, "float")
    BY <1>9, <2>2 DEF ConvertStore
  <2> QED
    BY <1>1, <1>3, <1>4, <1>5, <2>3
<1>10. CASE Kind(v) = "gep" /\ ConvertGep(v)
  <2>1. MatchOp(Ops(v)[1]) = ConversionError => FailedOperand(v)
    BY <1>10, ProgramShape, OperandOf
  <2> QED
    BY <1>1, <1>3, <1>4, <1>5, <1>10, <2>1 DEF ConvertGep
<1>11. CASE Kind(v) = "phi" /\ ConvertPhi(v)
  <2>1. CASE v \in noTypeConversion
    <3>1. CASE \E k \in DOMAIN Ops(v) : Matched(Ops(v)[k])
      BY <1>2, <1>11, <2>1, <3>1 DEF ConvertPhi
    <3>2. CASE \A k \in DOMAIN Ops(v) : ~Matched(Ops(v)[k])
      <4>1. Fails(v)
        BY <1>11, <2>1, <3>2 DEF ConvertPhi
      <4>2. MayFail(v)
        BY <1>11, <2>1, <3>2 DEF MayFail, Unmatched, IsPhi
      <4> QED
        BY <1>4, <4>1, <4>2
    <3> QED
      BY <3>1, <3>2
  <2>2. CASE v \notin noTypeConversion
    BY <1>6, <1>11, <2>2 DEF ConvertPhi
  <2> QED
    BY <2>1, <2>2
<1>12. CASE Kind(v) = "op" /\ ConvertOp(v)
  BY <1>6, <1>12
<1>13. CASE Kind(v) \in {"call", "fixcall"} /\ ConvertCall(v)
  <2>1. v \in program.unfit => MayFail(v)
    BY DEF MayFail
  <2>2. (IF v \in noTypeConversion THEN "float" ELSE "fix") \in {"float", "fix"}
    OBVIOUS
  <2> QED
    BY <1>1, <1>3, <1>4, <1>13, <2>1, <2>2 DEF ConvertCall
<1>14. CASE Kind(v) = "ret" /\ Fallback(v)
  BY <1>3, <1>14
<1> QED
  BY <1>7, <1>8, <1>9, <1>10, <1>11, <1>12, <1>13, <1>14 DEF ConvertInstruction

(***************************************************************************)
(* The state: types, and what is still as the program has it.              *)
(***************************************************************************)
\* The values whose conversion is over.
Passed(v) == phase # "sort" /\ \E i \in 1..next - 1 : vals[i] = v

Untouched ==
    phase \in {"sort", "convert"} =>
        \A v \in Value : ~Passed(v) => AsWritten(v) /\ operandPool[v] = None

Typed ==
    /\ program \in Programs
    /\ vals \in Queues /\ next \in 1..Len(vals) + 1
    /\ ToSet(vals) \cup noTypeConversion \subseteq hasInfo /\ hasInfo \subseteq Value
    /\ roots \in [Value -> SUBSET Value]
    /\ operandPool \in [Value -> PoolT]
    /\ phase \in {"sort", "convert", "close", "cleanup", "done"}
    /\ Untouched

\* The users of a value, while the code is as written.
LEMMA UsersAsWritten ==
    ASSUME program \in Programs, \A u \in Value : AsWritten(u),
           NEW v \in Value, ~IsPhi(v)
    PROVE  Users(graph, v) = OriginalUsers(v) /\ v \notin Users(graph, v)
<1>1. ASSUME NEW u \in Value, NEW k \in DOMAIN program.ops[u]
      PROVE  Node(Ops(u)[k]) = <<"old", v>> <=> program.ops[u][k] = v
  <2> PICK w : w = program.ops[u][k]
    OBVIOUS
  <2> PICK o : o = Ops(u)[k]
    OBVIOUS
  <2>1. w \in Value \cup {Const} /\ o \in AsInProgram(w)
    BY ProgramShape DEF AsWritten
  <2>2. CASE w = Const
    <3>1. o = Operand("const", Const, "float")
      BY <2>1, <2>2, ValueAssumption DEF AsInProgram, Old
    <3>2. o.role = "const" /\ w # v
      BY <2>2, <3>1, OperandFields, ValueAssumption DEF Roles
    <3> QED
      BY <3>2 DEF Node
  <2>3. CASE w \in Value /\ o = Old(w)
    <3>1. o = Operand("old", w, "float")
      BY <2>3, ValueAssumption DEF Old
    <3>2. o.role = "old" /\ o.v = w
      BY <2>3, <3>1, OperandFields DEF Roles
    <3> QED
      BY <3>2 DEF Node
  <2>4. CASE w \in Value /\ o # Old(w)
    <3>1. o = Operand("noconv", w, "float") /\ IsPhi(w)
      BY <2>1, <2>4 DEF AsInProgram
    <3>2. o.role = "noconv" /\ w # v
      BY <2>4, <3>1, OperandFields DEF Roles
    <3> QED
      BY <3>2 DEF Node
  <2> QED
    BY <2>1, <2>2, <2>3, <2>4
<1>2. ASSUME NEW u \in Value
      PROVE  u \in Users(graph, v) <=> u \in OriginalUsers(v)
  <2>1. DOMAIN Ops(u) = DOMAIN program.ops[u]
    BY DEF AsWritten
  <2>2. u \in OriginalUsers(v) <=> \E k \in DOMAIN program.ops[u] : program.ops[u][k] = v
    BY DEF OriginalUsers, ToSet
  <2>3. u \in Users(graph, v) <=> \E k \in DOMAIN Ops(u) : Node(Ops(u)[k]) = <<"old", v>>
    BY DEF Users, Ops
  <2> QED
    BY <1>1, <2>1, <2>2, <2>3
<1>3. Users(graph, v) \subseteq Value /\ OriginalUsers(v) \subseteq Value
  BY DEF Users, OriginalUsers
<1>4. v \notin OriginalUsers(v)
  BY ProgramAssumption DEF OriginalUsers, IsPhi, Kind
<1> QED
  BY <1>2, <1>3, <1>4

\* The phi nodes that are opened leave every operand one of the program, or
\* its placeholder.
LEMMA OpenedAsWritten ==
    ASSUME program \in Programs, \A u \in Value : AsWritten(u),
           NEW S \in SUBSET Value, \A p \in S : IsPhi(p),
           graph' = OpenPhiLoops(graph, S), program' = program
    PROVE  \A u \in Value : AsWritten(u)'
<1> SUFFICES ASSUME NEW u \in Value PROVE AsWritten(u)'
  OBVIOUS
<1>1. /\ <<"old", u>> \in DOMAIN graph /\ DOMAIN Ops(u) = DOMAIN program.ops[u]
      /\ \A k \in DOMAIN program.ops[u] : Ops(u)[k] \in AsInProgram(program.ops[u][k])
  BY DEF AsWritten
<1>2. /\ DOMAIN graph' = DOMAIN graph
      /\ Ops(u)' = [k \in DOMAIN Ops(u) |->
                      IF Ops(u)[k].role = "old" /\ Ops(u)[k].v \in S
                      THEN Operand("noconv", Ops(u)[k].v, Ops(u)[k].as) ELSE Ops(u)[k]]
  BY <1>1 DEF OpenPhiLoops, Ops
<1>3. ASSUME NEW k \in DOMAIN program.ops[u]
      PROVE  Ops(u)'[k] \in AsInProgram(program.ops[u][k])
  <2> PICK w : w = program.ops[u][k]
    OBVIOUS
  <2> PICK o : o = Ops(u)[k]
    OBVIOUS
  <2>1. w \in Value \cup {Const} /\ o \in AsInProgram(w)
    BY <1>1, ProgramShape
  <2>2. Ops(u)'[k] = IF o.role = "old" /\ o.v \in S THEN Operand("noconv", o.v, o.as) ELSE o
    BY <1>1, <1>2
  <2>3. ASSUME o.role = "old", o.v \in S
        PROVE  Operand("noconv", o.v, o.as) = Operand("noconv", w, "float") /\ w \in Value /\ IsPhi(w)
    <3>1. CASE o = Old(w) /\ w = Const
      <4>1. o.role = "const"
        BY <3>1, OperandFields DEF Old, Roles
      <4> QED
        BY <2>3, <4>1
    <3>2. CASE o = Old(w) /\ w # Const
      <4>1. o.v = w /\ o.as = "float"
        BY <2>1, <3>2, OperandFields DEF Old, Roles
      <4> QED
        BY <2>3, <4>1
    <3>3. CASE o # Old(w)
      <4>1. o = Operand("noconv", w, "float")
        BY <2>1, <3>3 DEF AsInProgram
      <4>2. o.role = "noconv"
        BY <2>1, <4>1, OperandFields DEF Roles
      <4> QED
        BY <2>3, <4>2
    <3> QED
      BY <3>1, <3>2, <3>3
  <2> QED
    BY <2>1, <2>2, <2>3 DEF AsInProgram
<1>4. \A w : AsInProgram(w)' = AsInProgram(w)
  BY DEF AsInProgram, IsPhi, Kind
<1> QED
  BY <1>1, <1>2, <1>3, <1>4 DEF AsWritten

\* What a visit does to the queue.
LEMMA VisitMoves ==
    ASSUME Typed, SortNext
    PROVE  \E v \in ToSet(vals) : \E us \in Queues :
               /\ v = vals[next] /\ next \in 1..Len(vals) /\ v \notin ToSet(us)
               /\ ToSet(us) = IF IsPhi(v) THEN {} ELSE OriginalUsers(v)
               /\ Visit(v, us)
<1>1. phase = "sort" /\ next \in 1..Len(vals) /\ \A u \in Value : AsWritten(u)
  <2>1. next <= Len(vals) /\ next \in 1..Len(vals) + 1 /\ Len(vals) \in Nat
    BY QueueFacts DEF SortNext, Typed
  <2> QED
    BY <2>1 DEF SortNext, Typed, Untouched, Passed
<1> PICK v : v = vals[next]
  OBVIOUS
<1>2. v \in ToSet(vals) /\ v \in Value
  BY <1>1, QueueFacts DEF Typed
<1> PICK S : S = IF IsPhi(v) THEN {} ELSE Users(graph, v)
  OBVIOUS
<1>3. PICK us \in Orders[S] : Visit(v, us)
  BY <1>1 DEF SortNext
<1>4. S \in SUBSET Value /\ v \notin S /\ S = IF IsPhi(v) THEN {} ELSE OriginalUsers(v)
  BY <1>1, <1>2, UsersAsWritten DEF Typed, Users
<1>5. us \in Seq(Value) /\ IsInjective(us) /\ ToSet(us) = S
  BY <1>4, ValueAssumption
<1> QED
  BY <1>1, <1>2, <1>3, <1>4, <1>5 DEF Queues

\* The program as it is read is typed.
LEMMA TypedInit == Init => Typed
<1> SUFFICES ASSUME Init PROVE Typed
  OBVIOUS
<1>1. program \in Programs /\ program.meta \in SUBSET Value
  BY ProgramAssumption DEF Init
<1>2. vals \in Queues /\ ToSet(vals) = program.meta /\ next = 1 /\ Len(vals) \in Nat
  BY <1>1, ValueAssumption, QueueFacts DEF Init, Queues
<1>3. operandPool \in [Value -> PoolT] /\ \A v \in Value : operandPool[v] = None
  BY DEF Init, PoolT
<1>4. ASSUME NEW v \in Value PROVE AsWritten(v)
  <2>1. <<"old", v>> \in DOMAIN graph
        /\ Ops(v) = [k \in DOMAIN program.ops[v] |-> Old(program.ops[v][k])]
    BY DEF Init, Ops
  <2> QED
    BY <2>1 DEF AsWritten, AsInProgram
<1>5. Untouched
  BY <1>3, <1>4 DEF Untouched
<1>6. /\ noTypeConversion = {} /\ hasInfo = program.meta /\ phase = "sort"
      /\ roots \in [Value -> SUBSET Value]
  BY DEF Init
<1>7. next \in 1..Len(vals) + 1
  BY <1>2
<1> QED
  BY <1>1, <1>2, <1>3, <1>5, <1>6, <1>7 DEF Typed

\* Visiting a value keeps the types.
LEMMA TypedVisit ==
    ASSUME Typed, SortNext
    PROVE  Typed'
<1>0. PICK v \in ToSet(vals), us \in Queues :
               /\ v = vals[next] /\ next \in 1..Len(vals) /\ v \notin ToSet(us)
               /\ ToSet(us) = IF IsPhi(v) THEN {} ELSE OriginalUsers(v)
               /\ Visit(v, us)
  BY VisitMoves
<1>1. v \in Value /\ ToSet(us) \subseteq Value
  BY QueueFacts DEF Typed
<1>2. vals' \in Queues /\ ToSet(vals') = ToSet(vals) \cup ToSet(us) /\ next' \in 1..Len(vals') + 1
  <2>1. /\ vals' = Without(vals, ToSet(us)) \o us
        /\ next' = next + 1 - Cardinality({i \in 1..next - 1 : vals[i] \in ToSet(us)})
    BY <1>0 DEF Visit
  <2>2. vals \in Queues /\ vals[next] \notin ToSet(us) /\ next \in 1..Len(vals)
    BY <1>0 DEF Typed
  <2>3. PICK q, n, r, m : q = vals /\ n = next /\ r = vals' /\ m = next'
    OBVIOUS
  <2>4. /\ q \in Queues /\ n \in 1..Len(q) /\ q[n] \notin ToSet(us)
        /\ Moves(q, us, n, r, m)
    BY <2>1, <2>2, <2>3 DEF Moves
  <2>5. r \in Queues /\ ToSet(r) = ToSet(q) \cup ToSet(us) /\ m \in 1..Len(r) + 1
    BY <2>4, Moving
  <2> QED
    BY <2>3, <2>5
<1>3. /\ hasInfo' = hasInfo \cup ToSet(us)
      /\ noTypeConversion' = noTypeConversion \cup (ToSet(us) \ hasInfo)
  BY <1>0 DEF Visit
<1>4. roots' \in [Value -> SUBSET Value]
  <2>1. StillRoots(v) \in SUBSET Value
    BY <1>1 DEF StillRoots, Typed
  <2>2. (IF StillRoots(v) = {} THEN {v} ELSE StillRoots(v)) \in SUBSET Value
    BY <1>1, <2>1
  <2>3. roots' = [w \in Value |-> IF w = v THEN StillRoots(v)
                                  ELSE IF w \in ToSet(us)
                                  THEN roots[w] \cup (IF StillRoots(v) = {} THEN {v} ELSE StillRoots(v))
                                  ELSE roots[w]]
    BY <1>0 DEF Visit
  <2>4. \A w \in Value : roots[w] \in SUBSET Value
    BY DEF Typed
  <2> QED
    BY <2>1, <2>2, <2>3, <2>4
<1>5. \A u \in Value : AsWritten(u)'
  <2> PICK phis : phis = {p \in {v} \cup ToSet(us) : IsPhi(p)}
    OBVIOUS
  <2>1. graph' = OpenPhiLoops(graph, phis)
    BY <1>0 DEF Visit
  <2>2. program' = program
    BY DEF SortNext
  <2>3. \A u \in Value : AsWritten(u)
    BY DEF Typed, Untouched, Passed, SortNext
  <2> QED
    BY <1>1, <2>1, <2>2, <2>3, OpenedAsWritten DEF Typed
<1>6. Untouched'
  <2>1. operandPool' = operandPool /\ phase' = "sort"
    BY DEF SortNext
  <2>2. \A v1 \in Value : operandPool[v1] = None
    BY DEF Typed, Untouched, Passed, SortNext
  <2> QED
    BY <1>5, <2>1, <2>2 DEF Untouched
<1> QED
  BY <1>1, <1>2, <1>3, <1>4, <1>6 DEF SortNext, Typed

\* Converting a value keeps the types.
LEMMA TypedConvert ==
    ASSUME Typed, ConvertNext
    PROVE  /\ Typed' /\ next \in 1..Len(vals) /\ vals[next] \in Value
           /\ AsWritten(vals[next]) /\ operandPool[vals[next]] = None
           /\ Outcome(vals[next]) /\ next' = next + 1
<1> PICK v : v = vals[next]
  OBVIOUS
<1>1. next \in 1..Len(vals) /\ v \in Value /\ next' = next + 1
  <2>1. next <= Len(vals) /\ next \in 1..Len(vals) + 1 /\ Len(vals) \in Nat
    BY QueueFacts DEF ConvertNext, Typed
  <2> QED
    BY <2>1, QueueFacts DEF Typed, ConvertNext
<1>2. AsWritten(v) /\ operandPool[v] = None
  <2>1. ~Passed(v)
    <3>1. vals \in Queues
      BY DEF Typed
    <3>2. \A i \in 1..Len(vals) : vals[i] = vals[next] => i = next
      BY <1>1, <3>1, QueueFacts
    <3>3. ASSUME NEW i \in 1..next - 1 PROVE vals[i] # v
      BY <1>1, <3>2
    <3> QED
      BY <3>3 DEF Passed
  <2> QED
    BY <1>1, <2>1 DEF ConvertNext, Typed, Untouched
<1>3. Outcome(v)
  BY <1>1, <1>2, Converted DEF ConvertNext, Typed
<1>4. PICK x \in PoolT : Recorded(v, x)
  <2>1. Versions(v) \subseteq PoolT
    BY <1>1, ValueAssumption DEF Versions, PoolT, Old, New, Operand
  <2>2. ConversionError \in PoolT
    BY DEF PoolT
  <2> QED
    BY <1>3, <2>1, <2>2 DEF Outcome
<1>5. operandPool' \in [Value -> PoolT]
  BY <1>4 DEF Recorded, Typed
<1>6. Untouched'
  <2> SUFFICES ASSUME NEW u \in Value, ~Passed(u)' PROVE AsWritten(u)' /\ operandPool'[u] = None
    BY DEF Untouched
  <2>1. u # v /\ ~Passed(u)
    <3>1. phase' # "sort" /\ vals' = vals /\ next' = next + 1 /\ next \in Nat
      BY <1>1, QueueFacts DEF ConvertNext, Typed
    <3> QED
      BY <1>1, <3>1 DEF Passed
  <2>2. AsWritten(u) /\ operandPool[u] = None
    BY <2>1 DEF Typed, Untouched, ConvertNext
  <2>3. /\ <<"old", u>> \in DOMAIN graph' /\ graph'[<<"old", u>>] = graph[<<"old", u>>]
        /\ operandPool'[u] = operandPool[u]
    BY <1>4, <2>1, <2>2 DEF Recorded, AsWritten, Typed
  <2>4. program' = program /\ Ops(u)' = Ops(u)
    BY <2>3 DEF ConvertNext, Ops
  <2>5. \A w : AsInProgram(w)' = AsInProgram(w)
    BY <2>4 DEF AsInProgram, IsPhi, Kind
  <2> QED
    BY <2>2, <2>3, <2>4, <2>5 DEF AsWritten
<1>7. next' \in 1..Len(vals') + 1
  BY <1>1, QueueFacts DEF Typed, ConvertNext
<1>8. Typed'
  BY <1>5, <1>6, <1>7 DEF ConvertNext, Typed
<1> QED
  BY <1>1, <1>2, <1>3, <1>8

\* Every step keeps the types.
LEMMA TypedStep == Typed /\ [Next]_vars => Typed'
<1> SUFFICES ASSUME Typed, [Next]_vars PROVE Typed'
  OBVIOUS
<1>1. CASE SortNext
  BY <1>1, TypedVisit
<1>2. CASE FinishSort
  <2>1. \A w : AsInProgram(w)' = AsInProgram(w)
    BY <1>2 DEF FinishSort, AsInProgram, IsPhi, Kind
  <2>2. \A u \in Value : AsWritten(u) /\ operandPool[u] = None
    BY <1>2 DEF FinishSort, Typed, Untouched, Passed
  <2>3. Untouched'
    BY <1>2, <2>1, <2>2 DEF FinishSort, Untouched, AsWritten, Ops
  <2>4. next' \in 1..Len(vals') + 1
    BY <1>2, QueueFacts DEF FinishSort, Typed
  <2>5. roots' \in [Value -> SUBSET Value]
    BY <1>2 DEF FinishSort, Typed
  <2>6. noTypeConversion' \subseteq hasInfo'
    BY <1>2 DEF FinishSort, Typed
  <2> QED
    BY <1>2, <2>3, <2>4, <2>5, <2>6 DEF FinishSort, Typed
<1>3. CASE ConvertNext
  BY <1>3, TypedConvert
<1>4. CASE FinishConversion
  BY <1>4 DEF FinishConversion, Typed, Untouched
<1>5. CASE ClosePhiLoops
  BY <1>5 DEF ClosePhiLoops, Typed, Untouched
<1>6. CASE Cleanup
  BY <1>6 DEF Cleanup, Typed, Untouched
<1>7. CASE UNCHANGED vars
  <2>1. \A w : AsInProgram(w)' = AsInProgram(w)
    BY <1>7 DEF vars, AsInProgram, IsPhi, Kind
  <2>2. Untouched'
    BY <1>7, <2>1 DEF vars, Typed, Untouched, AsWritten, Ops, Passed
  <2> QED
    BY <1>7, <2>2 DEF vars, Typed
<1> QED
  BY <1>1, <1>2, <1>3, <1>4, <1>5, <1>6, <1>7 DEF Next, Step, Finished

\* The state is well formed in every run.
THEOREM ConversionTyped == Spec => []Typed
<1> QED
  BY TypedInit, TypedStep, PTL DEF Spec

\* Theorem: the variables of the conversion have their types.
THEOREM ConversionTypeCorrect == Spec => []TypeOK
<1>1. Typed => TypeOK
  BY QueueFacts DEF Typed, TypeOK, Queues
<1> QED
  BY <1>1, ConversionTyped, PTL

(***************************************************************************)
(* The order of the queue.  While it is sorted, the first next - 1 values  *)
(* have been passed, and their users are behind them; those from next on   *)
(* are still to come.                                                      *)
(***************************************************************************)
ToCome(x) == \E i \in next..Len(vals) : vals[i] = x

\* What a visit of v moves, and what it leaves in order.
Visited(v, us) ==
    /\ v = vals[next] /\ next \in 1..Len(vals) /\ v \in ToSet(vals) /\ v \in Value
    /\ ToSet(us) = (IF IsPhi(v) THEN {} ELSE OriginalUsers(v)) /\ v \notin ToSet(us)
    /\ ToSet(us) \subseteq Value
    /\ Visit(v, us)
    /\ vals' \in Queues /\ ToSet(vals') = ToSet(vals) \cup ToSet(us) /\ next' \in 1..Len(vals') + 1
    /\ \A k \in 1..next' - 1 : \E i \in 1..next :
          /\ vals[i] = vals'[k] /\ vals[i] \notin ToSet(us)
          /\ \A j \in i + 1..Len(vals) : Behind(vals', k, vals[j])
          /\ \A u \in ToSet(us) : Behind(vals', k, u)
    /\ \A u \in ToSet(us) : ToCome(u)'
    /\ \A j \in next + 1..Len(vals) : \A x : x = vals[j] => ToCome(x)'

\* Every step of the sorting is such a visit.
LEMMA SortVisits ==
    ASSUME Typed, SortNext
    PROVE  \E v, us : Visited(v, us)
<1>0. PICK v \in ToSet(vals), us \in Queues :
               /\ v = vals[next] /\ next \in 1..Len(vals) /\ v \notin ToSet(us)
               /\ ToSet(us) = IF IsPhi(v) THEN {} ELSE OriginalUsers(v)
               /\ Visit(v, us)
  BY VisitMoves
<1>1. v \in Value /\ ToSet(us) \subseteq Value
  BY QueueFacts DEF Typed
<1>2. PICK q, n, r, m : q = vals /\ n = next /\ r = vals' /\ m = next'
  OBVIOUS
<1>3. /\ q \in Queues /\ n \in 1..Len(q) /\ q[n] \notin ToSet(us) /\ Moves(q, us, n, r, m)
  BY <1>0, <1>2 DEF Moves, Visit, Typed
<1>4. /\ r \in Queues /\ ToSet(r) = ToSet(q) \cup ToSet(us) /\ m \in 1..Len(r) + 1
      /\ \A k \in 1..m - 1 : \E i \in 1..n :
            /\ q[i] = r[k] /\ q[i] \notin ToSet(us)
            /\ \A j \in i + 1..Len(q) : Behind(r, k, q[j])
            /\ \A u \in ToSet(us) : Behind(r, k, u)
  BY <1>3, Moving
<1>5. /\ ToSet(r) = {r[k] : k \in 1..Len(r)} /\ Len(r) \in Nat /\ Len(q) \in Nat
      /\ \A i, j \in 1..Len(q) : q[i] = q[j] => i = j
  BY <1>3, <1>4, QueueFacts
<1>6. ASSUME NEW u \in ToSet(us) PROVE \E l \in m..Len(r) : r[l] = u
  <2>1. PICK l \in 1..Len(r) : r[l] = u
    BY <1>4, <1>5
  <2>2. CASE l \in 1..m - 1
    BY <1>4, <2>1, <2>2
  <2>3. CASE l \notin 1..m - 1
    <3>1. l \in m..Len(r)
      BY <1>4, <1>5, <2>3
    <3> QED
      BY <2>1, <3>1
  <2> QED
    BY <2>2, <2>3
<1>7. ASSUME NEW j \in n + 1..Len(q) PROVE \E l \in m..Len(r) : r[l] = q[j]
  <2>0. j \in 1..Len(q) /\ q[j] \in ToSet(q)
    BY <1>3, <1>5, QueueFacts
  <2>1. PICK l \in 1..Len(r) : r[l] = q[j]
    BY <1>4, <1>5, <2>0
  <2>2. CASE l \in 1..m - 1
    <3>1. PICK i \in 1..n : q[i] = r[l]
      BY <1>4, <2>2
    <3>2. i \in 1..Len(q) /\ i # j
      BY <1>3, <1>5
    <3> QED
      BY <1>5, <2>0, <2>1, <3>1, <3>2
  <2>3. CASE l \notin 1..m - 1
    <3>1. l \in m..Len(r)
      BY <1>4, <1>5, <2>3
    <3> QED
      BY <2>1, <3>1
  <2> QED
    BY <2>2, <2>3
<1>8. \A x : ToCome(x)' <=> \E l \in m..Len(r) : r[l] = x
  BY <1>2 DEF ToCome
<1>9. /\ \A u \in ToSet(us) : ToCome(u)'
      /\ \A j \in next + 1..Len(vals) : \A x : x = vals[j] => ToCome(x)'
  BY <1>2, <1>6, <1>7, <1>8
<1>10. /\ vals' \in Queues /\ ToSet(vals') = ToSet(vals) \cup ToSet(us) /\ next' \in 1..Len(vals') + 1
       /\ \A k \in 1..next' - 1 : \E i \in 1..next :
          /\ vals[i] = vals'[k] /\ vals[i] \notin ToSet(us)
          /\ \A j \in i + 1..Len(vals) : Behind(vals', k, vals[j])
          /\ \A u \in ToSet(us) : Behind(vals', k, u)
  BY <1>2, <1>4
<1>11. Visited(v, us)
  BY <1>0, <1>1, <1>9, <1>10 DEF Visited
<1> QED
  BY <1>11

-----------------------------------------------------------------------------
Done == IF phase = "sort" THEN next - 1 ELSE Len(vals)

UsersAfter ==
    \A k \in 1..Done : ~IsPhi(vals[k]) =>
        \A u \in OriginalUsers(vals[k]) : Behind(vals, k, u)

\* Why a value is on the queue.
Reasons ==
    /\ program.meta \subseteq ToSet(vals)
    /\ \A v \in ToSet(vals) \ program.meta :
          \E x \in ToSet(vals) : ~IsPhi(x) /\ v \in OriginalUsers(x)
    /\ \A v \in noTypeConversion : IsPhi(v) => v \notin program.meta

Ordered == UsersAfter /\ Reasons

\* At first only what has metadata is on the queue, and none of it is passed.
LEMMA OrderedInit == Init => Ordered
<1> SUFFICES ASSUME Init PROVE Ordered
  OBVIOUS
<1>1. ToSet(vals) = program.meta /\ program.meta \in SUBSET Value
  BY ProgramAssumption, ValueAssumption DEF Init
<1>2. Reasons
  BY <1>1 DEF Init, Reasons
<1>3. UsersAfter
  BY DEF Init, UsersAfter, Done
<1> QED
  BY <1>2, <1>3 DEF Ordered

\* What does not change the queue keeps its order.
LEMMA OrderKept ==
    ASSUME Ordered, program' = program, vals' = vals, Done' = Done,
           \A v \in noTypeConversion' \ noTypeConversion : ~IsPhi(v)
    PROVE  Ordered'
<1>1. (\A v : IsPhi(v)' = IsPhi(v)) /\ \A v : OriginalUsers(v)' = OriginalUsers(v)
  BY DEF IsPhi, Kind, OriginalUsers
<1>2. UsersAfter'
  BY <1>1 DEF Ordered, UsersAfter
<1>3. Reasons'
  BY <1>1 DEF Ordered, Reasons
<1> QED
  BY <1>2, <1>3 DEF Ordered

\* A visit puts the users of the value visited behind it, and those of the
\* values passed before stay behind them.
LEMMA OrderedVisit ==
    ASSUME Typed, Ordered, SortNext
    PROVE  Ordered'
<1>0. PICK v, us : Visited(v, us)
  BY SortVisits
<1> PICK q, n, r, m : q = vals /\ n = next /\ r = vals' /\ m = next'
  OBVIOUS
<1>1. /\ v = q[n] /\ n \in 1..Len(q) /\ v \in ToSet(q) /\ v \in Value
      /\ ToSet(us) = (IF IsPhi(v) THEN {} ELSE OriginalUsers(v)) /\ v \notin ToSet(us)
      /\ ToSet(us) \subseteq Value
      /\ ToSet(r) = ToSet(q) \cup ToSet(us) /\ m \in 1..Len(r) + 1
      /\ \A k \in 1..m - 1 : \E i \in 1..n :
            /\ q[i] = r[k] /\ q[i] \notin ToSet(us)
            /\ \A j \in i + 1..Len(q) : Behind(r, k, q[j])
            /\ \A u \in ToSet(us) : Behind(r, k, u)
  BY <1>0 DEF Visited
<1>2. (\A x : IsPhi(x)' = IsPhi(x)) /\ (\A x : OriginalUsers(x)' = OriginalUsers(x))
      /\ program' = program /\ phase = "sort" /\ phase' = "sort"
  BY DEF SortNext, IsPhi, Kind, OriginalUsers
<1>3. \A k \in 1..n - 1 : ~IsPhi(q[k]) => \A u \in OriginalUsers(q[k]) : Behind(q, k, u)
  BY <1>2 DEF Ordered, UsersAfter, Done
<1>4. ASSUME NEW k \in 1..m - 1, ~IsPhi(r[k]), NEW u \in OriginalUsers(r[k])
      PROVE  Behind(r, k, u)
  <2>1. PICK i \in 1..n :
            /\ q[i] = r[k] /\ q[i] \notin ToSet(us)
            /\ \A j \in i + 1..Len(q) : Behind(r, k, q[j])
            /\ \A x \in ToSet(us) : Behind(r, k, x)
    BY <1>1
  <2>2. CASE i = n
    BY <1>1, <1>4, <2>1, <2>2
  <2>3. CASE i # n
    <3>1. i \in 1..n - 1
      BY <1>1, <2>3
    <3>2. Behind(q, i, u)
      BY <1>3, <1>4, <2>1, <3>1
    <3>3. PICK j \in i + 1..Len(q) : q[j] = u
      BY <3>2 DEF Behind
    <3> QED
      BY <2>1, <3>3
  <2> QED
    BY <2>2, <2>3
<1>5. UsersAfter'
  BY <1>2, <1>4 DEF UsersAfter, Done
<1>6. Reasons'
  <2>1. \A x \in ToSet(r) \ program.meta : \E y \in ToSet(r) : ~IsPhi(y) /\ x \in OriginalUsers(y)
    BY <1>1 DEF Ordered, Reasons
  <2>2. noTypeConversion' = noTypeConversion \cup (ToSet(us) \ hasInfo)
    BY <1>0 DEF Visited, Visit
  <2>3. program.meta \subseteq hasInfo
    BY DEF Ordered, Reasons, Typed
  <2> QED
    BY <1>1, <1>2, <2>1, <2>2, <2>3 DEF Ordered, Reasons
<1> QED
  BY <1>5, <1>6 DEF Ordered

\* Every step keeps the order.
LEMMA OrderedStep ==
    ASSUME Typed, Ordered, [Next]_vars
    PROVE  Ordered'
<1>1. CASE SortNext
  BY <1>1, OrderedVisit
<1>2. CASE FinishSort
  <2>1. Done' = Done
    <3>1. next > Len(vals) /\ next \in 1..Len(vals) + 1 /\ Len(vals) \in Nat
      BY <1>2, QueueFacts DEF FinishSort, Typed
    <3>2. Done = Len(vals) /\ Done' = Len(vals)
      BY <1>2, <3>1 DEF FinishSort, Done
    <3> QED
      BY <3>2
  <2>2. \A v \in noTypeConversion' \ noTypeConversion : ~IsPhi(v)
    BY <1>2 DEF FinishSort, IsPhi
  <2> QED
    BY <1>2, <2>1, <2>2, OrderKept DEF FinishSort
<1>3. CASE ConvertNext
  BY <1>3, OrderKept DEF ConvertNext, Done
<1>4. CASE FinishConversion
  BY <1>4, OrderKept DEF FinishConversion, Done
<1>5. CASE ClosePhiLoops
  BY <1>5, OrderKept DEF ClosePhiLoops, Done
<1>6. CASE Cleanup
  BY <1>6, OrderKept DEF Cleanup, Done
<1>7. CASE UNCHANGED vars
  BY <1>7, OrderKept DEF vars, Done
<1> QED
  BY <1>1, <1>2, <1>3, <1>4, <1>5, <1>6, <1>7 DEF Next, Step, Finished

(***************************************************************************)
(* What depends on the values of a set: the least set that holds them and  *)
(* the users of its values.                                                *)
(***************************************************************************)
ClosedSet(T) == \A v \in T : OriginalUsers(v) \subseteq T

\* A set with its users is larger, and the same if it is closed.
LEMMA WithUsersFacts ==
    ASSUME NEW S \in SUBSET Value
    PROVE  /\ WithUsers(S) \in SUBSET Value /\ S \subseteq WithUsers(S)
           /\ WithUsers(S) = S => ClosedSet(S)
           /\ \A T : ClosedSet(T) /\ S \subseteq T => WithUsers(S) \subseteq T
<1>1. \A v : OriginalUsers(v) \subseteq Value
  BY DEF OriginalUsers
<1>2. \A x : x \in WithUsers(S) <=> x \in S \/ \E v \in S : x \in OriginalUsers(v)
  BY DEF WithUsers
<1> QED
  BY <1>1, <1>2 DEF ClosedSet

\* f applied n times to x stays in A, if f does.
Inside(f, A) == \A a \in A : f[a] \in A
Applied(g, A, f, n, x) ==
    g \in [0..n -> A] /\ g[0] = x /\ \A k \in 1..n : g[k] = f[g[k - 1]]

\* Repeated is the last of these.
LEMMA Repeating ==
    ASSUME NEW A, NEW f, Inside(f, A), NEW n \in Nat, NEW x \in A
    PROVE  \E g : Applied(g, A, f, n, x) /\ Repeated(f, n, x) = g[n]
<1> USE DEF Inside
<1> DEFINE Eq(g) == g = [k \in 0..n |-> IF k = 0 THEN x ELSE f[g[k - 1]]]
           G == [i \in 1..n |-> [a \in A |-> f[a]]]
           it == CHOOSE g : Eq(g)
<1>1. Repeated(f, n, x) = it[n]
  BY Zenon DEF Repeated
<1>2. G \in [1..n -> [A -> A]]
  OBVIOUS
<1>3. PICK g \in [0..n -> A] : g[0] = x /\ \A i \in 1..n : g[i] = G[i][g[i-1]]
  <2> HIDE DEF G
  <2>1. \E g \in [0..n -> A] : g[0] = x /\ \A i \in 1..n : g[i] = G[i][g[i-1]]
    BY <1>2, IterationExists
  <2> QED
    BY <2>1
<1>4. \A k \in 1..n : g[k] = f[g[k - 1]]
  <2> SUFFICES ASSUME NEW k \in 1..n PROVE g[k] = f[g[k - 1]]
    OBVIOUS
  <2>1. k - 1 \in 0..n /\ g[k] = G[k][g[k - 1]]
    <3> HIDE DEF G
    <3> QED
      BY <1>3
  <2> QED
    BY <2>1
<1>5. Eq(g)
  <2>1. \A k \in 0..n : g[k] = IF k = 0 THEN x ELSE f[g[k - 1]]
    BY <1>3, <1>4
  <2> QED
    BY <1>3, <2>1
<1>6. Eq(it)
  <2> HIDE DEF Eq
  <2> QED
    BY <1>5, Zenon
<1> HIDE DEF it
<1>7. \A k \in 0..n : it[k] = IF k = 0 THEN x ELSE f[it[k - 1]]
  BY <1>6
<1> DEFINE N == {k \in 0..n : it[k] = g[k]}
<1>8. 0 \in N
  BY <1>3, <1>7
<1>9. ASSUME NEW k \in 0..n, k < n, k \in N PROVE k + 1 \in N
  <2>1. k + 1 \in 1..n /\ k + 1 \in 0..n /\ k + 1 # 0 /\ (k + 1) - 1 = k
    BY <1>9
  <2>2. it[k + 1] = f[it[k]] /\ g[k + 1] = f[g[k]]
    BY <1>4, <1>7, <2>1
  <2>3. it[k] = g[k]
    BY <1>9
  <2> QED
    BY <2>1, <2>2, <2>3
<1>10. it[n] = g[n]
  <2>1. \A k \in 0..n : k < n /\ k \in N => k + 1 \in N
    BY <1>9
  <2> HIDE DEF N
  <2>2. 0..n \subseteq N
    BY <1>8, <2>1, InductionUpTo
  <2>3. n \in N
    BY <2>2
  <2> QED
    BY <2>3 DEF N
<1> QED
  BY <1>1, <1>3, <1>4, <1>10 DEF Applied

\* A set that grows within a finite set U, as many times as U has elements, is
\* one that G leaves as it is, and is within every set that G keeps within.
LEMMA Growing ==
    ASSUME NEW U, IsFiniteSet(U), NEW G, Grows(G, U), NEW S \in SUBSET U,
           NEW L, L = Repeated(G, Cardinality(U), S)
    PROVE  /\ L \in SUBSET U /\ S \subseteq L /\ G[L] = L
           /\ \A T : S \subseteq T /\ (\A W \in SUBSET U : W \subseteq T => G[W] \subseteq T) => L \subseteq T
<1> PICK m \in Nat : m = Cardinality(U)
  BY FS_CardinalityType
<1>0. G \in [SUBSET U -> SUBSET U] /\ \A W \in SUBSET U : W \subseteq G[W]
  BY DEF Grows
<1>1. PICK f : Applied(f, SUBSET U, G, m, S) /\ L = f[m]
  <2>1. Inside(G, SUBSET U)
    BY <1>0 DEF Inside
  <2> QED
    BY <2>1, Repeating
<1>2. f \in [0..m -> SUBSET U] /\ f[0] = S /\ \A k \in 1..m : f[k] = G[f[k - 1]]
  BY <1>1 DEF Applied
<1>3. G[L] = L /\ L \in SUBSET U
  <2>1. IsGrowth(f, U, m, G) /\ m >= Cardinality(U)
    BY <1>2 DEF IsGrowth
  <2>2. G[f[m]] = f[m]
    BY <2>1, GrowthEnds
  <2>3. m \in 0..m
    OBVIOUS
  <2> QED
    BY <1>1, <1>2, <2>2, <2>3
<1>4. ASSUME NEW T, S \subseteq T, \A W \in SUBSET U : W \subseteq T => G[W] \subseteq T
      PROVE  L \subseteq T /\ S \subseteq L
  <2> DEFINE N == {n \in 0..m : f[n] \subseteq T /\ S \subseteq f[n]}
  <2>1. 0 \in N
    BY <1>2, <1>4
  <2>2. ASSUME NEW n \in 0..m, n < m, n \in N PROVE n + 1 \in N
    <3>1. n + 1 \in 1..m /\ n + 1 \in 0..m /\ (n + 1) - 1 = n
      BY <2>2
    <3>2. f[n + 1] = G[f[n]] /\ f[n] \in SUBSET U
      BY <1>2, <3>1
    <3> QED
      BY <1>0, <1>4, <2>2, <3>1, <3>2
  <2>3. \A n \in 0..m : n < m /\ n \in N => n + 1 \in N
    BY <2>2
  <2> HIDE DEF N
  <2>4. 0..m \subseteq N
    BY <2>1, <2>3, InductionUpTo
  <2>5. m \in N
    BY <2>4
  <2> QED
    BY <1>1, <2>5 DEF N
<1>5. S \subseteq L
  <2>1. \A W \in SUBSET U : G[W] \subseteq U
    BY <1>0
  <2> QED
    BY <1>4, <2>1
<1> QED
  BY <1>3, <1>4, <1>5

\* Two functions applied as often keep a relation that they keep once.
KeepsPairs(f, g, R) == \A a, b : <<a, b>> \in R => <<f[a], g[b]>> \in R

\* A relation that each step keeps is kept by any number of steps.
LEMMA LockStep ==
    ASSUME NEW A, NEW B, NEW R \in SUBSET (A \X B), NEW f, NEW g,
           Inside(f, A), Inside(g, B), KeepsPairs(f, g, R),
           NEW n \in Nat, NEW x \in A, NEW y \in B, <<x, y>> \in R
    PROVE  <<Repeated(f, n, x), Repeated(g, n, y)>> \in R
<1>1. PICK s : Applied(s, A, f, n, x) /\ Repeated(f, n, x) = s[n]
  BY Repeating
<1>2. PICK t : Applied(t, B, g, n, y) /\ Repeated(g, n, y) = t[n]
  BY Repeating
<1> DEFINE N == {k \in 0..n : <<s[k], t[k]>> \in R}
<1>3. 0 \in N
  <2>1. s[0] = x /\ t[0] = y /\ 0 \in 0..n
    BY <1>1, <1>2 DEF Applied
  <2> QED
    BY <2>1
<1>4. ASSUME NEW k \in 0..n, k < n, k \in N PROVE k + 1 \in N
  <2>1. k + 1 \in 1..n /\ k + 1 \in 0..n /\ (k + 1) - 1 = k
    BY <1>4
  <2>2. s[k + 1] = f[s[k]] /\ t[k + 1] = g[t[k]]
    BY <1>1, <1>2, <2>1 DEF Applied
  <2> QED
    BY <1>4, <2>1, <2>2 DEF KeepsPairs
<1>5. \A k \in 0..n : k < n /\ k \in N => k + 1 \in N
  BY <1>4
<1> HIDE DEF N
<1>6. 0..n \subseteq N
  BY <1>3, <1>5, InductionUpTo
<1>7. n \in N
  BY <1>6
<1> QED
  BY <1>1, <1>2, <1>7 DEF N

\* What is applied to an element of A leads to one of A.
LEMMA RepeatedInside ==
    ASSUME NEW A, NEW f, Inside(f, A), NEW n \in Nat, NEW x \in A
    PROVE  Repeated(f, n, x) \in A
<1>1. PICK g : Applied(g, A, f, n, x) /\ Repeated(f, n, x) = g[n]
  BY Repeating
<1>2. n \in 0..n
  OBVIOUS
<1> QED
  BY <1>1, <1>2 DEF Applied

\* Reached is closed, and the least closed set around S.
LEMMA ReachedLeast ==
    ASSUME NEW S \in SUBSET Value
    PROVE  /\ Reached(S) \in SUBSET Value /\ S \subseteq Reached(S) /\ ClosedSet(Reached(S))
           /\ \A T : ClosedSet(T) /\ S \subseteq T => Reached(S) \subseteq T
<1> DEFINE G == [W \in SUBSET Value |-> WithUsers(W)]
<1>1. \A W \in SUBSET Value : W \subseteq G[W] /\ G[W] = WithUsers(W)
  BY WithUsersFacts
<1>2. Grows(G, Value)
  BY <1>1, WithUsersFacts DEF Grows
<1>3. Reached(S) = Repeated(G, Cardinality(Value), S) /\ IsFiniteSet(Value)
  BY ValueAssumption DEF Reached
<1> HIDE DEF G
<1>4. /\ Reached(S) \in SUBSET Value /\ S \subseteq Reached(S) /\ G[Reached(S)] = Reached(S)
      /\ \A T : S \subseteq T /\ (\A W \in SUBSET Value : W \subseteq T => G[W] \subseteq T)
                   => Reached(S) \subseteq T
  BY <1>2, <1>3, Growing
<1>5. ClosedSet(Reached(S))
  BY <1>1, <1>4, WithUsersFacts
<1>6. ASSUME NEW T, ClosedSet(T), S \subseteq T
      PROVE  Reached(S) \subseteq T
  <2>1. \A W \in SUBSET Value : W \subseteq T => G[W] \subseteq T
    BY <1>1, <1>6, WithUsersFacts
  <2> QED
    BY <1>4, <1>6, <2>1
<1> QED
  BY <1>4, <1>5, <1>6

(***************************************************************************)
(* What the queue holds.                                                   *)
(***************************************************************************)
\* Where users are marked, a value of the queue has metadata or is a phi node
\* one of whose operands has it.
Marked ==
    \A v \in ToSet(vals) :
        v \in program.meta \/ (IsPhi(v) /\ ToSet(program.ops[v]) \cap program.meta # {})

Held == ToSet(vals) \subseteq Reached(program.meta) /\ Marked

\* The users of a value of the queue that is no phi node may be on it too.
LEMMA HeldVisit ==
    ASSUME UsersMarked, Typed, Held,
           NEW v \in ToSet(vals), ~IsPhi(v), NEW u \in OriginalUsers(v)
    PROVE  /\ u \in Reached(program.meta)
           /\ u \in program.meta \/ (IsPhi(u) /\ ToSet(program.ops[u]) \cap program.meta # {})
<1>1. program \in Programs /\ program.meta \in SUBSET Value
  BY ProgramAssumption DEF Typed
<1>2. u \in Reached(program.meta)
  BY <1>1, ReachedLeast DEF Held, ClosedSet
<1>3. u \in Value /\ v \in Value /\ v \in ToSet(program.ops[u]) /\ v \in program.meta
  BY DEF OriginalUsers, Held, Marked, Typed
<1>4. u \in program.meta \/ program.kind[u] = "phi"
  BY <1>1, <1>3 DEF UsersMarked, IsPhi, Kind
<1> QED
  BY <1>2, <1>3, <1>4 DEF IsPhi, Kind

\* A phi node of the queue is only used by values with metadata.
LEMMA PhiUsersMarked ==
    ASSUME UsersMarked, Typed, Held,
           NEW v \in ToSet(vals), IsPhi(v), NEW u \in OriginalUsers(v)
    PROVE  u \in program.meta
<1>1. program \in Programs /\ u \in Value /\ v \in Value /\ v \in ToSet(program.ops[u])
  BY DEF OriginalUsers, Typed
<1>2. v \in program.meta \/ ToSet(program.ops[v]) \cap program.meta # {}
  BY DEF Held, Marked
<1> QED
  BY <1>1, <1>2 DEF UsersMarked, IsPhi, Kind

\* At first the queue holds what has metadata.
LEMMA HeldInit == Init => Held
<1> SUFFICES ASSUME Init PROVE Held
  OBVIOUS
<1>1. ToSet(vals) = program.meta /\ program.meta \in SUBSET Value
  BY ProgramAssumption, ValueAssumption DEF Init
<1>2. program.meta \subseteq Reached(program.meta)
  BY <1>1, ReachedLeast
<1>3. Marked
  BY <1>1 DEF Marked
<1>4. ToSet(vals) \subseteq Reached(program.meta)
  BY <1>1, <1>2
<1> QED
  BY <1>3, <1>4 DEF Held

\* Every step adds what depends on it only.
LEMMA HeldStep ==
    ASSUME UsersMarked, Typed, Held, [Next]_vars
    PROVE  Held'
<1>1. ASSUME program' = program, ToSet(vals') = ToSet(vals) PROVE Held'
  <2>1. Reached(program.meta)' = Reached(program.meta)
    BY <1>1 DEF Reached, WithUsers, OriginalUsers
  <2>2. Marked'
    BY <1>1 DEF Held, Marked, IsPhi, Kind
  <2> QED
    BY <1>1, <2>1, <2>2 DEF Held
<1>2. CASE SortNext
  <2>1. PICK v, us : Visited(v, us)
    BY <1>2, SortVisits
  <2>2. /\ v \in ToSet(vals) /\ ToSet(us) = (IF IsPhi(v) THEN {} ELSE OriginalUsers(v))
        /\ ToSet(vals') = ToSet(vals) \cup ToSet(us)
    BY <2>1 DEF Visited
  <2>3. \A x \in ToSet(vals') :
           /\ x \in Reached(program.meta)
           /\ x \in program.meta \/ (IsPhi(x) /\ ToSet(program.ops[x]) \cap program.meta # {})
    BY <2>2, HeldVisit DEF Held, Marked
  <2>4. program' = program
    BY <1>2 DEF SortNext
  <2>5. Reached(program.meta)' = Reached(program.meta)
    BY <2>4 DEF Reached, WithUsers, OriginalUsers
  <2> QED
    BY <2>3, <2>4, <2>5 DEF Held, Marked, IsPhi, Kind
<1>3. CASE FinishSort
  BY <1>1, <1>3 DEF FinishSort
<1>4. CASE ConvertNext
  BY <1>1, <1>4 DEF ConvertNext
<1>5. CASE FinishConversion
  BY <1>1, <1>5 DEF FinishConversion
<1>6. CASE ClosePhiLoops
  BY <1>1, <1>6 DEF ClosePhiLoops
<1>7. CASE Cleanup
  BY <1>1, <1>7 DEF Cleanup
<1>8. CASE UNCHANGED vars
  BY <1>1, <1>8 DEF vars
<1> QED
  BY <1>2, <1>3, <1>4, <1>5, <1>6, <1>7, <1>8 DEF Next, Step, Finished

-----------------------------------------------------------------------------
(***************************************************************************)
(* What values were traced back to.  A root still has roots of its own     *)
(* only while a value that leads to what was traced to it is to come.      *)
(***************************************************************************)
\* A path from x to w, through users of values that are no phi nodes.
Carries(T) == \A y \in T : ~IsPhi(y) => OriginalUsers(y) \subseteq T
Leads(x, w) == \A T \in SUBSET Value : x \in T /\ Carries(T) => w \in T

RootsTraced ==
    \A w \in Value : \A r \in roots[w] : r \in ToSet(vals) /\ Leads(r, w)

RootsSettled ==
    IF phase = "sort"
    THEN \A k \in 1..next - 1 : \A r \in roots[vals[k]] :
            roots[r] = {} \/ \E x \in ToSet(vals) : ToCome(x) /\ Leads(x, vals[k])
    ELSE \A v \in ToSet(vals) : \A r \in roots[v] : roots[r] = {r}

Traced == (phase = "sort" => RootsTraced) /\ RootsSettled

\* A path can be one value long.
LEMMA LeadsToItself == \A x : Leads(x, x)
BY DEF Leads

\* A path that ends in a value that is no phi node goes on to its users.
LEMMA LeadsOn ==
    ASSUME NEW x, NEW v, Leads(x, v), ~IsPhi(v), NEW u \in OriginalUsers(v)
    PROVE  Leads(x, u)
BY DEF Leads, Carries

\* A path from v to another value goes through a user of v, and v is no phi node.
LEMMA LeadsThrough ==
    ASSUME NEW v \in Value, NEW w \in Value, Leads(v, w), v # w
    PROVE  ~IsPhi(v) /\ \E u \in OriginalUsers(v) : Leads(u, w)
<1>1. ~IsPhi(v)
  <2> SUFFICES ASSUME IsPhi(v) PROVE FALSE
    OBVIOUS
  <2>1. {v} \in SUBSET Value /\ v \in {v} /\ Carries({v}) /\ w \notin {v}
    BY DEF Carries
  <2> QED
    BY <2>1 DEF Leads
<1>2. \E u \in OriginalUsers(v) : Leads(u, w)
  <2> SUFFICES ASSUME \A u \in OriginalUsers(v) : ~Leads(u, w) PROVE FALSE
    OBVIOUS
  <2> DEFINE T == {y \in Value : y = v \/ \E u \in OriginalUsers(v) : Leads(u, y)}
  <2>1. OriginalUsers(v) \subseteq Value /\ \A y : OriginalUsers(y) \subseteq Value
    BY DEF OriginalUsers
  <2>2. OriginalUsers(v) \subseteq T
    BY <2>1, LeadsToItself
  <2>3. ASSUME NEW y \in T, ~IsPhi(y), NEW z \in OriginalUsers(y) PROVE z \in T
    <3>1. CASE y = v
      BY <2>2, <2>3, <3>1
    <3>2. CASE y # v
      <4>1. PICK u \in OriginalUsers(v) : Leads(u, y)
        BY <2>3, <3>2
      <4>2. Leads(u, z)
        BY <2>3, <4>1, LeadsOn
      <4> QED
        BY <2>1, <2>3, <4>2
    <3> QED
      BY <3>1, <3>2
  <2>4. Carries(T)
    BY <2>3 DEF Carries
  <2>5. T \in SUBSET Value /\ v \in T /\ w \notin T
    BY <2>1
  <2> HIDE DEF T
  <2> QED
    BY <2>4, <2>5 DEF Leads
<1> QED
  BY <1>1, <1>2

\* A visit settles the roots of the value visited.
LEMMA TracedVisit ==
    ASSUME Typed, Traced, SortNext
    PROVE  Traced'
<1>0. PICK v, us : Visited(v, us)
  BY SortVisits
<1> PICK q, n, r, m : q = vals /\ n = next /\ r = vals' /\ m = next'
  OBVIOUS
<1> PICK rs : rs = StillRoots(v)
  OBVIOUS
<1> PICK from : from = IF rs = {} THEN {v} ELSE rs
  OBVIOUS
<1>1. /\ v = q[n] /\ n \in 1..Len(q) /\ v \in ToSet(q) /\ v \in Value
      /\ ToSet(us) = (IF IsPhi(v) THEN {} ELSE OriginalUsers(v)) /\ v \notin ToSet(us)
      /\ ToSet(us) \subseteq Value
      /\ ToSet(r) = ToSet(q) \cup ToSet(us) /\ m \in 1..Len(r) + 1
      /\ \A k \in 1..m - 1 : \E i \in 1..n : q[i] = r[k] /\ q[i] \notin ToSet(us)
      /\ \A u \in ToSet(us) : ToCome(u)'
      /\ \A j \in n + 1..Len(q) : \A x : x = q[j] => ToCome(x)'
  BY <1>0 DEF Visited
<1>2. /\ roots' = [w \in Value |-> IF w = v THEN rs
                                   ELSE IF w \in ToSet(us) THEN roots[w] \cup from
                                   ELSE roots[w]]
      /\ rs = {x \in roots[v] : roots[x] = {}} /\ from # {}
  BY <1>0 DEF Visited, Visit, StillRoots
<1>3. (\A x, y : Leads(x, y)' = Leads(x, y)) /\ phase = "sort" /\ phase' = "sort"
  BY DEF SortNext, Leads, Carries, IsPhi, Kind, OriginalUsers
<1>4. /\ \A w \in Value : \A x \in roots[w] : x \in ToSet(q) /\ Leads(x, w) /\ x \in Value
      /\ \A k \in 1..n - 1 : \A x \in roots[q[k]] :
            roots[x] = {} \/ \E y \in ToSet(q) : ToCome(y) /\ Leads(y, q[k])
  BY <1>3 DEF Traced, RootsTraced, RootsSettled, Typed
<1>5. ASSUME NEW w \in Value, NEW x \in roots'[w] PROVE x \in ToSet(r) /\ Leads(x, w)
  <2>1. CASE w = v
    BY <1>1, <1>2, <1>4, <1>5, <2>1
  <2>2. CASE w # v /\ w \in ToSet(us)
    <3>1. ~IsPhi(v) /\ w \in OriginalUsers(v)
      BY <1>1, <2>2
    <3>2. x \in roots[w] \/ x \in from
      BY <1>2, <1>5, <2>2
    <3>3. CASE x \in roots[w]
      BY <1>1, <1>4, <3>3
    <3>4. CASE x \in from
      <4>1. Leads(x, v) /\ x \in ToSet(q)
        BY <1>1, <1>2, <1>4, <3>4, LeadsToItself
      <4> QED
        BY <1>1, <3>1, <4>1, LeadsOn
    <3> QED
      BY <3>2, <3>3, <3>4
  <2>3. CASE w # v /\ w \notin ToSet(us)
    BY <1>1, <1>2, <1>4, <1>5, <2>3
  <2> QED
    BY <2>1, <2>2, <2>3
<1>6. ASSUME NEW w \in Value, NEW x \in Value, roots[x] = {}, Leads(x, w)
      PROVE  roots'[x] = {} \/ x \in ToSet(us)
  BY <1>1, <1>2, <1>6
<1>7. ASSUME NEW k \in 1..m - 1, NEW x \in roots'[r[k]]
      PROVE  roots'[x] = {} \/ \E y \in ToSet(r) : ToCome(y)' /\ Leads(y, r[k])
  <2>1. PICK i \in 1..n : q[i] = r[k] /\ q[i] \notin ToSet(us)
    BY <1>1
  <2>2. q[i] \in Value /\ i \in 1..Len(q) /\ \A j \in 1..Len(q) : q[i] = q[j] => i = j
    <3>1. i \in 1..Len(q) /\ Len(q) \in Nat /\ q \in Queues
      BY <1>1, QueueFacts DEF Typed
    <3> QED
      BY <3>1, QueueFacts
  <2>3. CASE i = n
    <3>1. x \in roots[v] /\ roots[x] = {} /\ r[k] = v
      BY <1>1, <1>2, <1>7, <2>1, <2>3
    <3>2. Leads(x, v) /\ x \in Value
      BY <1>1, <1>4, <3>1
    <3> QED
      BY <1>1, <1>6, <3>1, <3>2
  <2>4. CASE i # n
    <3>1. i \in 1..n - 1 /\ q[i] # v
      BY <1>1, <2>2, <2>4
    <3>2. x \in roots[q[i]]
      BY <1>2, <1>7, <2>1, <2>2, <3>1
    <3>3. Leads(x, q[i]) /\ x \in Value
      BY <1>4, <2>2, <3>2
    <3>4. CASE roots[x] = {}
      BY <1>1, <1>6, <2>1, <2>2, <3>3, <3>4
    <3>5. CASE roots[x] # {}
      <4>1. PICK y \in ToSet(q) : ToCome(y) /\ Leads(y, q[i])
        BY <1>4, <3>1, <3>2, <3>5
      <4>2. PICK j \in n..Len(q) : q[j] = y
        BY <4>1 DEF ToCome
      <4>3. CASE j = n
        <5>1. ~IsPhi(v) /\ \E u \in OriginalUsers(v) : Leads(u, q[i])
          BY <1>1, <2>2, <3>1, <4>1, <4>2, <4>3, LeadsThrough
        <5> QED
          BY <1>1, <2>1, <5>1
      <4>4. CASE j # n
        <5>1. j \in n + 1..Len(q)
          BY <1>1, <4>2, <4>4
        <5>2. ToCome(y)'
          BY <1>1, <4>2, <5>1
        <5> QED
          BY <1>1, <2>1, <4>1, <5>2
      <4> QED
        BY <4>3, <4>4
    <3> QED
      BY <3>4, <3>5
  <2> QED
    BY <2>3, <2>4
<1>8. RootsTraced'
  BY <1>3, <1>5 DEF RootsTraced
<1>9. RootsSettled'
  <2>1. \A k \in 1..next' - 1 : \A x \in roots'[vals'[k]] :
            roots'[x] = {} \/ \E y \in ToSet(vals') : ToCome(y)' /\ Leads(y, vals'[k])
    BY <1>7
  <2>2. \A x, k : Leads(x, vals[k])' = Leads(x, vals'[k])
    BY DEF SortNext, Leads, Carries, IsPhi, Kind, OriginalUsers
  <2> QED
    BY <1>3, <2>1, <2>2 DEF RootsSettled
<1> QED
  BY <1>8, <1>9 DEF Traced

\* Every step keeps what values were traced back to.
LEMMA TracedStep ==
    ASSUME Typed, Traced, [Next]_vars
    PROVE  Traced'
<1>1. CASE SortNext
  BY <1>1, TracedVisit
<1>2. CASE FinishSort
  <2>1. /\ next > Len(vals) /\ next \in 1..Len(vals) + 1 /\ Len(vals) \in Nat
        /\ ToSet(vals) = {vals[k] : k \in 1..Len(vals)} /\ ToSet(vals) \subseteq Value
    BY <1>2, QueueFacts DEF FinishSort, Typed
  <2>2. ASSUME NEW v \in ToSet(vals), NEW r \in roots[v] PROVE roots[r] = {} /\ r \in ToSet(vals)
    <3>1. PICK k \in 1..Len(vals) : vals[k] = v
      BY <2>1
    <3>2. k \in 1..next - 1 /\ ~\E x : ToCome(x)
      BY <2>1 DEF ToCome
    <3>3. roots[r] = {}
      BY <1>2, <2>2, <3>1, <3>2 DEF FinishSort, Traced, RootsSettled
    <3>4. r \in ToSet(vals)
      BY <1>2, <2>1, <2>2 DEF FinishSort, Traced, RootsTraced
    <3> QED
      BY <3>3, <3>4
  <2>3. roots' = [v \in Value |-> IF v \in ToSet(vals) /\ roots[v] = {} THEN {v} ELSE roots[v]]
        /\ phase' = "convert" /\ vals' = vals
    BY <1>2 DEF FinishSort
  <2>4. ASSUME NEW v \in ToSet(vals), NEW r \in roots'[v] PROVE roots'[r] = {r}
    <3>1. CASE roots[v] = {}
      BY <2>1, <2>3, <2>4, <3>1
    <3>2. CASE roots[v] # {}
      <4>1. r \in roots[v]
        BY <2>1, <2>3, <2>4, <3>2
      <4> QED
        BY <2>1, <2>2, <2>3, <4>1
    <3> QED
      BY <3>1, <3>2
  <2> QED
    BY <2>3, <2>4 DEF Traced, RootsSettled
<1>3. ASSUME vals' = vals, roots' = roots, phase # "sort", phase' # "sort" PROVE Traced'
  BY <1>3 DEF Traced, RootsSettled
<1>4. CASE ConvertNext
  BY <1>3, <1>4 DEF ConvertNext
<1>5. CASE FinishConversion
  BY <1>3, <1>5 DEF FinishConversion
<1>6. CASE ClosePhiLoops
  BY <1>3, <1>6 DEF ClosePhiLoops
<1>7. CASE Cleanup
  BY <1>3, <1>7 DEF Cleanup
<1>8. CASE UNCHANGED vars
  BY <1>8 DEF vars, Traced, RootsTraced, RootsSettled, ToCome, Leads, Carries, IsPhi, Kind,
              OriginalUsers
<1> QED
  BY <1>1, <1>2, <1>4, <1>5, <1>6, <1>7, <1>8 DEF Next, Step, Finished

\* Nothing has roots at first.
LEMMA TracedInit == Init => Traced
BY DEF Init, Traced, RootsTraced, RootsSettled

\* A queue is as long as it has values.
LEMMA QueueSize ==
    ASSUME NEW q \in Queues
    PROVE  Cardinality(ToSet(q)) = Len(q)
<1> PICK n \in Nat : n = Len(q)
  BY QueueFacts
<1>1. ToSet(q) = {q[i] : i \in 1..n} /\ \A i, j \in 1..n : q[i] = q[j] => i = j
  BY QueueFacts
<1> DEFINE S == ToSet(q)
           f == [i \in 1..n |-> q[i]]
<1>2. f \in Bijection(1..n, S)
  <2>1. f \in [1..n -> S] /\ \A i, j \in 1..n : f[i] = f[j] => i = j
    BY <1>1
  <2>2. \A t \in S : \E i \in 1..n : f[i] = t
    BY <1>1
  <2> HIDE DEF f, S
  <2> QED
    BY <2>1, <2>2, Fun_IsBij
<1>3. ExistsBijection(1..n, S)
  BY <1>2, Zenon DEF ExistsBijection
<1>4. IsFiniteSet(1..n) /\ Cardinality(1..n) = n
  BY NumbersUpTo
<1> HIDE DEF S
<1>5. Cardinality(S) = n
  BY <1>3, <1>4, FS_Bijection
<1> QED
  BY <1>5 DEF S

\* When the queue is sorted, the invariants above are what it should be.
LEMMA SortedIsOrdered ==
    ASSUME UsersMarked, Typed, Ordered, Held, Traced
    PROVE  QueueOrdered
<1> SUFFICES ASSUME phase # "sort" PROVE QueueOrdered
  BY DEF QueueOrdered
<1>0. /\ vals \in Queues /\ program.meta \in SUBSET Value
      /\ DOMAIN vals = 1..Len(vals) /\ Len(vals) \in Nat
      /\ ToSet(vals) = {vals[i] : i \in 1..Len(vals)} /\ ToSet(vals) \subseteq Value
      /\ \A i, j \in 1..Len(vals) : vals[i] = vals[j] => i = j
  BY QueueFacts, ProgramAssumption DEF Typed
<1>1. ASSUME NEW i \in 1..Len(vals), ~IsPhi(vals[i]), NEW u \in OriginalUsers(vals[i])
      PROVE  \E j \in 1..Len(vals) : vals[j] = u /\ i < j
  <2>1. PICK j \in i + 1..Len(vals) : vals[j] = u
    BY <1>1 DEF Ordered, UsersAfter, Done, Behind
  <2> QED
    BY <1>0, <2>1
<1>2. ClosedSet(ToSet(vals))
  <2> SUFFICES ASSUME NEW v \in ToSet(vals), NEW u \in OriginalUsers(v) PROVE u \in ToSet(vals)
    BY DEF ClosedSet
  <2>1. CASE IsPhi(v)
    BY <2>1, PhiUsersMarked DEF Ordered, Reasons
  <2>2. CASE ~IsPhi(v)
    BY <1>0, <1>1, <2>2
  <2> QED
    BY <2>1, <2>2
<1>3. program.meta \subseteq ToSet(vals)
  BY DEF Ordered, Reasons
<1>4. ToSet(vals) = Reached(program.meta)
  BY <1>0, <1>2, <1>3, ReachedLeast DEF Held
<1>5. Cardinality(ToSet(vals)) = Len(vals)
  BY <1>0, QueueSize
<1>6. \A i, j \in DOMAIN vals :
         ~IsPhi(vals[i]) /\ vals[j] \in OriginalUsers(vals[i]) => i < j
  BY <1>0, <1>1
<1>7. \A v \in ToSet(vals) : \A r \in roots[v] : roots[r] = {r}
  BY DEF Traced, RootsSettled
<1> QED
  BY <1>4, <1>5, <1>6, <1>7 DEF QueueOrdered

\* Theorem: where what uses a value with metadata has it too, or is a phi node,
\* the sorted queue holds every value that depends on one with metadata, once
\* and before its users, and every root is a root of itself alone.
THEOREM QueueStaysOrdered == UsersMarked => (Spec => []QueueOrdered)
<1> SUFFICES ASSUME UsersMarked PROVE Spec => []QueueOrdered
  OBVIOUS
<1> DEFINE Inv == Typed /\ Ordered /\ Held /\ Traced
<1>1. Init => Inv
  BY TypedInit, OrderedInit, HeldInit, TracedInit
<1>2. Inv /\ [Next]_vars => Inv'
  BY TypedStep, OrderedStep, HeldStep, TracedStep
<1>3. Inv => QueueOrdered
  BY SortedIsOrdered
<1> HIDE DEF Inv
<1> QED
  BY <1>1, <1>2, <1>3, PTL DEF Spec

-----------------------------------------------------------------------------
(***************************************************************************)
(* Why values fail to convert.                                             *)
(***************************************************************************)
Filled == phase = "convert" => \A i \in 1..next - 1 : operandPool[vals[i]] # None

Explained == FailuresExplained /\ Filled

\* A phi node none of whose operands was converted has one that failed.
LEMMA UnmatchedFailed ==
    ASSUME Typed, Ordered, Filled, phase = "convert",
           NEW v, next \in 1..Len(vals), v = vals[next], AsWritten(v), Unmatched(v)
    PROVE  FailedOperand(v)
<1>0. /\ vals \in Queues /\ Len(vals) \in Nat
      /\ ToSet(vals) = {vals[i] : i \in 1..Len(vals)} /\ ToSet(vals) \subseteq Value
      /\ \A i, j \in 1..Len(vals) : vals[i] = vals[j] => i = j
  BY QueueFacts DEF Typed
<1>1. v \in ToSet(vals) \ program.meta
  BY <1>0 DEF Unmatched, Ordered, Reasons
<1>2. PICK x \in ToSet(vals) : ~IsPhi(x) /\ v \in OriginalUsers(x)
  BY <1>1 DEF Ordered, Reasons
<1>3. PICK k \in 1..Len(vals) : vals[k] = x
  BY <1>0
<1>4. PICK l \in k + 1..Len(vals) : vals[l] = v
  BY <1>2, <1>3 DEF Ordered, UsersAfter, Done, Behind
<1>5. l = next /\ k \in 1..next - 1
  BY <1>0, <1>4
<1>6. operandPool[x] # None /\ x \in Value
  BY <1>0, <1>3, <1>5 DEF Filled
<1>7. PICK j \in DOMAIN program.ops[v] : program.ops[v][j] = x
  BY <1>2 DEF OriginalUsers, ToSet
<1>8. Ops(v)[j] \in AsInProgram(x) /\ ~Matched(Ops(v)[j])
  BY <1>7 DEF AsWritten, Unmatched
<1>9. operandPool[x] = ConversionError
  BY <1>2, <1>6, <1>8, OperandConverted DEF Typed
<1> QED
  BY <1>6, <1>7, <1>9 DEF FailedOperand

\* Converting a value explains its failure.
LEMMA ExplainedConvert ==
    ASSUME Typed, Ordered, Explained, ConvertNext
    PROVE  Explained'
<1> PICK v : v = vals[next]
  OBVIOUS
<1>0. /\ next \in 1..Len(vals) /\ v \in Value /\ AsWritten(v) /\ operandPool[v] = None
      /\ Outcome(v) /\ next' = next + 1 /\ vals' = vals /\ program' = program
      /\ phase = "convert" /\ operandPool \in [Value -> PoolT]
  BY TypedConvert DEF ConvertNext, Typed
<1>1. PICK x : Recorded(v, x) /\ x # None /\ (x # ConversionError \/ MayFail(v))
  <2>1. ASSUME NEW x \in Versions(v) PROVE x # None /\ x # ConversionError
    <3>1. x.role \in {"old", "new"}
      BY <1>0, <2>1, ValueAssumption, OperandFields DEF Versions, Old, New, Roles
    <3> QED
      BY <3>1, PoolTyped
  <2> QED
    BY <1>0, <2>1, PoolTyped DEF Outcome
<1>2. operandPool' = [operandPool EXCEPT ![v] = x]
  BY <1>1 DEF Recorded
<1>3. Filled'
  <2> SUFFICES ASSUME NEW i \in 1..next PROVE operandPool'[vals[i]] # None
    BY <1>0 DEF Filled
  <2>1. CASE i = next
    BY <1>0, <1>1, <1>2, <2>1
  <2>2. CASE i # next
    <3>1. i \in 1..next - 1 /\ i \in 1..Len(vals)
      BY <1>0, <2>2, QueueFacts DEF Typed
    <3>2. operandPool[vals[i]] # None /\ vals[i] \in Value
      BY <1>0, <3>1, QueueFacts DEF Explained, Filled, Typed
    <3> QED
      BY <1>0, <1>1, <1>2, <3>2
  <2> QED
    BY <2>1, <2>2
<1>4. Failed' = IF x = ConversionError THEN Failed \cup {v} ELSE Failed
  BY <1>0, <1>2, PoolTyped DEF Failed
<1> PICK F : F = program.unfit \cap Failed
  OBVIOUS
<1> PICK F1 : F1 = program.unfit \cap Failed'
  OBVIOUS
<1>5. F \in SUBSET Value /\ F1 \in SUBSET Value /\ F \subseteq F1
  BY <1>0, <1>4 DEF Failed
<1>6. ClosedSet(Reached(F1)) /\ Failed \subseteq Reached(F1) /\ F1 \subseteq Reached(F1)
  <2>1. Failed \subseteq Reached(F)
    BY DEF Explained, FailuresExplained
  <2>2. F \subseteq Reached(F1) /\ ClosedSet(Reached(F1)) /\ F1 \subseteq Reached(F1)
    BY <1>5, ReachedLeast
  <2>3. Reached(F) \subseteq Reached(F1)
    BY <1>5, <2>2, ReachedLeast
  <2> QED
    BY <2>1, <2>2, <2>3
<1>7. ASSUME x = ConversionError PROVE v \in Reached(F1)
  <2>1. v \in program.unfit \/ FailedOperand(v)
    BY <1>0, <1>1, <1>7, UnmatchedFailed DEF MayFail, Explained
  <2>2. CASE v \in program.unfit
    BY <1>4, <1>6, <1>7, <2>2
  <2>3. CASE FailedOperand(v)
    <3>1. PICK k \in DOMAIN program.ops[v] :
              program.ops[v][k] \in Value /\ operandPool[program.ops[v][k]] = ConversionError
      BY <2>3 DEF FailedOperand
    <3>2. PICK w : w = program.ops[v][k]
      OBVIOUS
    <3>3. w \in Failed /\ v \in OriginalUsers(w)
      BY <1>0, <3>1, <3>2 DEF Failed, OriginalUsers, ToSet
    <3> QED
      BY <1>6, <3>3 DEF ClosedSet
  <2> QED
    BY <2>1, <2>2, <2>3
<1>8. Failed' \subseteq Reached(F1)
  BY <1>4, <1>6, <1>7
<1>9. Reached(program.unfit \cap Failed)' = Reached(F1)
  BY <1>0 DEF Reached, WithUsers, OriginalUsers
<1> QED
  BY <1>3, <1>8, <1>9 DEF Explained, FailuresExplained

\* Every step keeps failures explained.
LEMMA ExplainedStep ==
    ASSUME Typed, Ordered, Explained, [Next]_vars
    PROVE  Explained'
<1>1. ASSUME program' = program, operandPool' = operandPool, Filled' PROVE Explained'
  <2>1. Failed' = Failed
    BY <1>1 DEF Failed
  <2>2. Reached(program.unfit \cap Failed)' = Reached(program.unfit \cap Failed)
    BY <1>1, <2>1 DEF Reached, WithUsers, OriginalUsers
  <2> QED
    BY <1>1, <2>1, <2>2 DEF Explained, FailuresExplained
<1>2. CASE SortNext
  BY <1>1, <1>2 DEF SortNext, Filled
<1>3. CASE FinishSort
  BY <1>1, <1>3 DEF FinishSort, Filled
<1>4. CASE ConvertNext
  BY <1>4, ExplainedConvert
<1>5. CASE FinishConversion
  BY <1>1, <1>5 DEF FinishConversion, Filled
<1>6. CASE ClosePhiLoops
  BY <1>1, <1>6 DEF ClosePhiLoops, Filled
<1>7. CASE Cleanup
  BY <1>1, <1>7 DEF Cleanup, Filled
<1>8. CASE UNCHANGED vars
  BY <1>1, <1>8 DEF vars, Explained, Filled
<1> QED
  BY <1>2, <1>3, <1>4, <1>5, <1>6, <1>7, <1>8 DEF Next, Step, Finished

\* Nothing has failed at first.
LEMMA ExplainedInit == Init => Explained
<1> SUFFICES ASSUME Init PROVE Explained
  OBVIOUS
<1>1. Failed = {}
  BY PoolTyped DEF Init, Failed
<1> QED
  BY <1>1 DEF Init, Explained, FailuresExplained, Filled

\* Theorem: a value fails to convert only when it is a call with unfit arguments
\* or depends on one that failed.
THEOREM FailuresStayExplained == Spec => []FailuresExplained
<1> DEFINE Inv == Typed /\ Ordered /\ Explained
<1>1. Init => Inv
  BY TypedInit, OrderedInit, ExplainedInit
<1>2. Inv /\ [Next]_vars => Inv'
  BY TypedStep, OrderedStep, ExplainedStep
<1>3. Inv => FailuresExplained
  BY DEF Explained
<1> HIDE DEF Inv
<1> QED
  BY <1>1, <1>2, <1>3, PTL DEF Spec

-----------------------------------------------------------------------------
(***************************************************************************)
(* What a value hands on to its users.  Those that it still has to take    *)
(* their roots from are yet to come, or lead from a value that is.         *)
(***************************************************************************)
From(w) == IF roots[w] = {} THEN {w} ELSE roots[w]

HandedOn ==
    IF phase = "sort"
    THEN \A k \in 1..next - 1 : ~IsPhi(vals[k]) =>
            \A u \in OriginalUsers(vals[k]) :
               \/ From(vals[k]) \subseteq roots[u]
               \/ \E x \in ToSet(vals) : ToCome(x) /\ Leads(x, vals[k])
    ELSE \A v \in ToSet(vals) :
            roots[v] # {} /\ (~IsPhi(v) => \A u \in OriginalUsers(v) : roots[v] \subseteq roots[u])

\* A visit hands the roots of the value visited on, and does not take back what
\* was handed on before.
LEMMA HandedOnVisit ==
    ASSUME Typed, Traced, HandedOn, SortNext
    PROVE  HandedOn'
<1>0. PICK v, us : Visited(v, us)
  BY SortVisits
<1> PICK q, n, r, m : q = vals /\ n = next /\ r = vals' /\ m = next'
  OBVIOUS
<1> PICK rs : rs = StillRoots(v)
  OBVIOUS
<1> PICK from : from = IF rs = {} THEN {v} ELSE rs
  OBVIOUS
<1>1. /\ v = q[n] /\ n \in 1..Len(q) /\ v \in ToSet(q) /\ v \in Value
      /\ ToSet(us) = (IF IsPhi(v) THEN {} ELSE OriginalUsers(v)) /\ v \notin ToSet(us)
      /\ ToSet(us) \subseteq Value
      /\ ToSet(r) = ToSet(q) \cup ToSet(us) /\ m \in 1..Len(r) + 1
      /\ \A k \in 1..m - 1 : \E i \in 1..n : q[i] = r[k] /\ q[i] \notin ToSet(us)
      /\ \A u \in ToSet(us) : ToCome(u)'
      /\ \A j \in n + 1..Len(q) : \A x : x = q[j] => ToCome(x)'
  BY <1>0 DEF Visited
<1>2. /\ roots' = [w \in Value |-> IF w = v THEN rs
                                   ELSE IF w \in ToSet(us) THEN roots[w] \cup from
                                   ELSE roots[w]]
      /\ rs = {x \in roots[v] : roots[x] = {}}
  BY <1>0 DEF Visited, Visit, StillRoots
<1>3. (\A x, y : Leads(x, y)' = Leads(x, y)) /\ phase = "sort" /\ phase' = "sort"
      /\ (\A x : IsPhi(x)' = IsPhi(x)) /\ \A x : OriginalUsers(x)' = OriginalUsers(x)
  BY DEF SortNext, Leads, Carries, IsPhi, Kind, OriginalUsers
<1>4. /\ \A k \in 1..n - 1 : \A x \in roots[q[k]] :
            roots[x] = {} \/ \E y \in ToSet(q) : ToCome(y) /\ Leads(y, q[k])
      /\ \A k \in 1..n - 1 : ~IsPhi(q[k]) => \A u \in OriginalUsers(q[k]) :
            From(q[k]) \subseteq roots[u] \/ \E y \in ToSet(q) : ToCome(y) /\ Leads(y, q[k])
  BY <1>3 DEF Traced, RootsSettled, HandedOn
<1>5. ASSUME NEW k \in 1..m - 1, ~IsPhi(r[k]), NEW u \in OriginalUsers(r[k])
      PROVE  From(r[k])' \subseteq roots'[u] \/ \E y \in ToSet(r) : ToCome(y)' /\ Leads(y, r[k])
  <2> PICK w : w = r[k]
    OBVIOUS
  <2>1. PICK i \in 1..n : q[i] = w /\ w \notin ToSet(us)
    BY <1>1
  <2>2. w \in Value /\ i \in 1..Len(q) /\ u \in Value /\ \A j \in 1..Len(q) : w = q[j] => i = j
    <3>1. i \in 1..Len(q) /\ Len(q) \in Nat /\ q \in Queues
      BY <1>1, QueueFacts DEF Typed
    <3> QED
      BY <1>5, <2>1, <3>1, QueueFacts DEF OriginalUsers
  <2>3. CASE i = n
    <3>1. w = v /\ u \in ToSet(us) /\ u # v
      BY <1>1, <1>5, <2>1, <2>3
    <3>2. From(v)' = from
      BY <1>1, <1>2 DEF From
    <3> QED
      BY <1>2, <2>2, <3>1, <3>2
  <2>4. CASE i # n
    <3>1. i \in 1..n - 1 /\ w # v
      BY <1>1, <2>1, <2>2, <2>4
    <3>2. From(w)' = From(w)
      BY <1>2, <2>1, <2>2, <3>1 DEF From
    <3>3. ASSUME NEW y \in ToSet(q), ToCome(y), Leads(y, w)
          PROVE  \E z \in ToSet(r) : ToCome(z)' /\ Leads(z, w)
      <4>1. PICK j \in n..Len(q) : q[j] = y
        BY <3>3 DEF ToCome
      <4>2. CASE j = n
        <5>1. ~IsPhi(v) /\ \E z \in OriginalUsers(v) : Leads(z, w)
          BY <1>1, <2>2, <3>1, <3>3, <4>1, <4>2, LeadsThrough
        <5> QED
          BY <1>1, <5>1
      <4>3. CASE j # n
        <5>1. j \in n + 1..Len(q)
          BY <1>1, <4>1, <4>3
        <5>2. ToCome(y)'
          BY <1>1, <4>1, <5>1
        <5> QED
          BY <1>1, <3>3, <5>2
      <4> QED
        BY <4>2, <4>3
    <3>4. CASE \E y \in ToSet(q) : ToCome(y) /\ Leads(y, w)
      BY <3>3, <3>4
    <3>5. CASE ~\E y \in ToSet(q) : ToCome(y) /\ Leads(y, w)
      <4>1. From(w) \subseteq roots[u] /\ \A x \in roots[w] : roots[x] = {}
        BY <1>4, <1>5, <2>1, <3>1, <3>5
      <4>2. \A x \in From(w) : roots[x] = {}
        BY <4>1 DEF From
      <4>3. CASE u = v
        BY <1>2, <2>2, <3>2, <4>1, <4>2, <4>3
      <4>4. CASE u # v
        <5>1. roots[u] \subseteq roots'[u]
          BY <1>2, <2>2, <4>4
        <5> QED
          BY <3>2, <4>1, <5>1
      <4> QED
        BY <4>3, <4>4
    <3> QED
      BY <3>4, <3>5
  <2> QED
    BY <2>3, <2>4
<1>6. \A x, k : Leads(x, vals[k])' = Leads(x, vals'[k])
  BY DEF SortNext, Leads, Carries, IsPhi, Kind, OriginalUsers
<1>7. \A k : /\ From(vals[k])' = From(r[k])' /\ IsPhi(vals[k])' = IsPhi(r[k])
             /\ OriginalUsers(vals[k])' = OriginalUsers(r[k])
  BY DEF SortNext, From, IsPhi, Kind, OriginalUsers
<1> QED
  BY <1>3, <1>5, <1>6, <1>7 DEF HandedOn

\* Once sorted, every value has roots, and its users have them too.
LEMMA HandedOnFinish ==
    ASSUME Typed, HandedOn, FinishSort
    PROVE  HandedOn'
<1>1. /\ next > Len(vals) /\ next \in 1..Len(vals) + 1 /\ Len(vals) \in Nat
      /\ ToSet(vals) = {vals[k] : k \in 1..Len(vals)} /\ ToSet(vals) \subseteq Value
  BY QueueFacts DEF FinishSort, Typed
<1>2. roots' = [v \in Value |-> IF v \in ToSet(vals) /\ roots[v] = {} THEN {v} ELSE roots[v]]
      /\ phase = "sort" /\ phase' = "convert" /\ vals' = vals /\ program' = program
  BY DEF FinishSort
<1>3. (\A x : IsPhi(x)' = IsPhi(x)) /\ \A x : OriginalUsers(x)' = OriginalUsers(x)
  BY <1>2 DEF IsPhi, Kind, OriginalUsers
<1>4. ASSUME NEW v \in ToSet(vals), ~IsPhi(v), NEW u \in OriginalUsers(v)
      PROVE  roots'[v] \subseteq roots'[u]
  <2>1. PICK k \in 1..Len(vals) : vals[k] = v
    BY <1>1
  <2>2. k \in 1..next - 1 /\ ~\E x : ToCome(x)
    BY <1>1 DEF ToCome
  <2>3. From(v) \subseteq roots[u]
    BY <1>2, <1>4, <2>1, <2>2 DEF HandedOn
  <2>4. roots'[v] = From(v) /\ u \in Value
    BY <1>1, <1>2, <1>4 DEF From, OriginalUsers
  <2> QED
    BY <1>2, <2>3, <2>4
<1>5. \A v \in ToSet(vals) : roots'[v] # {}
  BY <1>1, <1>2
<1> QED
  BY <1>2, <1>3, <1>4, <1>5 DEF HandedOn

\* Every step keeps what was handed on.
LEMMA HandedOnStep ==
    ASSUME Typed, Traced, HandedOn, [Next]_vars
    PROVE  HandedOn'
<1>1. ASSUME vals' = vals, roots' = roots, program' = program, phase # "sort", phase' # "sort"
      PROVE  HandedOn'
  BY <1>1 DEF HandedOn, IsPhi, Kind, OriginalUsers
<1>2. CASE UNCHANGED vars
  BY <1>2 DEF vars, HandedOn, From, ToCome, Leads, Carries, IsPhi, Kind, OriginalUsers
<1> QED
  BY <1>1, <1>2, HandedOnVisit, HandedOnFinish
     DEF Next, Step, Finished, ConvertNext, FinishConversion, ClosePhiLoops, Cleanup

(***************************************************************************)
(* The code once the queue is sorted: the uses of the phi nodes of the     *)
(* queue are replaced by placeholders, and no others.                      *)
(***************************************************************************)
AsRead(w) == IF w \in ToSet(vals) /\ IsPhi(w) THEN Operand("noconv", w, "float") ELSE Old(w)

Written(v) ==
    /\ <<"old", v>> \in DOMAIN graph /\ DOMAIN Ops(v) = DOMAIN program.ops[v]
    /\ \A k \in DOMAIN program.ops[v] : Ops(v)[k] = AsRead(program.ops[v][k])

Opened ==
    phase = "sort" =>
        /\ DOMAIN graph = {"old"} \X Value
        /\ \A u \in Value : \A k \in DOMAIN program.ops[u] :
              /\ Ops(u)[k] # Old(program.ops[u][k]) => program.ops[u][k] \in ToSet(vals)
              /\ \A i \in 1..next - 1 : vals[i] = program.ops[u][k] /\ IsPhi(vals[i]) =>
                    Ops(u)[k] # Old(program.ops[u][k])

\* The type of a value with metadata is kept only if the function returns it.
KeptTypes ==
    /\ hasInfo = ToSet(vals)
    /\ \A v \in noTypeConversion : v \in program.meta => phase # "sort" /\ Kind(v) = "ret"
    /\ phase # "sort" => \A v \in ToSet(vals) : Kind(v) = "ret" => v \in noTypeConversion

\* The fields of what the program has for an operand.
LEMMA OldFields ==
    ASSUME NEW w \in Value \cup {Const}
    PROVE  /\ Old(w) \in AnyOperand /\ Old(w).v = w /\ Old(w).as = "float"
           /\ w \in Value => Old(w) = Operand("old", w, "float") /\ Old(w).role = "old"
           /\ w = Const => Old(w).role = "const"
           /\ Operand("noconv", w, "float") # Old(w)
<1>1. /\ Operand("noconv", w, "float").role = "noconv"
      /\ Operand("old", w, "float").role = "old" /\ Operand("old", w, "float").v = w
      /\ Operand("old", w, "float").as = "float" /\ Operand("old", w, "float") \in AnyOperand
      /\ Operand("const", w, "float").role = "const" /\ Operand("const", w, "float").v = w
      /\ Operand("const", w, "float").as = "float" /\ Operand("const", w, "float") \in AnyOperand
  BY OperandFields DEF Roles
<1> QED
  BY <1>1, ValueAssumption DEF Old

\* A visit opens the phi nodes it meets.
LEMMA OpenedVisit ==
    ASSUME Typed, Opened, SortNext
    PROVE  Opened'
<1>0. PICK v, us : Visited(v, us)
  BY SortVisits
<1> PICK phis : phis = {p \in {v} \cup ToSet(us) : IsPhi(p)}
  OBVIOUS
<1>1. /\ v = vals[next] /\ next \in 1..Len(vals) /\ v \in ToSet(vals)
      /\ ToSet(vals') = ToSet(vals) \cup ToSet(us) /\ next' \in 1..Len(vals') + 1
      /\ \A k \in 1..next' - 1 : \E i \in 1..next : vals[i] = vals'[k] /\ vals[i] \notin ToSet(us)
      /\ graph' = OpenPhiLoops(graph, phis) /\ phis \subseteq Value
  BY <1>0 DEF Visited, Visit
<1>2. program' = program /\ phase = "sort" /\ phase' = "sort"
  BY DEF SortNext
<1>3. /\ DOMAIN graph = {"old"} \X Value
      /\ \A u \in Value : AsWritten(u)
      /\ \A u \in Value : \A k \in DOMAIN program.ops[u] :
              /\ Ops(u)[k] # Old(program.ops[u][k]) => program.ops[u][k] \in ToSet(vals)
              /\ \A i \in 1..next - 1 : vals[i] = program.ops[u][k] /\ IsPhi(vals[i]) =>
                    Ops(u)[k] # Old(program.ops[u][k])
  BY <1>2 DEF Opened, Typed, Untouched, Passed
<1>4. DOMAIN graph' = DOMAIN graph
  BY <1>1 DEF OpenPhiLoops
<1>5. ASSUME NEW u \in Value, NEW k \in DOMAIN program.ops[u], NEW w, w = program.ops[u][k]
      PROVE  /\ w \in Value \cup {Const}
             /\ Ops(u)'[k] # Old(w) <=> Ops(u)[k] # Old(w) \/ w \in phis
  <2>0. w \in Value \cup {Const} /\ Ops(u)[k] \in AsInProgram(w) /\ k \in DOMAIN Ops(u)
        /\ <<"old", u>> \in DOMAIN graph
    BY <1>3, <1>5, ProgramShape DEF Typed, AsWritten
  <2>1. Ops(u)'[k] = IF Ops(u)[k].role = "old" /\ Ops(u)[k].v \in phis
                     THEN Operand("noconv", Ops(u)[k].v, Ops(u)[k].as) ELSE Ops(u)[k]
    BY <1>1, <2>0 DEF OpenPhiLoops, Ops
  <2>2. CASE Ops(u)[k] = Old(w)
    <3>1. w \in phis => w \in Value
      BY <1>1
    <3>2. CASE w \in Value
      BY <2>1, <2>2, <3>2, OldFields
    <3>3. CASE w \notin Value
      <4>1. w = Const /\ Old(w).role = "const" /\ w \notin phis
        BY <2>0, <3>1, <3>3, OldFields
      <4> QED
        BY <2>1, <2>2, <4>1
    <3> QED
      BY <3>2, <3>3
  <2>3. CASE Ops(u)[k] # Old(w)
    <3>1. Ops(u)[k] = Operand("noconv", w, "float") /\ w \in Value
      BY <2>0, <2>3 DEF AsInProgram
    <3>2. Ops(u)[k].role = "noconv"
      BY <3>1, OperandFields DEF Roles
    <3> QED
      BY <2>1, <2>3, <3>2, <2>0
  <2> QED
    BY <2>0, <2>2, <2>3
<1>6. ASSUME NEW u \in Value, NEW k \in DOMAIN program.ops[u]
      PROVE  /\ Ops(u)'[k] # Old(program.ops[u][k]) => program.ops[u][k] \in ToSet(vals')
             /\ \A i \in 1..next' - 1 : vals'[i] = program.ops[u][k] /\ IsPhi(vals'[i]) =>
                    Ops(u)'[k] # Old(program.ops[u][k])
  <2> PICK w : w = program.ops[u][k]
    OBVIOUS
  <2>1. Ops(u)'[k] # Old(w) <=> Ops(u)[k] # Old(w) \/ w \in phis
    BY <1>5
  <2>2. Ops(u)'[k] # Old(w) => w \in ToSet(vals')
    BY <1>1, <1>3, <2>1
  <2>3. ASSUME NEW i \in 1..next' - 1, vals'[i] = w, IsPhi(w)
        PROVE  Ops(u)'[k] # Old(w)
    <3>1. PICK j \in 1..next : vals[j] = w
      BY <1>1, <2>3
    <3>2. CASE j = next
      BY <1>1, <2>1, <2>3, <3>1, <3>2
    <3>3. CASE j # next
      <4>1. j \in 1..next - 1
        BY <1>1, <3>3
      <4> QED
        BY <1>3, <2>1, <2>3, <3>1, <4>1
    <3> QED
      BY <3>2, <3>3
  <2> QED
    BY <2>2, <2>3
<1>7. \A u, k : (Ops(u)[k])' = Ops(u)'[k] /\ Old(program.ops[u][k])' = Old(program.ops[u][k])
  BY <1>2 DEF Old
<1>8. \A i : IsPhi(vals[i])' = IsPhi(vals'[i])
  BY <1>2 DEF IsPhi, Kind
<1> QED
  BY <1>2, <1>3, <1>4, <1>6, <1>7, <1>8 DEF Opened

\* At the end of the sorting every value is as it should be read.
LEMMA AllWritten ==
    ASSUME Typed, Opened, FinishSort
    PROVE  DOMAIN graph = {"old"} \X Value /\ \A u \in Value : Written(u)
<1>1. /\ next > Len(vals) /\ next \in 1..Len(vals) + 1 /\ Len(vals) \in Nat
      /\ ToSet(vals) = {vals[k] : k \in 1..Len(vals)} /\ ToSet(vals) \subseteq Value
      /\ phase = "sort"
  BY QueueFacts DEF FinishSort, Typed
<1>2. DOMAIN graph = {"old"} \X Value /\ \A u \in Value : AsWritten(u)
  BY <1>1 DEF Opened, Typed, Untouched, Passed
<1>3. ASSUME NEW u \in Value, NEW k \in DOMAIN program.ops[u], NEW w, w = program.ops[u][k]
      PROVE  Ops(u)[k] = AsRead(w)
  <2>1. w \in Value \cup {Const} /\ Ops(u)[k] \in AsInProgram(w)
    BY <1>2, <1>3, ProgramShape DEF Typed, AsWritten
  <2>2. CASE w \in ToSet(vals) /\ IsPhi(w)
    <3>1. PICK i \in 1..Len(vals) : vals[i] = w
      BY <1>1, <2>2
    <3>2. i \in 1..next - 1
      BY <1>1
    <3>3. Ops(u)[k] # Old(w)
      BY <1>1, <1>3, <2>2, <3>1, <3>2 DEF Opened
    <3> QED
      BY <2>1, <2>2, <3>3 DEF AsInProgram, AsRead
  <2>3. CASE ~(w \in ToSet(vals) /\ IsPhi(w))
    <3>1. Ops(u)[k] = Old(w)
      BY <1>1, <1>3, <2>1, <2>3 DEF Opened, AsInProgram
    <3> QED
      BY <2>3, <3>1 DEF AsRead
  <2> QED
    BY <2>2, <2>3
<1> QED
  BY <1>2, <1>3 DEF Written, AsWritten

\* Every step keeps what is opened.
LEMMA OpenedStep ==
    ASSUME Typed, Opened, [Next]_vars
    PROVE  Opened'
<1>1. CASE phase' # "sort"
  BY <1>1 DEF Opened
<1>2. CASE UNCHANGED vars
  BY <1>2 DEF vars, Opened, Ops, Old, IsPhi, Kind
<1> QED
  BY <1>1, <1>2, OpenedVisit
     DEF Next, Step, Finished, FinishSort, ConvertNext, FinishConversion, ClosePhiLoops, Cleanup

\* Every step keeps the types of the values that are returned only.
LEMMA KeptTypesStep ==
    ASSUME Typed, Ordered, KeptTypes, [Next]_vars
    PROVE  KeptTypes'
<1>1. CASE SortNext
  <2>1. PICK v, us : Visited(v, us)
    BY <1>1, SortVisits
  <2>2. /\ ToSet(vals') = ToSet(vals) \cup ToSet(us)
        /\ hasInfo' = hasInfo \cup (ToSet(us) \ hasInfo)
        /\ noTypeConversion' = noTypeConversion \cup (ToSet(us) \ hasInfo)
    BY <2>1 DEF Visited, Visit
  <2>3. program' = program /\ phase' = "sort" /\ phase = "sort"
    BY <1>1 DEF SortNext
  <2>4. program.meta \subseteq hasInfo
    BY DEF Ordered, Reasons, KeptTypes
  <2>5. \A x : Kind(x)' = Kind(x)
    BY <2>3 DEF Kind
  <2> QED
    BY <2>2, <2>3, <2>4, <2>5 DEF KeptTypes
<1>2. CASE FinishSort
  BY <1>2 DEF FinishSort, KeptTypes, Kind
<1>3. CASE UNCHANGED vars
  BY <1>3 DEF vars, KeptTypes, Kind
<1>4. ASSUME vals' = vals, hasInfo' = hasInfo, noTypeConversion' = noTypeConversion,
             program' = program, phase # "sort", phase' # "sort"
      PROVE  KeptTypes'
  BY <1>4 DEF KeptTypes, Kind
<1> QED
  BY <1>1, <1>2, <1>3, <1>4
     DEF Next, Step, Finished, ConvertNext, FinishConversion, ClosePhiLoops, Cleanup

(***************************************************************************)
(* The operands that a converted instruction takes: what those that the    *)
(* program has were converted to, or the placeholder of a phi node.        *)
(***************************************************************************)
Version(w) == IF operandPool[w].role = "new" THEN "new" ELSE "old"

Taken(o, w) ==
    /\ o.v = w
    /\ o.role = IF w = Const THEN "const"
                ELSE IF w \in ToSet(vals) /\ IsPhi(w)
                     THEN (IF w \in noTypeConversion THEN "noconv" ELSE "conv")
                     ELSE Version(w)

AllTaken(v, ops) ==
    /\ DOMAIN ops = DOMAIN program.ops[v]
    /\ \A k \in DOMAIN program.ops[v] : Taken(ops[k], program.ops[v][k])

\* A value is read after it was converted, unless it is a phi node or none of
\* the queue.
Ready(w) ==
    w \in Value =>
        /\ operandPool[w] \in {None, ConversionError} \cup Versions(w)
        /\ w \notin ToSet(vals) => operandPool[w] = None
        /\ w \in ToSet(vals) /\ ~IsPhi(w) =>
              operandPool[w] # None /\ w \in hasInfo \ noTypeConversion

\* What v is converted to.
MayBecome(v, as) ==
    /\ IsPhi(v) \/ Kind(v) = "ret" => v \notin noTypeConversion
    /\ Kind(v) = "gep" /\ as = "fix" => operandPool[program.ops[v][1]].as = "fix"

Result(v) ==
    \/ Fails(v)
    \/ \E ops : StaysWith(v, ops) /\ AllTaken(v, ops)
    \/ \E ops : \E as \in {"float", "fix"} :
          Becomes(v, ops, as) /\ AllTaken(v, ops) /\ MayBecome(v, as)

\* The fields of the versions of a value.
LEMMA VersionFields ==
    ASSUME NEW w \in Value, NEW x \in {None, ConversionError} \cup Versions(w)
    PROVE  /\ x \in AnyOperand
           /\ x.role = "none" => x = None
           /\ x.role = "error" => x = ConversionError
           /\ x.role = "old" => x = Old(w) /\ x.as = "float"
           /\ x.role \in {"none", "error"} => x.as = "float"
           /\ x \in Versions(w) => x.role \in {"old", "new"} /\ x.v = w
           /\ x.role \in {"old", "new"} => x \in Versions(w)
           /\ x.role \in {"none", "error", "old", "new"}
<1>1. /\ None.role = "none" /\ None.as = "float" /\ None \in AnyOperand
      /\ ConversionError.role = "error" /\ ConversionError.as = "float"
      /\ ConversionError \in AnyOperand
  BY OperandFields DEF None, ConversionError, Roles
<1>2. Old(w) \in AnyOperand /\ Old(w).role = "old" /\ Old(w).v = w /\ Old(w).as = "float"
  BY OldFields
<1>3. ASSUME NEW t \in {"float", "fix"}
      PROVE  New(w, t) \in AnyOperand /\ New(w, t).role = "new" /\ New(w, t).v = w
  BY DEF New, Operand, AnyOperand, Roles
<1>4. CASE x \in {None, ConversionError}
  <2>1. x.role \notin {"old", "new"} /\ x.as = "float" /\ x \in AnyOperand
    BY <1>1, <1>4
  <2>2. x \notin Versions(w)
    BY <1>2, <1>3, <2>1 DEF Versions
  <2> QED
    BY <1>1, <1>4, <2>1, <2>2
<1>5. CASE x = Old(w)
  BY <1>2, <1>5 DEF Versions
<1>6. CASE \E as \in {"float", "fix"} : x = New(w, as)
  <2>1. x \in AnyOperand /\ x.role = "new" /\ x.v = w
    BY <1>3, <1>6
  <2> QED
    BY <1>6, <2>1 DEF Versions
<1> QED
  BY <1>4, <1>5, <1>6 DEF Versions

(***************************************************************************)
(* What the pool has for an operand that is read.                          *)
(***************************************************************************)
Waits(o, w) ==
    /\ w \in ToSet(vals) /\ IsPhi(w) /\ o.role = "noconv"
    /\ Pool(o).role = IF w \in noTypeConversion THEN "noconv" ELSE "conv"

IsRead(o, w) ==
    /\ w \in Value /\ ~(w \in ToSet(vals) /\ IsPhi(w))
    /\ o.role = "old" /\ Pool(o) = operandPool[w]

\* An operand as it is read is a phi node that waits for its conversion, or the
\* pool has for it what it has for the value.
LEMMA PoolRead ==
    ASSUME ToSet(vals) \subseteq Value, NEW w \in Value \cup {Const}, Ready(w),
           NEW o, o = AsRead(w)
    PROVE  /\ o \in AnyOperand /\ o.v = w /\ Pool(o) \in AnyOperand
           /\ \/ w = Const /\ o.role = "const" /\ Pool(o) = None
              \/ Waits(o, w) /\ Pool(o).v = w
              \/ IsRead(o, w)
<1>0. None \in AnyOperand
  BY OperandFields DEF None, Roles
<1>1. CASE w = Const
  <2>1. w \notin ToSet(vals)
    BY <1>1, ValueAssumption
  <2>2. o = Old(w) /\ o.role = "const" /\ o.v = w /\ o \in AnyOperand
    BY <1>1, <2>1, OldFields DEF AsRead
  <2>3. Pool(o) = None
    BY <2>2 DEF Pool
  <2> QED
    BY <1>0, <1>1, <2>2, <2>3
<1>2. CASE w \in ToSet(vals) /\ IsPhi(w)
  <2>1. o = Operand("noconv", w, "float")
    BY <1>2 DEF AsRead
  <2>2. o \in AnyOperand /\ o.role = "noconv" /\ o.v = w
    BY <1>2, <2>1, OperandFields DEF Roles
  <2>3. Pool(o) = IF w \in noTypeConversion THEN o ELSE Operand("conv", w, "fix")
    BY <2>2 DEF Pool
  <2>4. Operand("conv", w, "fix") \in AnyOperand /\ Operand("conv", w, "fix").role = "conv"
        /\ Operand("conv", w, "fix").v = w
    BY <1>2, OperandFields DEF Roles
  <2> QED
    BY <1>2, <2>2, <2>3, <2>4 DEF Waits
<1>3. CASE w \in Value /\ ~(w \in ToSet(vals) /\ IsPhi(w))
  <2>1. o = Old(w) /\ o.role = "old" /\ o.v = w /\ o \in AnyOperand
    BY <1>3, OldFields DEF AsRead
  <2>2. Pool(o) = operandPool[w]
    BY <2>1 DEF Pool
  <2>3. Pool(o) \in AnyOperand
    BY <1>3, <2>2, VersionFields DEF Ready
  <2> QED
    BY <1>3, <2>1, <2>2, <2>3 DEF IsRead
<1> QED
  BY <1>1, <1>2, <1>3

\* Each way of reading an operand takes what it was converted to.
LEMMA OperandTaken ==
    ASSUME ToSet(vals) \subseteq Value, NEW w \in Value \cup {Const}, Ready(w),
           NEW o, o = AsRead(w)
    PROVE  /\ Taken(FallbackMatch(o), w)
           /\ TranslateOrMatch(o) # ConversionError => Taken(TranslateOrMatch(o), w)
           /\ MatchOp(o) # ConversionError => Taken(MatchOp(o), w)
<1>1. /\ o \in AnyOperand /\ o.v = w /\ Pool(o) \in AnyOperand
      /\ \/ w = Const /\ o.role = "const" /\ Pool(o) = None
         \/ Waits(o, w) /\ Pool(o).v = w
         \/ IsRead(o, w)
  BY PoolRead
<1>2. \A as : /\ [o EXCEPT !.as = as].role = o.role /\ [Pool(o) EXCEPT !.as = as].role = Pool(o).role
              /\ [o EXCEPT !.as = as].v = o.v /\ [Pool(o) EXCEPT !.as = as].v = Pool(o).v
  BY <1>1 DEF AnyOperand
<1>3. None.role = "none" /\ ConversionError.role = "error" /\ None # ConversionError
  BY PoolTyped
\* Either what is read stays, or what it was converted to is taken.
<1> DEFINE Same(x) == x.v = w /\ x.role = o.role
           Match(x) == x.v = Pool(o).v /\ x.role = Pool(o).role
           Follows(x) == IF Pool(o) \in {None, ConversionError} THEN Same(x) ELSE Match(x)
<1>4. ASSUME NEW x, Follows(x) PROVE Taken(x, w)
  <2>1. CASE w = Const /\ o.role = "const" /\ Pool(o) = None
    BY <1>4, <2>1 DEF Taken
  <2>2. CASE Waits(o, w) /\ Pool(o).v = w
    <3>1. Pool(o).role \in {"noconv", "conv"}
      BY <2>2 DEF Waits
    <3>2. Match(x) /\ w # Const
      BY <1>3, <1>4, <2>2, <3>1, ValueAssumption DEF Waits
    <3> QED
      BY <2>2, <3>2 DEF Waits, Taken
  <2>3. CASE IsRead(o, w)
    <3>1. w # Const /\ w \in Value /\ Pool(o) \in {None, ConversionError} \cup Versions(w)
          /\ Pool(o) = operandPool[w]
      BY <2>3, ValueAssumption DEF IsRead, Ready
    <3>2. Pool(o) \notin {None, ConversionError} => Pool(o).v = w /\ Pool(o).role \in {"old", "new"}
      BY <3>1, VersionFields
    <3>3. x.v = w /\ x.role = Version(w)
      BY <1>3, <1>4, <2>3, <3>1, <3>2 DEF IsRead, Version
    <3> QED
      BY <2>3, <3>1, <3>3 DEF IsRead, Taken
  <2> QED
    BY <1>1, <2>1, <2>2, <2>3
<1> HIDE DEF Follows
<1>5. Taken(FallbackMatch(o), w)
  <2>1. Follows(FallbackMatch(o))
    BY <1>1, <1>2 DEF Follows, FallbackMatch, Matched
  <2> QED
    BY <1>4, <2>1
<1>6. ASSUME TranslateOrMatch(o) # ConversionError PROVE Taken(TranslateOrMatch(o), w)
  <2>1. Pool(o) # ConversionError
    BY <1>3, <1>6 DEF TranslateOrMatch
  <2>2. Follows(TranslateOrMatch(o))
    BY <1>1, <1>2, <1>3, <2>1 DEF Follows, TranslateOrMatch
  <2> QED
    BY <1>4, <2>2
<1>7. ASSUME MatchOp(o) # ConversionError PROVE Taken(MatchOp(o), w)
  <2>1. Follows(MatchOp(o))
    BY <1>1, <1>7 DEF Follows, MatchOp
  <2> QED
    BY <1>4, <2>1
<1> QED
  BY <1>5, <1>6, <1>7

\* What is no number to convert is taken as it is.
LEMMA OperandLeft ==
    ASSUME ToSet(vals) \subseteq hasInfo, hasInfo \subseteq ToSet(vals), ToSet(vals) \subseteq Value,
           NEW w \in Value \cup {Const}, Ready(w),
           NEW o, o = AsRead(w), ~ToConvert(o)
    PROVE  Taken([o EXCEPT !.as = "fix"], w)
<1>1. /\ o \in AnyOperand /\ o.v = w
      /\ \/ w = Const /\ o.role = "const" /\ Pool(o) = None
         \/ Waits(o, w)
         \/ IsRead(o, w)
  BY PoolRead
<1>2. [o EXCEPT !.as = "fix"].role = o.role /\ [o EXCEPT !.as = "fix"].v = o.v
  BY <1>1 DEF AnyOperand
<1>3. CASE w = Const /\ o.role = "const"
  BY <1>1, <1>2, <1>3 DEF Taken
<1>4. CASE Waits(o, w)
  <2>1. w \in noTypeConversion /\ w # Const
    BY <1>1, <1>4, ValueAssumption DEF Waits, ToConvert
  <2> QED
    BY <1>1, <1>2, <1>4, <2>1 DEF Taken, Waits
<1>5. CASE IsRead(o, w)
  <2>1. w \notin hasInfo \ noTypeConversion /\ w # Const /\ w \in Value
    BY <1>1, <1>5, ValueAssumption DEF IsRead, ToConvert
  <2>2. w \notin ToSet(vals)
    BY <1>5, <2>1 DEF IsRead, Ready
  <2>3. Version(w) = "old"
    BY <2>1, <2>2, PoolTyped DEF Ready, Version
  <2> QED
    BY <1>1, <1>2, <1>5, <2>1, <2>2, <2>3 DEF Taken, IsRead
<1> QED
  BY <1>1, <1>3, <1>4, <1>5

\* What each instruction is converted to takes what its operands were converted
\* to.
LEMMA ResultOf ==
    ASSUME program \in Programs, ToSet(vals) \subseteq Value, hasInfo = ToSet(vals),
           NEW v \in Value, Written(v),
           \A k \in DOMAIN program.ops[v] : Ready(program.ops[v][k]),
           ConvertInstruction(v)
    PROVE  Result(v)
<1> DEFINE D == DOMAIN program.ops[v]
<1>0. /\ DOMAIN Ops(v) = D
      /\ \A k \in D : program.ops[v][k] \in Value \cup {Const} /\ Ops(v)[k] = AsRead(program.ops[v][k])
      /\ Kind(v) \in {"gep", "load"} => D = {1}
      /\ Kind(v) = "store" => D = {1, 2}
      /\ Kind(v) = "alloca" => program.ops[v] = <<>>
      /\ Kind(v) = "gep" => program.ops[v][1] \in Value /\ ~IsPhi(program.ops[v][1])
  <2>1. /\ DOMAIN Ops(v) = D
        /\ \A k \in D : program.ops[v][k] \in Value \cup {Const} /\ Ops(v)[k] = AsRead(program.ops[v][k])
    BY ProgramShape DEF Written
  <2>2. /\ Kind(v) \in {"gep", "load"} => Len(program.ops[v]) = 1 /\ IsAddress(program, program.ops[v][1])
        /\ Kind(v) = "store" => Len(program.ops[v]) = 2
        /\ Kind(v) = "alloca" => program.ops[v] = <<>>
    BY ProgramAssumption DEF Kind
  <2>3. D = 1..Len(program.ops[v])
    BY ProgramShape
  <2> QED
    BY <2>1, <2>2, <2>3 DEF IsAddress, IsPhi, Kind
<1>1. ASSUME NEW k \in D
      PROVE  /\ Taken(FallbackMatch(Ops(v)[k]), program.ops[v][k])
             /\ TranslateOrMatch(Ops(v)[k]) # ConversionError =>
                    Taken(TranslateOrMatch(Ops(v)[k]), program.ops[v][k])
             /\ MatchOp(Ops(v)[k]) # ConversionError =>
                    Taken(MatchOp(Ops(v)[k]), program.ops[v][k])
             /\ ~ToConvert(Ops(v)[k]) => Taken([Ops(v)[k] EXCEPT !.as = "fix"], program.ops[v][k])
  <2> PICK w \in Value \cup {Const} : w = program.ops[v][k]
    BY <1>0
  <2> PICK o : o = Ops(v)[k]
    OBVIOUS
  <2>1. o = AsRead(w) /\ Ready(w)
    BY <1>0
  <2>2. ~ToConvert(o) => Taken([o EXCEPT !.as = "fix"], w)
    BY <2>1, OperandLeft
  <2> QED
    BY <2>1, <2>2, OperandTaken
<1>2. AllTaken(v, FallbackOps(v))
  BY <1>0, <1>1 DEF AllTaken, FallbackOps
<1>3. ~SomeFailed(FixedOps(v)) => AllTaken(v, FixedOps(v))
  BY <1>0, <1>1 DEF AllTaken, FixedOps, SomeFailed
<1>4. ASSUME D = {1}, NEW x, Taken(x, program.ops[v][1]) PROVE AllTaken(v, <<x>>)
  BY <1>4 DEF AllTaken
<1>5. ASSUME D = {1, 2}, NEW x, NEW y, Taken(x, program.ops[v][1]), Taken(y, program.ops[v][2])
      PROVE  AllTaken(v, <<x, y>>)
  BY <1>5 DEF AllTaken
<1>6. ASSUME NEW ops, NEW as \in {"float", "fix"}, Becomes(v, ops, as), AllTaken(v, ops), MayBecome(v, as)
      PROVE  Result(v)
  BY <1>6 DEF Result
<1>7. ASSUME NEW ops, StaysWith(v, ops), AllTaken(v, ops)
      PROVE  Result(v)
  BY <1>7 DEF Result
<1>8. Fails(v) => Result(v)
  BY DEF Result
<1>9. Fallback(v) => Result(v)
  <2>1. ASSUME v \notin noTypeConversion, NEW as, as = IF IsVoid(v) \/ IsPointer(v) THEN "float" ELSE "fix"
        PROVE  as \in {"float", "fix"} /\ MayBecome(v, as)
    BY <2>1 DEF MayBecome, IsPointer
  <2> QED
    BY <1>2, <1>6, <1>7, <2>1 DEF Fallback
<1>10. ConvertOp(v) /\ Kind(v) \in {"op", "phi"} => Result(v)
  <2>1. v \notin noTypeConversion /\ Kind(v) \in {"op", "phi"} => MayBecome(v, "fix")
    BY DEF MayBecome
  <2> QED
    BY <1>3, <1>6, <1>8, <1>9, <2>1 DEF ConvertOp
<1>11. CASE Kind(v) = "alloca" /\ ConvertAlloca(v)
  <2>1. AllTaken(v, <<>>) /\ MayBecome(v, "fix")
    BY <1>0, <1>11 DEF AllTaken, MayBecome, IsPhi
  <2> QED
    BY <1>6, <1>7, <1>11, <2>1 DEF ConvertAlloca
<1>12. CASE Kind(v) = "load" /\ ConvertLoad(v)
  <2>1. Pool(Ops(v)[1]) # ConversionError /\ Pool(Ops(v)[1]).as = "fix" =>
            AllTaken(v, <<Pool(Ops(v)[1])>>)
    <3>1. None.as = "float"
      BY DEF None, Operand
    <3>2. Pool(Ops(v)[1]).as = "fix" => MatchOp(Ops(v)[1]) = Pool(Ops(v)[1])
      BY <3>1 DEF MatchOp
    <3> QED
      BY <1>0, <1>1, <1>4, <1>12, <3>2
  <2>2. \A as : MayBecome(v, as)
    BY <1>12 DEF MayBecome, IsPhi
  <2>3. (IF v \in noTypeConversion THEN "float" ELSE "fix") \in {"float", "fix"}
    OBVIOUS
  <2> QED
    BY <1>6, <1>8, <1>9, <1>12, <2>1, <2>2, <2>3 DEF ConvertLoad
<1>13. CASE Kind(v) = "store" /\ ConvertStore(v)
  <2> PICK val, ptr, newval :
           /\ val = Ops(v)[1] /\ ptr = MatchOp(Ops(v)[2])
           /\ newval = IF ToConvert(val)
                       THEN IF ptr.as = "fix" THEN TranslateOrMatch(val) ELSE FallbackMatch(val)
                       ELSE IF ptr.as = "fix" THEN [val EXCEPT !.as = "fix"] ELSE MatchOp(val)
    OBVIOUS
  <2>1. 1 \in D /\ 2 \in D /\ D = {1, 2}
    BY <1>0, <1>13
  <2>2. newval # ConversionError => Taken(newval, program.ops[v][1])
    BY <1>1, <2>1
  <2>3. ptr # ConversionError => Taken(ptr, program.ops[v][2])
    BY <1>1, <2>1
  <2>4. MayBecome(v, "float")
    BY <1>13 DEF MayBecome, IsPhi
  <2>5. \/ Fails(v)
        \/ Fallback(v)
        \/ newval # ConversionError /\ ptr # ConversionError /\ Becomes(v, <<newval, ptr>>, "float")
    BY <1>13 DEF ConvertStore
  <2> QED
    BY <1>5, <1>6, <1>8, <1>9, <2>1, <2>2, <2>3, <2>4, <2>5
<1>14. CASE Kind(v) = "gep" /\ ConvertGep(v)
  <2> PICK w, ptr : w = program.ops[v][1] /\ ptr = MatchOp(Ops(v)[1])
    OBVIOUS
  <2>1. D = {1} /\ 1 \in D /\ w \in Value /\ ~IsPhi(w)
    BY <1>0, <1>14
  <2>2. Ops(v)[1] = Old(w) /\ Old(w).role = "old" /\ Old(w).v = w /\ Old(w).as = "float"
    BY <1>0, <2>1, OldFields DEF AsRead
  <2>3. ptr.as = "fix" => operandPool[w].as = "fix"
    BY <2>2 DEF MatchOp, Pool
  <2>4. \/ Fails(v)
        \/ Fallback(v)
        \/ ptr # ConversionError /\ ptr.as = "fix" /\ v \notin noTypeConversion /\ Becomes(v, <<ptr>>, "fix")
    BY <1>14 DEF ConvertGep
  <2>5. ptr.as = "fix" /\ v \notin noTypeConversion => MayBecome(v, "fix")
    BY <2>3 DEF MayBecome
  <2>6. ptr # ConversionError => AllTaken(v, <<ptr>>)
    BY <1>1, <1>4, <2>1
  <2> QED
    BY <1>6, <1>8, <1>9, <2>4, <2>5, <2>6
<1>15. CASE Kind(v) = "phi" /\ ConvertPhi(v)
  BY <1>2, <1>7, <1>8, <1>10, <1>15 DEF ConvertPhi
<1>16. CASE Kind(v) \in {"call", "fixcall"} /\ ConvertCall(v)
  <2>1. (IF v \in noTypeConversion THEN "float" ELSE "fix") \in {"float", "fix"}
    OBVIOUS
  <2>2. \A as : MayBecome(v, as)
    BY <1>16 DEF MayBecome, IsPhi
  <2> QED
    BY <1>3, <1>6, <1>8, <1>9, <1>16, <2>1, <2>2 DEF ConvertCall
<1> QED
  BY <1>9, <1>10, <1>11, <1>12, <1>13, <1>14, <1>15, <1>16 DEF ConvertInstruction

(***************************************************************************)
(* What the conversion has recorded of each value, and what it has made of *)
(* the code.                                                               *)
(***************************************************************************)
Pooled ==
    /\ phase \notin {"sort", "convert"} => next = Len(vals) + 1
    /\ \A v \in Value :
          /\ operandPool[v] \in {None, ConversionError} \cup Versions(v)
          /\ operandPool[v] = None <=> ~Passed(v)
          /\ operandPool[v].role = "new" /\ (IsPhi(v) \/ Kind(v) = "ret") => v \notin noTypeConversion
          /\ Kind(v) = "gep" /\ operandPool[v].as = "fix" => operandPool[program.ops[v][1]].as = "fix"

NewNodes == {<<"new", v>> : v \in {u \in Value : operandPool[u].role = "new"}}

Converting ==
    phase \in {"convert", "close"} =>
        /\ DOMAIN graph = ({"old"} \X Value) \cup NewNodes
        /\ \A v \in Value : IF operandPool[v] = Old(v) THEN AllTaken(v, Ops(v)) ELSE Written(v)
        /\ \A v \in Value : operandPool[v].role = "new" => AllTaken(v, graph[<<"new", v>>])

\* What an instruction reads was converted before it, or is a phi node, or none
\* of the queue.
LEMMA OperandsReady ==
    ASSUME Typed, Ordered, Held, KeptTypes, Pooled, phase = "convert",
           NEW v, next \in 1..Len(vals), v = vals[next], NEW k \in DOMAIN program.ops[v]
    PROVE  Ready(program.ops[v][k])
<1>0. /\ vals \in Queues /\ Len(vals) \in Nat
      /\ ToSet(vals) = {vals[i] : i \in 1..Len(vals)} /\ ToSet(vals) \subseteq Value
      /\ \A i, j \in 1..Len(vals) : vals[i] = vals[j] => i = j
  BY QueueFacts DEF Typed
<1> SUFFICES ASSUME NEW w \in Value, w = program.ops[v][k] PROVE Ready(w)
  BY DEF Ready
<1>1. v \in Value /\ v \in OriginalUsers(w)
  BY <1>0 DEF OriginalUsers, ToSet
<1>2. w \notin ToSet(vals) => operandPool[w] = None
  BY <1>0 DEF Pooled, Passed, Typed
<1>3. ASSUME w \in ToSet(vals), ~IsPhi(w) PROVE operandPool[w] # None
  <2>1. PICK i \in 1..Len(vals) : vals[i] = w
    BY <1>0, <1>3
  <2>2. PICK l \in i + 1..Len(vals) : vals[l] = v
    BY <1>1, <1>3, <2>1 DEF Ordered, UsersAfter, Done, Behind
  <2>3. l = next /\ i \in 1..next - 1
    BY <1>0, <2>2
  <2>4. Passed(w)
    BY <2>1, <2>3 DEF Passed
  <2> QED
    BY <2>4 DEF Pooled
<1>4. ASSUME w \in ToSet(vals), ~IsPhi(w) PROVE w \in hasInfo \ noTypeConversion
  <2>1. w \in program.meta
    BY <1>4 DEF Held, Marked
  <2>2. Kind(w) # "ret"
    <3>1. w \in ToSet(program.ops[v]) \ {Const}
      BY ValueAssumption DEF ToSet
    <3> QED
      BY <1>1, <3>1, ProgramAssumption DEF Typed, Kind
  <2> QED
    BY <1>4, <2>1, <2>2 DEF KeptTypes
<1> QED
  BY <1>2, <1>3, <1>4 DEF Ready, Pooled

\* The sentinels count as floats.
LEMMA NoneIsFloat == None.as = "float" /\ ConversionError.as = "float"
BY DEF None, ConversionError, Operand

\* So the value at next is converted as it should be.
LEMMA ConvertResult ==
    ASSUME Typed, Ordered, Held, KeptTypes, Pooled, Converting, ConvertNext
    PROVE  /\ next \in 1..Len(vals) /\ vals[next] \in Value /\ operandPool[vals[next]] = None
           /\ Written(vals[next]) /\ Result(vals[next]) /\ next' = next + 1
<1> PICK v : v = vals[next]
  OBVIOUS
<1>1. /\ next \in 1..Len(vals) /\ v \in Value /\ operandPool[v] = None /\ next' = next + 1
      /\ phase = "convert" /\ ConvertInstruction(v)
  BY TypedConvert DEF ConvertNext
<1>2. operandPool[v] # Old(v)
  BY <1>1, OldFields, PoolTyped
<1>3. Written(v)
  BY <1>1, <1>2 DEF Converting
<1>4. \A k \in DOMAIN program.ops[v] : Ready(program.ops[v][k])
  BY <1>1, OperandsReady
<1>5. program \in Programs /\ ToSet(vals) \subseteq Value /\ hasInfo = ToSet(vals)
  BY DEF Typed, KeptTypes
<1>6. Result(v)
  BY <1>1, <1>3, <1>4, <1>5, ResultOf
<1> QED
  BY <1>1, <1>3, <1>6

\* What it records.
LEMMA ResultRecorded ==
    ASSUME NEW v \in Value, Result(v)
    PROVE  \E x \in {ConversionError} \cup Versions(v) :
               /\ operandPool' = [operandPool EXCEPT ![v] = x] /\ x # None
               /\ x.role = "new" => \E as \in {"float", "fix"} : x = New(v, as) /\ MayBecome(v, as)
               /\ x.role \notin {"none"}
<1>1. ASSUME NEW as \in {"float", "fix"}
      PROVE  New(v, as) \in Versions(v) /\ New(v, as).role = "new" /\ New(v, as) # None
  <2>1. New(v, as) \in Versions(v)
    BY DEF Versions
  <2>2. New(v, as).role = "new"
    BY DEF New, Operand
  <2> QED
    BY <2>1, <2>2, PoolTyped
<1>2. Old(v) \in Versions(v) /\ Old(v).role = "old" /\ Old(v) # None
  BY OldFields, PoolTyped DEF Versions
<1>3. ConversionError.role = "error" /\ ConversionError # None
  BY PoolTyped
<1>4. CASE Fails(v)
  BY <1>3, <1>4 DEF Fails
<1>5. CASE \E ops : StaysWith(v, ops)
  BY <1>2, <1>5 DEF StaysWith
<1>6. ASSUME NEW ops, NEW as \in {"float", "fix"}, Becomes(v, ops, as), MayBecome(v, as)
      PROVE  \E x \in {ConversionError} \cup Versions(v) :
               /\ operandPool' = [operandPool EXCEPT ![v] = x] /\ x # None
               /\ x.role = "new" => \E t \in {"float", "fix"} : x = New(v, t) /\ MayBecome(v, t)
               /\ x.role \notin {"none"}
  BY <1>1, <1>6 DEF Becomes
<1> QED
  BY <1>4, <1>5, <1>6 DEF Result

\* Every step keeps what is recorded.
LEMMA PooledStep ==
    ASSUME Typed, Ordered, Held, KeptTypes, Pooled, Converting, [Next]_vars
    PROVE  Pooled'
<1>0. next \in 1..Len(vals) + 1 /\ Len(vals) \in Nat /\ vals \in Queues
  BY QueueFacts DEF Typed
<1>1. CASE SortNext
  <2>1. /\ phase = "sort" /\ phase' = "sort" /\ program' = program /\ operandPool' = operandPool
    BY <1>1 DEF SortNext
  <2>2. \A v \in Value : operandPool[v] = None
    BY <2>1 DEF Pooled, Passed
  <2> QED
    BY <2>1, <2>2, PoolTyped, NoneIsFloat DEF Pooled, Passed, Versions, Old, New
<1>2. CASE FinishSort
  <2>1. /\ phase = "sort" /\ phase' = "convert" /\ program' = program /\ operandPool' = operandPool
        /\ next' = 1
    BY <1>2 DEF FinishSort
  <2>2. \A v \in Value : operandPool[v] = None
    BY <2>1 DEF Pooled, Passed
  <2> QED
    BY <2>1, <2>2, PoolTyped, NoneIsFloat DEF Pooled, Passed, Versions, Old, New
<1>3. CASE ConvertNext
  <2> PICK v : v = vals[next]
    OBVIOUS
  <2>1. /\ next \in 1..Len(vals) /\ v \in Value /\ operandPool[v] = None /\ Result(v)
        /\ next' = next + 1 /\ phase = "convert" /\ phase' = "convert" /\ vals' = vals
        /\ program' = program /\ noTypeConversion' = noTypeConversion
        /\ operandPool \in [Value -> PoolT]
    BY <1>3, ConvertResult DEF ConvertNext, Typed
  <2>2. PICK x \in {ConversionError} \cup Versions(v) :
           /\ operandPool' = [operandPool EXCEPT ![v] = x] /\ x # None
           /\ x.role = "new" => \E as \in {"float", "fix"} : x = New(v, as) /\ MayBecome(v, as)
    BY <2>1, ResultRecorded
  <2>3. \A u : Passed(u)' <=> Passed(u) \/ u = v
    <3>1. \A i \in 1..next' - 1 : i \in 1..next - 1 \/ i = next
      BY <2>1
    <3>2. \A i \in 1..next - 1 : i \in 1..next' - 1
      BY <2>1
    <3>3. next \in 1..next' - 1
      BY <2>1
    <3> QED
      BY <2>1, <3>1, <3>2, <3>3 DEF Passed
  <2>4. \A u : Versions(u)' = Versions(u) /\ Kind(u)' = Kind(u) /\ IsPhi(u)' = IsPhi(u)
    BY <2>1 DEF Versions, Old, New, IsPhi, Kind
  <2>5. ASSUME NEW u \in Value, u # v
        PROVE  /\ operandPool'[u] = operandPool[u]
               /\ Kind(u) = "gep" /\ operandPool[u].as = "fix" =>
                      operandPool'[program.ops[u][1]].as = "fix"
    <3>1. operandPool'[u] = operandPool[u]
      BY <2>1, <2>2, <2>5
    <3>2. ASSUME Kind(u) = "gep", operandPool[u].as = "fix"
          PROVE  operandPool'[program.ops[u][1]].as = "fix"
      <4>1. operandPool[program.ops[u][1]].as = "fix"
        BY <2>5, <3>2 DEF Pooled
      <4>2. program.ops[u][1] # v /\ program.ops[u][1] \in Value
        <5>1. program.ops[u][1] \in Value
          BY <3>2, <2>5, ProgramAssumption DEF Typed, Kind, IsAddress
        <5> QED
          BY <2>1, <4>1, <5>1, NoneIsFloat
      <4> QED
        BY <2>1, <2>2, <4>1, <4>2
    <3> QED
      BY <3>1, <3>2
  <2>6. /\ operandPool'[v] = x /\ Passed(v)'
        /\ x.role = "new" /\ (IsPhi(v) \/ Kind(v) = "ret") => v \notin noTypeConversion
        /\ Kind(v) = "gep" /\ x.as = "fix" => operandPool'[program.ops[v][1]].as = "fix"
    <3>1. operandPool'[v] = x /\ Passed(v)'
      BY <2>1, <2>2, <2>3
    <3>2. x.role = "new" /\ (IsPhi(v) \/ Kind(v) = "ret") => v \notin noTypeConversion
      BY <2>2 DEF MayBecome
    <3>3. ASSUME Kind(v) = "gep", x.as = "fix" PROVE operandPool'[program.ops[v][1]].as = "fix"
      <4>1. x \notin {None, ConversionError, Old(v)}
        BY <2>1, <3>3, NoneIsFloat, OldFields
      <4>2. PICK as \in {"float", "fix"} : x = New(v, as)
        BY <4>1 DEF Versions
      <4>3. x.role = "new" /\ x.as = as
        BY <4>2 DEF New, Operand
      <4>4. MayBecome(v, "fix")
        BY <2>2, <3>3, <4>3 DEF New, Operand
      <4>5. operandPool[program.ops[v][1]].as = "fix"
        BY <3>3, <4>4 DEF MayBecome
      <4>6. program.ops[v][1] # v
        BY <2>1, <4>5, NoneIsFloat
      <4> QED
        BY <2>1, <2>2, <4>5, <4>6, ProgramAssumption DEF Typed, Kind, IsAddress
    <3> QED
      BY <3>1, <3>2, <3>3
  <2> QED
    BY <2>1, <2>2, <2>3, <2>4, <2>5, <2>6 DEF Pooled
<1>4. ASSUME UNCHANGED <<program, vals, next, noTypeConversion, operandPool>>,
             phase # "sort", phase' # "sort", next = Len(vals) + 1
      PROVE  Pooled'
  <2>1. \A v : /\ Versions(v)' = Versions(v) /\ Kind(v)' = Kind(v) /\ IsPhi(v)' = IsPhi(v)
               /\ Passed(v)' = Passed(v)
    BY <1>4 DEF Versions, Old, New, IsPhi, Kind, Passed
  <2> QED
    BY <1>4, <2>1 DEF Pooled
<1>5. CASE FinishConversion
  BY <1>0, <1>4, <1>5 DEF FinishConversion
<1>6. CASE ClosePhiLoops
  BY <1>0, <1>4, <1>6 DEF ClosePhiLoops, Pooled
<1>7. CASE Cleanup
  BY <1>0, <1>4, <1>7 DEF Cleanup, Pooled
<1>8. CASE UNCHANGED vars
  <2>1. \A v : /\ Versions(v)' = Versions(v) /\ Kind(v)' = Kind(v) /\ IsPhi(v)' = IsPhi(v)
               /\ Passed(v)' = Passed(v)
    BY <1>8 DEF vars, Versions, Old, New, IsPhi, Kind, Passed
  <2> QED
    BY <1>8, <2>1 DEF vars, Pooled
<1> QED
  BY <1>1, <1>2, <1>3, <1>5, <1>6, <1>7, <1>8 DEF Next, Step, Finished

\* A value that does not read v, or reads it through a placeholder, keeps what
\* it has taken when v is converted.
LEMMA TakenKept ==
    ASSUME NEW u, NEW v, IsPhi(v) \/ \A k \in DOMAIN program.ops[u] : program.ops[u][k] # v,
           \A w : w # v => operandPool'[w] = operandPool[w],
           UNCHANGED <<program, vals, noTypeConversion>>,
           v \in ToSet(vals), NEW ops, AllTaken(u, ops)
    PROVE  AllTaken(u, ops)'
<1>1. \A w : IsPhi(w)' = IsPhi(w)
  BY DEF IsPhi, Kind
<1>2. ASSUME NEW k \in DOMAIN program.ops[u], NEW w, w = program.ops[u][k], NEW o, Taken(o, w)
      PROVE  Taken(o, w)'
  <2>1. CASE w # v
    <3>1. Version(w)' = Version(w)
      BY <2>1 DEF Version
    <3> QED
      BY <1>1, <1>2, <3>1 DEF Taken
  <2>2. CASE w = v
    BY <1>1, <1>2, <2>2 DEF Taken
  <2> QED
    BY <2>1, <2>2
<1> QED
  BY <1>2 DEF AllTaken

\* Converting the value at next, which nothing converted before it reads.
LEMMA ConvertingConvert ==
    ASSUME Typed, Ordered, Held, KeptTypes, Pooled, Converting, ConvertNext
    PROVE  Converting'
<1> PICK v : v = vals[next]
  OBVIOUS
<1>1. /\ next \in 1..Len(vals) /\ v \in Value /\ operandPool[v] = None /\ Result(v) /\ Written(v)
      /\ next' = next + 1 /\ phase = "convert" /\ phase' = "convert" /\ vals' = vals
      /\ program' = program /\ noTypeConversion' = noTypeConversion
      /\ operandPool \in [Value -> PoolT]
  BY ConvertResult DEF ConvertNext, Typed
<1>2. /\ DOMAIN graph = ({"old"} \X Value) \cup NewNodes
      /\ \A u \in Value : IF operandPool[u] = Old(u) THEN AllTaken(u, Ops(u)) ELSE Written(u)
      /\ \A u \in Value : operandPool[u].role = "new" => AllTaken(u, graph[<<"new", u>>])
  BY <1>1 DEF Converting
<1>3. v \in ToSet(vals)
  BY <1>1, QueueFacts DEF Typed
<1>4. ASSUME NEW u \in Value, operandPool[u] # None, NEW k \in DOMAIN program.ops[u],
             program.ops[u][k] = v, ~IsPhi(v)
      PROVE  FALSE
  <2>0. /\ vals \in Queues /\ Len(vals) \in Nat
        /\ \A i, j \in 1..Len(vals) : vals[i] = vals[j] => i = j
    BY QueueFacts DEF Typed
  <2>1. u \in OriginalUsers(v)
    BY <1>4 DEF OriginalUsers, ToSet
  <2>2. PICK l \in next + 1..Len(vals) : vals[l] = u
    BY <1>1, <1>4, <2>1 DEF Ordered, UsersAfter, Done, Behind
  <2>3. PICK i \in 1..next - 1 : vals[i] = u
    BY <1>4 DEF Pooled, Passed
  <2> QED
    BY <1>1, <2>0, <2>2, <2>3
<1>5. ASSUME NEW u \in Value, u = v \/ operandPool[u] # None, NEW ops, AllTaken(u, ops),
             \A w : w # v => operandPool'[w] = operandPool[w]
      PROVE  AllTaken(u, ops)'
  <2>1. IsPhi(v) \/ \A k \in DOMAIN program.ops[u] : program.ops[u][k] # v
    <3>1. CASE u = v
      <4>1. v \in ToSet(program.ops[v]) => IsPhi(v)
        BY <1>1, ProgramAssumption DEF Typed, IsPhi, Kind
      <4> QED
        BY <3>1, <4>1 DEF ToSet
    <3>2. CASE u # v
      BY <1>4, <1>5, <3>2
    <3> QED
      BY <3>1, <3>2
  <2> QED
    BY <1>1, <1>3, <1>5, <2>1, TakenKept
<1>6. ASSUME NEW u, Written(u), <<"old", u>> \in DOMAIN graph',
             graph'[<<"old", u>>] = graph[<<"old", u>>]
      PROVE  Written(u)'
  <2>1. \A w : AsRead(w)' = AsRead(w)
    BY <1>1 DEF AsRead, IsPhi, Kind, Old
  <2> QED
    BY <1>1, <1>6, <2>1 DEF Written, Ops
<1>7. /\ \A u : Old(u)' = Old(u)
      /\ Old(v).role = "old" /\ ConversionError.role = "error" /\ None.role = "none"
      /\ \A u \in Value : Old(u) # None
      /\ \A as : New(v, as).role = "new"
  BY ZenonT(40), <1>1, OldFields, PoolTyped DEF Old, New, Operand
\* What holds when the new version of v, if there is one, and v itself are right.
<1>8. ASSUME NEW x, operandPool' = [operandPool EXCEPT ![v] = x],
             DOMAIN graph' = DOMAIN graph \cup (IF x.role = "new" THEN {<<"new", v>>} ELSE {}),
             \A n \in DOMAIN graph : n # <<"old", v>> /\ n # <<"new", v>> => graph'[n] = graph[n],
             IF x = Old(v) THEN AllTaken(v, Ops(v))'
             ELSE graph'[<<"old", v>>] = graph[<<"old", v>>],
             x.role = "new" => AllTaken(v, graph[<<"new", v>>])'
      PROVE  Converting'
  <2>1. /\ \A u : u # v => operandPool'[u] = operandPool[u]
        /\ operandPool'[v] = x
    BY <1>1, <1>8
  <2>2. DOMAIN graph' = ({"old"} \X Value) \cup NewNodes'
    <3>1. NewNodes' = NewNodes \cup (IF x.role = "new" THEN {<<"new", v>>} ELSE {})
      BY <1>1, <1>7, <2>1 DEF NewNodes
    <3> QED
      BY <1>2, <1>8, <3>1
  <2>3. ASSUME NEW u \in Value
        PROVE  IF operandPool'[u] = Old(u) THEN AllTaken(u, Ops(u))' ELSE Written(u)'
    <3>1. CASE u = v
      <4>1. <<"old", v>> \in DOMAIN graph'
        BY <1>1, <2>2
      <4> QED
        BY <1>1, <1>6, <1>8, <2>1, <3>1, <4>1 DEF Ops
    <3>2. CASE u # v
      <4>1. <<"old", u>> \in DOMAIN graph /\ <<"old", u>> \in DOMAIN graph' /\ <<"old", u>> # <<"new", v>>
            /\ <<"old", u>> # <<"old", v>>
        BY <1>2, <2>2, <3>2
      <4>2. graph'[<<"old", u>>] = graph[<<"old", u>>] /\ operandPool'[u] = operandPool[u]
        BY <1>8, <2>1, <3>2, <4>1
      <4>3. CASE operandPool[u] = Old(u)
        <5>1. AllTaken(u, Ops(u)) /\ operandPool[u] # None
          BY <1>2, <1>7, <4>3
        <5>2. AllTaken(u, Ops(u))'
          <6> PICK ops : ops = Ops(u)
            OBVIOUS
          <6>1. Ops(u)' = ops
            BY <4>2 DEF Ops
          <6>2. AllTaken(u, ops)'
            BY <1>5, <2>1, <5>1
          <6> QED
            BY <6>1, <6>2 DEF AllTaken, Taken, Version, IsPhi, Kind
        <5> QED
          BY <4>2, <4>3, <5>2
      <4>4. CASE operandPool[u] # Old(u)
        BY <1>2, <1>6, <4>1, <4>2, <4>4
      <4> QED
        BY <4>3, <4>4
    <3> QED
      BY <3>1, <3>2
  <2>4. ASSUME NEW u \in Value, operandPool'[u].role = "new"
        PROVE  AllTaken(u, graph[<<"new", u>>])'
    <3>1. CASE u = v
      BY <1>8, <2>1, <2>4, <3>1
    <3>2. CASE u # v
      <4>1. operandPool[u].role = "new" /\ operandPool[u] # None
        BY <1>7, <2>1, <2>4, <3>2
      <4>2. <<"new", u>> \in DOMAIN graph /\ <<"new", u>> # <<"old", v>> /\ <<"new", u>> # <<"new", v>>
        BY <1>2, <3>2, <4>1 DEF NewNodes
      <4> PICK ops : ops = graph[<<"new", u>>]
        OBVIOUS
      <4>3. graph'[<<"new", u>>] = ops
        BY <1>8, <4>2
      <4>4. AllTaken(u, ops)'
        BY <1>2, <1>5, <2>1, <4>1
      <4> QED
        BY <4>3, <4>4 DEF AllTaken, Taken, Version, IsPhi, Kind
    <3> QED
      BY <3>1, <3>2
  <2> QED
    BY <1>7, <2>2, <2>3, <2>4 DEF Converting
<1>9. <<"old", v>> \in DOMAIN graph
  BY <1>1, <1>2
<1>10. CASE Fails(v)
  BY <1>7, <1>8, <1>10 DEF Fails
<1>11. ASSUME NEW ops, StaysWith(v, ops), AllTaken(v, ops)
       PROVE  Converting'
  <2>1. /\ operandPool' = [operandPool EXCEPT ![v] = Old(v)]
        /\ DOMAIN graph' = DOMAIN graph /\ graph'[<<"old", v>>] = ops
        /\ \A n \in DOMAIN graph : n # <<"old", v>> => graph'[n] = graph[n]
    BY <1>9, <1>11 DEF StaysWith
  <2>2. AllTaken(v, ops)'
    BY <1>1, <1>5, <1>11, <2>1
  <2>3. AllTaken(v, Ops(v))'
    BY <2>1, <2>2 DEF AllTaken, Taken, Version, IsPhi, Kind, Ops
  <2> QED
    BY <1>7, <1>8, <2>1, <2>3
<1>12. ASSUME NEW ops, NEW as \in {"float", "fix"}, Becomes(v, ops, as), AllTaken(v, ops)
       PROVE  Converting'
  <2>1. /\ operandPool' = [operandPool EXCEPT ![v] = New(v, as)]
        /\ DOMAIN graph' = DOMAIN graph \cup {<<"new", v>>} /\ graph'[<<"new", v>>] = ops
        /\ \A n \in DOMAIN graph : n # <<"new", v>> => graph'[n] = graph[n]
    BY <1>12 DEF Becomes
  <2>2. AllTaken(v, ops)'
    BY <1>1, <1>5, <1>12, <2>1
  <2>3. AllTaken(v, graph[<<"new", v>>])'
    BY <2>1, <2>2 DEF AllTaken, Taken, Version, IsPhi, Kind
  <2>4. New(v, as) # Old(v) /\ New(v, as).role = "new" /\ <<"old", v>> # <<"new", v>>
    BY <1>7
  <2> QED
    BY <1>8, <1>9, <2>1, <2>3, <2>4
<1> QED
  BY <1>1, <1>10, <1>11, <1>12 DEF Result

\* Every step keeps what the conversion has made.
LEMMA ConvertingStep ==
    ASSUME Typed, Ordered, Held, KeptTypes, Opened, Pooled, Converting, [Next]_vars
    PROVE  Converting'
<1>1. CASE phase' \notin {"convert", "close"}
  BY <1>1 DEF Converting
<1>2. CASE FinishSort
  <2>1. /\ phase = "sort" /\ program' = program /\ operandPool' = operandPool /\ graph' = graph
        /\ vals' = vals
    BY <1>2 DEF FinishSort
  <2>2. \A v \in Value : operandPool[v] = None /\ None.role = "none" /\ None # Old(v)
    BY <2>1, PoolTyped, OldFields DEF Pooled, Passed
  <2>3. DOMAIN graph = {"old"} \X Value /\ \A v \in Value : Written(v)
    BY <1>2, AllWritten
  <2>4. \A v : Written(v)' = Written(v) /\ Old(v)' = Old(v)
    BY <2>1 DEF Written, Ops, AsRead, IsPhi, Kind, Old
  <2>5. NewNodes' = {}
    BY <2>1, <2>2 DEF NewNodes
  <2> QED
    BY <2>1, <2>2, <2>3, <2>4, <2>5 DEF Converting
<1>3. ASSUME UNCHANGED <<program, vals, noTypeConversion, operandPool, graph>>,
             phase \in {"convert", "close"}
      PROVE  Converting'
  <2>1. \A v, ops : AllTaken(v, ops)' = AllTaken(v, ops)
    BY <1>3 DEF AllTaken, Taken, Version, IsPhi, Kind
  <2>2. \A v : /\ Written(v)' = Written(v) /\ Old(v)' = Old(v) /\ Ops(v)' = Ops(v)
               /\ AllTaken(v, Ops(v))' = AllTaken(v, Ops(v))
               /\ AllTaken(v, graph[<<"new", v>>])' = AllTaken(v, graph[<<"new", v>>])
    BY <1>3 DEF Written, Ops, AsRead, IsPhi, Kind, Old, AllTaken, Taken, Version
  <2>3. NewNodes' = NewNodes
    BY <1>3 DEF NewNodes
  <2> QED
    BY <1>3, <2>2, <2>3 DEF Converting
<1>4. CASE UNCHANGED vars
  BY <1>1, <1>3, <1>4 DEF vars
<1>5. CASE SortNext
  BY <1>1, <1>5 DEF SortNext
<1>6. CASE FinishConversion
  BY <1>3, <1>6 DEF FinishConversion
<1> QED
  BY <1>1, <1>2, <1>4, <1>5, <1>6, ConvertingConvert
     DEF Next, Step, Finished, ClosePhiLoops, Cleanup

(***************************************************************************)
(* The code once the loops are closed: what was converted takes the        *)
(* versions of its operands, what was not takes those the program has.     *)
(***************************************************************************)
Names(o, role, w, gone) ==
    IF w = Const THEN o.role = "const"
    ELSE \/ o.role = role /\ o.v = w
         \/ role = "old" /\ w \in gone /\ o.role = "undef"

AllNamed(v, ops, converted) ==
    /\ DOMAIN ops = DOMAIN program.ops[v]
    /\ \A k \in DOMAIN program.ops[v] :
          Names(ops[k], IF converted THEN Version(program.ops[v][k]) ELSE "old", program.ops[v][k], erased)

PhisConverted == \A p \in ToSet(vals) : IsPhi(p) => p \notin Failed

Rewired ==
    /\ phase # "done" => erased = {}
    /\ phase = "done" => erased = ToErase
    /\ phase \in {"cleanup", "done"} /\ PhisConverted =>
          /\ DOMAIN graph = ({"old"} \X (Value \ erased)) \cup NewNodes
          /\ \A v \in Value \ erased : AllNamed(v, Ops(v), operandPool[v] = Old(v))
          /\ \A v \in Value : operandPool[v].role = "new" => AllNamed(v, graph[<<"new", v>>], TRUE)

\* At the end of the conversion all of the queue is recorded.
LEMMA PhiVersion ==
    ASSUME Typed, Pooled, phase = "close", PhisConverted, NEW w \in ToSet(vals), IsPhi(w)
    PROVE  /\ operandPool[w] \in Versions(w) /\ operandPool[w] \in AnyOperand
           /\ operandPool[w].v = w /\ operandPool[w].role \in {"old", "new"}
           /\ operandPool[w].role = Version(w)
<1>1. w \in Value /\ Passed(w)
  <2>1. /\ vals \in Queues /\ Len(vals) \in Nat /\ ToSet(vals) = {vals[i] : i \in 1..Len(vals)}
        /\ ToSet(vals) \subseteq Value
    BY QueueFacts DEF Typed
  <2>2. next = Len(vals) + 1
    BY DEF Pooled
  <2> QED
    BY <2>1, <2>2 DEF Passed
<1>2. operandPool[w] \in {None, ConversionError} \cup Versions(w) /\ operandPool[w] # None
      /\ operandPool[w] # ConversionError
  BY <1>1 DEF Pooled, PhisConverted, Failed
<1>3. operandPool[w] \in Versions(w)
  BY <1>2
<1>4. /\ operandPool[w] \in AnyOperand
      /\ operandPool[w].v = w /\ operandPool[w].role \in {"old", "new"}
  BY <1>1, <1>2, <1>3, VersionFields
<1> QED
  BY <1>3, <1>4 DEF Version

\* Closing a loop leaves what was converted with versions of its operands.
LEMMA ClosedTaken ==
    ASSUME Typed, Pooled, phase = "close", PhisConverted, NEW w \in Value \cup {Const},
           NEW o, Taken(o, w)
    PROVE  IF w = Const THEN Closed(o).role = "const"
           ELSE Closed(o).role = Version(w) /\ Closed(o).v = w
<1>1. CASE w = Const
  BY <1>1 DEF Taken, Closed
<1>2. CASE w # Const /\ w \in ToSet(vals) /\ IsPhi(w)
  <2>1. /\ operandPool[w] \in AnyOperand /\ operandPool[w].v = w /\ operandPool[w].role = Version(w)
    BY <1>2, PhiVersion
  <2>2. o.v = w /\ o.role = IF w \in noTypeConversion THEN "noconv" ELSE "conv"
    BY <1>2 DEF Taken
  <2>3. Closed(o) = [operandPool[w] EXCEPT !.as = o.as]
    BY <2>2 DEF Closed
  <2>4. \A as : /\ [operandPool[w] EXCEPT !.as = as].role = operandPool[w].role
                /\ [operandPool[w] EXCEPT !.as = as].v = operandPool[w].v
    BY <2>1 DEF AnyOperand
  <2> QED
    BY <1>2, <2>1, <2>3, <2>4
<1>3. CASE w # Const /\ ~(w \in ToSet(vals) /\ IsPhi(w))
  <2>1. o.v = w /\ o.role = Version(w) /\ Version(w) \in {"old", "new"}
    BY <1>3 DEF Taken, Version
  <2> QED
    BY <1>3, <2>1 DEF Closed
<1> QED
  BY <1>1, <1>2, <1>3

\* It leaves what was not converted with the operands the program has.
LEMMA ClosedWritten ==
    ASSUME Typed, Pooled, phase = "close", PhisConverted, NEW w \in Value \cup {Const}
    PROVE  IF w = Const THEN Closed(AsRead(w)).role = "const"
           ELSE Closed(AsRead(w)).role = "old" /\ Closed(AsRead(w)).v = w
<1> PICK o : o = AsRead(w)
  OBVIOUS
<1>0. ToSet(vals) \subseteq Value
  BY QueueFacts DEF Typed
<1>1. CASE w = Const
  <2>1. o = Old(w) /\ o.role = "const"
    BY <1>0, <1>1, ValueAssumption, OldFields DEF AsRead
  <2> QED
    BY <1>1, <2>1 DEF Closed
<1>2. CASE w # Const /\ w \in ToSet(vals) /\ IsPhi(w)
  <2>1. /\ operandPool[w] \in AnyOperand /\ operandPool[w].v = w
        /\ operandPool[w].role \in {"old", "new"}
    BY <1>2, PhiVersion
  <2>2. o \in AnyOperand /\ o.role = "noconv" /\ o.v = w
    BY <1>2, OperandFields DEF AsRead, Roles
  <2>3. CASE w \in noTypeConversion
    <3>1. Closed(o) = [operandPool[w] EXCEPT !.as = o.as] /\ operandPool[w].role = "old"
      BY <1>0, <1>2, <2>1, <2>2, <2>3 DEF Closed, Pooled
    <3>2. \A as : /\ [operandPool[w] EXCEPT !.as = as].role = operandPool[w].role
                  /\ [operandPool[w] EXCEPT !.as = as].v = operandPool[w].v
      BY <2>1 DEF AnyOperand
    <3> QED
      BY <1>2, <2>1, <3>1, <3>2
  <2>4. CASE w \notin noTypeConversion
    <3>1. Closed(o) = [o EXCEPT !.role = "old"]
      BY <2>2, <2>4 DEF Closed
    <3>2. [o EXCEPT !.role = "old"].role = "old" /\ [o EXCEPT !.role = "old"].v = o.v
      BY <2>2 DEF AnyOperand
    <3> QED
      BY <1>2, <2>2, <3>1, <3>2
  <2> QED
    BY <2>3, <2>4
<1>3. CASE w # Const /\ ~(w \in ToSet(vals) /\ IsPhi(w))
  <2>1. o = Old(w) /\ o.role = "old" /\ o.v = w
    BY <1>3, OldFields DEF AsRead
  <2> QED
    BY <1>3, <2>1 DEF Closed
<1> QED
  BY <1>1, <1>2, <1>3

\* Closing the loops.
LEMMA RewiredClose ==
    ASSUME Typed, Pooled, Converting, Rewired, ClosePhiLoops
    PROVE  Rewired'
<1>1. /\ phase = "close" /\ phase' = "cleanup" /\ erased' = erased /\ erased = {}
      /\ UNCHANGED <<program, vals, noTypeConversion, operandPool>>
      /\ graph' = [n \in DOMAIN graph |-> [k \in DOMAIN graph[n] |-> Closed(graph[n][k])]]
  BY DEF ClosePhiLoops, Rewired
<1>2. /\ DOMAIN graph = ({"old"} \X Value) \cup NewNodes
      /\ \A v \in Value : IF operandPool[v] = Old(v) THEN AllTaken(v, Ops(v)) ELSE Written(v)
      /\ \A v \in Value : operandPool[v].role = "new" => AllTaken(v, graph[<<"new", v>>])
  BY <1>1 DEF Converting
<1>3. PhisConverted' = PhisConverted /\ NewNodes' = NewNodes
  BY <1>1 DEF PhisConverted, Failed, NewNodes, IsPhi, Kind
<1>4. /\ \A v : Old(v)' = Old(v)
      /\ \A v, k : Version(program.ops[v][k])' = Version(program.ops[v][k])
  BY <1>1 DEF Old, Version
<1>5. ASSUME PhisConverted, NEW v \in Value, NEW ops, AllTaken(v, ops), NEW n \in DOMAIN graph,
             graph[n] = ops
      PROVE  /\ DOMAIN graph'[n] = DOMAIN program.ops[v]
             /\ \A k \in DOMAIN program.ops[v] :
                   Names(graph'[n][k], Version(program.ops[v][k]), program.ops[v][k], erased)
  <2>1. DOMAIN ops = DOMAIN program.ops[v] /\ \A k \in DOMAIN program.ops[v] : Taken(ops[k], program.ops[v][k])
    BY <1>5 DEF AllTaken
  <2>2. graph'[n] = [k \in DOMAIN ops |-> Closed(ops[k])]
    BY <1>1, <1>5
  <2>3. ASSUME NEW k \in DOMAIN program.ops[v]
        PROVE  Names(graph'[n][k], Version(program.ops[v][k]), program.ops[v][k], erased)
    <3> PICK w \in Value \cup {Const} : w = program.ops[v][k]
      BY ProgramShape DEF Typed
    <3>1. graph'[n][k] = Closed(ops[k]) /\ Taken(ops[k], w)
      BY <2>1, <2>2
    <3>2. IF w = Const THEN Closed(ops[k]).role = "const"
          ELSE Closed(ops[k]).role = Version(w) /\ Closed(ops[k]).v = w
      BY <1>1, <1>5, <3>1, ClosedTaken
    <3> QED
      BY <3>1, <3>2 DEF Names
  <2> QED
    BY <2>1, <2>2, <2>3
<1>6. ASSUME PhisConverted, NEW v \in Value, Written(v)
      PROVE  /\ DOMAIN Ops(v)' = DOMAIN program.ops[v]
             /\ \A k \in DOMAIN program.ops[v] : Names(Ops(v)'[k], "old", program.ops[v][k], erased)
  <2>1. /\ DOMAIN Ops(v) = DOMAIN program.ops[v] /\ <<"old", v>> \in DOMAIN graph
        /\ \A k \in DOMAIN program.ops[v] : Ops(v)[k] = AsRead(program.ops[v][k])
    BY <1>6 DEF Written
  <2>2. Ops(v)' = [k \in DOMAIN Ops(v) |-> Closed(Ops(v)[k])]
    BY <1>1, <2>1 DEF Ops
  <2>3. ASSUME NEW k \in DOMAIN program.ops[v]
        PROVE  Names(Ops(v)'[k], "old", program.ops[v][k], erased)
    <3> PICK w \in Value \cup {Const} : w = program.ops[v][k]
      BY ProgramShape DEF Typed
    <3>1. Ops(v)'[k] = Closed(AsRead(w))
      BY <2>1, <2>2
    <3>2. IF w = Const THEN Closed(AsRead(w)).role = "const"
          ELSE Closed(AsRead(w)).role = "old" /\ Closed(AsRead(w)).v = w
      BY <1>1, <1>6, ClosedWritten
    <3> QED
      BY <3>1, <3>2 DEF Names
  <2> QED
    BY <2>1, <2>2, <2>3
<1>7. DOMAIN graph' = ({"old"} \X (Value \ erased)) \cup NewNodes
  BY <1>1, <1>2
<1>8. ASSUME PhisConverted, NEW v \in Value
      PROVE  AllNamed(v, Ops(v), operandPool[v] = Old(v))'
  <2>1. <<"old", v>> \in DOMAIN graph
    BY <1>2
  <2>2. CASE operandPool[v] = Old(v)
    <3>1. AllTaken(v, Ops(v)) /\ graph[<<"old", v>>] = Ops(v) /\ graph'[<<"old", v>>] = Ops(v)'
      BY <1>2, <2>2 DEF Ops
    <3>2. /\ DOMAIN Ops(v)' = DOMAIN program.ops[v]
          /\ \A k \in DOMAIN program.ops[v] :
                Names(Ops(v)'[k], Version(program.ops[v][k]), program.ops[v][k], erased)
      BY <1>5, <1>8, <2>1, <3>1
    <3> QED
      BY <1>1, <1>4, <2>2, <3>2 DEF AllNamed, Version
  <2>3. CASE operandPool[v] # Old(v)
    <3>1. /\ DOMAIN Ops(v)' = DOMAIN program.ops[v]
          /\ \A k \in DOMAIN program.ops[v] : Names(Ops(v)'[k], "old", program.ops[v][k], erased)
      BY <1>2, <1>6, <1>8, <2>3
    <3> QED
      BY <1>1, <1>4, <2>3, <3>1 DEF AllNamed
  <2> QED
    BY <2>2, <2>3
<1>9. ASSUME PhisConverted, NEW v \in Value, operandPool[v].role = "new"
      PROVE  AllNamed(v, graph[<<"new", v>>], TRUE)'
  <2>1. <<"new", v>> \in DOMAIN graph
    BY <1>2, <1>9 DEF NewNodes
  <2>2. /\ DOMAIN graph'[<<"new", v>>] = DOMAIN program.ops[v]
        /\ \A k \in DOMAIN program.ops[v] :
              Names(graph'[<<"new", v>>][k], Version(program.ops[v][k]), program.ops[v][k], erased)
    BY <1>2, <1>5, <1>9, <2>1
  <2> QED
    BY <1>1, <1>4, <2>2 DEF AllNamed, Version
<1> QED
  BY <1>1, <1>3, <1>7, <1>8, <1>9 DEF Rewired

\* Removing instructions leaves undefined values in their places.
LEMMA RewiredCleanup ==
    ASSUME Typed, Rewired, Cleanup
    PROVE  Rewired'
<1>1. /\ phase = "cleanup" /\ phase' = "done" /\ erased' = ToErase /\ erased = {}
      /\ UNCHANGED <<program, vals, noTypeConversion, operandPool, roots>>
      /\ graph' = [n \in DOMAIN graph \ {<<"old", v>> : v \in ToErase} |->
                    [k \in DOMAIN graph[n] |->
                        LET o == graph[n][k]
                        IN  IF o.role = "old" /\ o.v \in ToErase
                            THEN Operand("undef", Const, o.as) ELSE o]]
  BY DEF Cleanup, Rewired
<1>2. ToErase' = ToErase /\ PhisConverted' = PhisConverted /\ NewNodes' = NewNodes
  BY <1>1 DEF ToErase, RootOk, InvalidRoots, PotentiallyUsesMemory, PhisConverted, Failed, NewNodes, IsPhi, Kind, Old
<1>3. \A v : Old(v)' = Old(v)
  BY <1>1 DEF Old
<1>4. ASSUME NEW n \in DOMAIN graph', NEW v, NEW converted, AllNamed(v, graph[n], converted)
      PROVE  /\ DOMAIN graph'[n] = DOMAIN program.ops[v]
             /\ \A k \in DOMAIN program.ops[v] :
                   Names(graph'[n][k], IF converted THEN Version(program.ops[v][k]) ELSE "old", program.ops[v][k], ToErase)
  <2>1. /\ DOMAIN graph[n] = DOMAIN program.ops[v] /\ n \in DOMAIN graph
        /\ graph'[n] = [k \in DOMAIN graph[n] |->
                        LET o == graph[n][k]
                        IN  IF o.role = "old" /\ o.v \in ToErase
                            THEN Operand("undef", Const, o.as) ELSE o]
    BY <1>1, <1>4 DEF AllNamed
  <2>2. ASSUME NEW k \in DOMAIN program.ops[v]
        PROVE  Names(graph'[n][k], IF converted THEN Version(program.ops[v][k]) ELSE "old", program.ops[v][k], ToErase)
    <3> PICK o, role, w : /\ o = graph[n][k] /\ w = program.ops[v][k]
                          /\ role = IF converted THEN Version(program.ops[v][k]) ELSE "old"
      OBVIOUS
    <3>1. IF w = Const THEN o.role = "const" ELSE o.role = role /\ o.v = w
      BY <1>1, <1>4 DEF AllNamed, Names
    <3>2. graph'[n][k] = IF o.role = "old" /\ o.v \in ToErase THEN Operand("undef", Const, o.as) ELSE o
      BY <2>1
    <3>3. \A as : Operand("undef", Const, as).role = "undef"
      BY DEF Operand
    <3>4. IF w = Const THEN graph'[n][k].role = "const"
          ELSE \/ graph'[n][k].role = role /\ graph'[n][k].v = w
               \/ role = "old" /\ w \in ToErase /\ graph'[n][k].role = "undef"
      BY <3>1, <3>2, <3>3
    <3> QED
      BY <3>4 DEF Names
  <2> QED
    BY <2>1, <2>2
<1>5. ASSUME PhisConverted
      PROVE  /\ DOMAIN graph' = ({"old"} \X (Value \ ToErase)) \cup NewNodes
             /\ \A v \in Value \ ToErase : AllNamed(v, Ops(v), operandPool[v] = Old(v))'
             /\ \A v \in Value : operandPool[v].role = "new" => AllNamed(v, graph[<<"new", v>>], TRUE)'
  <2>1. /\ DOMAIN graph = ({"old"} \X Value) \cup NewNodes
        /\ \A v \in Value : AllNamed(v, Ops(v), operandPool[v] = Old(v))
        /\ \A v \in Value : operandPool[v].role = "new" => AllNamed(v, graph[<<"new", v>>], TRUE)
    BY <1>1, <1>5 DEF Rewired
  <2>2. DOMAIN graph' = ({"old"} \X (Value \ ToErase)) \cup NewNodes
    BY <1>1, <2>1 DEF NewNodes
  <2>3. ASSUME NEW v \in Value \ ToErase PROVE AllNamed(v, Ops(v), operandPool[v] = Old(v))'
    <3>1. <<"old", v>> \in DOMAIN graph' /\ AllNamed(v, graph[<<"old", v>>], operandPool[v] = Old(v))
      BY <2>1, <2>2 DEF Ops
    <3>2. /\ DOMAIN graph'[<<"old", v>>] = DOMAIN program.ops[v]
          /\ \A k \in DOMAIN program.ops[v] :
                Names(graph'[<<"old", v>>][k],
                      IF operandPool[v] = Old(v) THEN Version(program.ops[v][k]) ELSE "old",
                      program.ops[v][k], ToErase)
      BY <1>4, <3>1
    <3> QED
      BY <1>1, <1>3, <3>2 DEF AllNamed, Ops, Version
  <2>4. ASSUME NEW v \in Value, operandPool[v].role = "new"
        PROVE  AllNamed(v, graph[<<"new", v>>], TRUE)'
    <3>1. <<"new", v>> \in DOMAIN graph' /\ AllNamed(v, graph[<<"new", v>>], TRUE)
      BY <2>1, <2>2, <2>4 DEF NewNodes
    <3>2. /\ DOMAIN graph'[<<"new", v>>] = DOMAIN program.ops[v]
          /\ \A k \in DOMAIN program.ops[v] :
                Names(graph'[<<"new", v>>][k], Version(program.ops[v][k]), program.ops[v][k], ToErase)
      BY <1>4, <3>1
    <3> QED
      BY <1>1, <3>2 DEF AllNamed, Version
  <2> QED
    BY <2>2, <2>3, <2>4
<1> QED
  BY <1>1, <1>2, <1>5 DEF Rewired

\* Every step keeps the code as it is rewired.
LEMMA RewiredStep ==
    ASSUME Typed, Pooled, Converting, Rewired, [Next]_vars
    PROVE  Rewired'
<1>1. ASSUME phase' \notin {"cleanup", "done"}, erased' = erased, phase # "done" PROVE Rewired'
  BY <1>1 DEF Rewired
<1>2. CASE UNCHANGED vars
  <2>1. ToErase' = ToErase /\ PhisConverted' = PhisConverted /\ NewNodes' = NewNodes
    BY <1>2 DEF vars, ToErase, RootOk, InvalidRoots, PotentiallyUsesMemory, PhisConverted,
                Failed, NewNodes, IsPhi, Kind, Old
  <2>2. \A v : /\ AllNamed(v, Ops(v), operandPool[v] = Old(v))' = AllNamed(v, Ops(v), operandPool[v] = Old(v))
               /\ AllNamed(v, graph[<<"new", v>>], TRUE)' = AllNamed(v, graph[<<"new", v>>], TRUE)
    BY <1>2 DEF vars, AllNamed, Version, Ops, Old
  <2> QED
    BY <1>2, <2>1, <2>2 DEF vars, Rewired
<1> QED
  BY <1>1, <1>2, RewiredClose, RewiredCleanup
     DEF Next, Step, Finished, SortNext, FinishSort, ConvertNext, FinishConversion

(***************************************************************************)
(* The code that is left.  A value survives in its new version if it has   *)
(* one and is not damaged.                                                 *)
(***************************************************************************)
Survivor(v) == <<IF operandPool[v].role = "new" /\ ~Damaged(v) THEN "new" ELSE "old", v>>

Final ==
    /\ phase = "done" /\ Contained
    /\ Typed /\ Ordered /\ Held /\ Traced /\ HandedOn /\ KeptTypes /\ Pooled /\ Rewired

\* What is recorded of a value in the end.
LEMMA FinalPool ==
    ASSUME Final, NEW v \in Value
    PROVE  /\ operandPool[v].role \in {"none", "error", "old", "new"}
           /\ operandPool[v].role = "none" <=> v \notin ToSet(vals)
           /\ operandPool[v].role = "error" => Damaged(v)
           /\ operandPool[v].role = "old" <=> operandPool[v] = Old(v)
           /\ operandPool[v].role = "new" => Kind(v) # "ret"
           /\ operandPool[v].as = "fix" => operandPool[v].role = "new"
<1>0. /\ vals \in Queues /\ Len(vals) \in Nat /\ ToSet(vals) = {vals[i] : i \in 1..Len(vals)}
      /\ ToSet(vals) \subseteq Value
  BY QueueFacts DEF Final, Typed
<1>1. Passed(v) <=> v \in ToSet(vals)
  <2>1. next = Len(vals) + 1 /\ phase # "sort"
    BY DEF Final, Pooled
  <2> QED
    BY <1>0, <2>1 DEF Passed
<1> PICK x : x = operandPool[v]
  OBVIOUS
<1>2. /\ x \in {None, ConversionError} \cup Versions(v)
      /\ x = None <=> v \notin ToSet(vals)
      /\ x.role = "new" /\ Kind(v) = "ret" => v \notin noTypeConversion
  BY <1>1 DEF Final, Pooled
<1>3. /\ x.role \in {"none", "error", "old", "new"}
      /\ x.role = "none" => x = None
      /\ x.role = "error" => x = ConversionError
      /\ x.role = "old" => x = Old(v) /\ x.as = "float"
      /\ x.role \in {"none", "error"} => x.as = "float"
  BY <1>2, VersionFields
<1>4. x = None => x.role = "none"
  BY PoolTyped
<1>5. x = Old(v) => x.role = "old"
  BY OldFields
<1>6. ASSUME x.role = "error" PROVE Damaged(v)
  <2>1. v \in Failed
    BY <1>2, <1>3, <1>6, PoolTyped DEF Failed
  <2> QED
    BY <2>1 DEF Final, Contained
<1>7. x.role = "new" => Kind(v) # "ret"
  <2>1. x.role = "new" => v \in ToSet(vals)
    BY <1>2, <1>4
  <2> QED
    BY <1>2, <2>1 DEF Final, KeptTypes
<1> QED
  BY <1>2, <1>3, <1>4, <1>5, <1>6, <1>7

\* What reads a value of the queue is damaged with it.
LEMMA DamageSpreads ==
    ASSUME UsersMarked, Final, NEW v \in ToSet(vals), NEW u \in OriginalUsers(v)
    PROVE  u \in ToSet(vals) /\ (Damaged(u) <=> Damaged(v))
<1>0. /\ vals \in Queues /\ Len(vals) \in Nat /\ ToSet(vals) = {vals[i] : i \in 1..Len(vals)}
      /\ ToSet(vals) \subseteq Value
  BY QueueFacts DEF Final, Typed
<1>1. CASE IsPhi(v)
  <2>1. u \in program.meta
    BY <1>1, PhiUsersMarked DEF Final
  <2>2. u \in ToSet(vals)
    BY <2>1 DEF Final, Ordered, Reasons
  <2> QED
    BY <1>1, <2>2 DEF Final, Contained
<1>2. CASE ~IsPhi(v)
  <2>1. PICK k \in 1..Len(vals) : vals[k] = v
    BY <1>0
  <2>2. Done = Len(vals)
    BY DEF Final, Done
  <2>3. Behind(vals, k, u)
    BY <1>2, <2>1, <2>2 DEF Final, Ordered, UsersAfter
  <2>4. u \in ToSet(vals)
    BY <1>0, <2>1, <2>3 DEF Behind
  <2>5. roots[v] # {} /\ roots[v] \subseteq roots[u]
    BY <1>2 DEF Final, HandedOn
  <2>6. Damaged(u) => roots[u] \subseteq InvalidRoots
    BY <2>4 DEF Final, Contained
  <2> QED
    BY <2>4, <2>5, <2>6 DEF Damaged
<1> QED
  BY <1>1, <1>2

\* The instructions of the code that is left.
LEMMA FinalCode ==
    ASSUME Final
    PROVE  /\ DOMAIN graph = ({"old"} \X (Value \ ToErase)) \cup NewNodes
           /\ \A v \in Value \ ToErase : AllNamed(v, graph[<<"old", v>>], operandPool[v] = Old(v))
           /\ \A v \in Value : operandPool[v].role = "new" => AllNamed(v, graph[<<"new", v>>], TRUE)
           /\ erased = ToErase
<1>1. PhisConverted
  BY DEF Final, Contained, PhisConverted
<1> QED
  BY <1>1 DEF Final, Rewired, Ops

\* What is erased was converted, and is not damaged.
LEMMA ErasedConverted ==
    ASSUME Final, NEW v \in ToErase
    PROVE  v \in Value /\ operandPool[v].role = "new" /\ ~Damaged(v)
<1>1. /\ v \in ToSet(vals) /\ v \in Value /\ operandPool[v] # Old(v)
      /\ \A r \in roots[v] : r \notin InvalidRoots
  BY QueueFacts DEF ToErase, RootOk, Final, Typed
<1>2. ~Damaged(v)
  BY <1>1 DEF Damaged
<1> QED
  BY <1>1, <1>2, FinalPool

\* Calls and stores that were converted and are not damaged are erased.
LEMMA ConvertedErased ==
    ASSUME Final, NEW v \in Value, Kind(v) \in {"store", "call", "fixcall"},
           operandPool[v].role = "new", ~Damaged(v)
    PROVE  v \in ToErase
<1>1. v \in ToSet(vals) /\ operandPool[v] # Old(v)
  BY FinalPool
<1>2. \A r \in roots[v] : roots[r] = {r}
  BY <1>1 DEF Final, Traced, RootsSettled
<1>3. \A r \in roots[v] : r \notin InvalidRoots
  BY DEF Damaged
<1> QED
  BY <1>1, <1>2, <1>3 DEF ToErase, RootOk

\* Every value survives.
LEMMA SurvivorStays ==
    ASSUME Final, NEW v \in Value
    PROVE  Survivor(v) \in DOMAIN graph
<1>1. v \in ToErase => operandPool[v].role = "new" /\ ~Damaged(v)
  BY ErasedConverted
<1> QED
  BY <1>1, FinalCode DEF Survivor, NewNodes

\* Its operands are what survives of those that the program has.
LEMMA SurvivorOperands ==
    ASSUME UsersMarked, Final, NEW v \in Value
    PROVE  /\ DOMAIN graph[Survivor(v)] = DOMAIN program.ops[v]
           /\ \A k \in DOMAIN program.ops[v] :
                 IF program.ops[v][k] = Const THEN graph[Survivor(v)][k].role = "const"
                 ELSE Node(graph[Survivor(v)][k]) = Survivor(program.ops[v][k])
<1>0. program \in Programs /\ ToSet(vals) \subseteq Value
  BY QueueFacts DEF Final, Typed
<1> DEFINE converted == Survivor(v) = <<"new", v>> \/ operandPool[v] = Old(v)
<1>1. /\ DOMAIN graph[Survivor(v)] = DOMAIN program.ops[v]
      /\ \A k \in DOMAIN program.ops[v] :
            Names(graph[Survivor(v)][k], IF converted THEN Version(program.ops[v][k]) ELSE "old",
                  program.ops[v][k], erased)
  <2>1. CASE operandPool[v].role = "new" /\ ~Damaged(v)
    <3>1. Survivor(v) = <<"new", v>> /\ AllNamed(v, graph[<<"new", v>>], TRUE)
      BY <2>1, FinalCode DEF Survivor
    <3> QED
      BY <3>1 DEF AllNamed
  <2>2. CASE ~(operandPool[v].role = "new" /\ ~Damaged(v))
    <3>1. v \notin ToErase
      BY <2>2, ErasedConverted
    <3>2. Survivor(v) = <<"old", v>> /\ AllNamed(v, graph[<<"old", v>>], operandPool[v] = Old(v))
      BY <2>2, <3>1, FinalCode DEF Survivor
    <3>3. converted <=> operandPool[v] = Old(v)
      BY <3>2
    <3> QED
      BY <3>2, <3>3 DEF AllNamed
  <2> QED
    BY <2>1, <2>2
<1>2. ASSUME NEW k \in DOMAIN program.ops[v], NEW w \in Value, w = program.ops[v][k]
      PROVE  Node(graph[Survivor(v)][k]) = Survivor(w)
  <2> PICK o, role : o = graph[Survivor(v)][k] /\ role = IF converted THEN Version(w) ELSE "old"
    OBVIOUS
  <2>1. w # Const /\ Names(o, role, w, erased)
    BY <1>1, <1>2, ValueAssumption
  <2>2. v \in OriginalUsers(w)
    BY <1>2 DEF OriginalUsers, ToSet
  <2>3. w \in ToSet(vals) => v \in ToSet(vals) /\ (Damaged(v) <=> Damaged(w))
    BY <2>2, DamageSpreads
  <2>4. <<role, w>> = Survivor(w)
    <3>1. CASE w \notin ToSet(vals)
      BY <3>1, FinalPool DEF Survivor, Version
    <3>2. CASE w \in ToSet(vals) /\ ~Damaged(v)
      <4>1. v \in ToSet(vals) /\ ~Damaged(w)
        BY <2>3, <3>2
      <4>2. converted
        BY <3>2, <4>1, FinalPool DEF Survivor
      <4> QED
        BY <4>1, <4>2 DEF Survivor, Version
    <3>3. CASE w \in ToSet(vals) /\ Damaged(v)
      <4>1. v \in ToSet(vals) /\ Damaged(w) /\ Survivor(v) = <<"old", v>>
        BY <2>3, <3>3 DEF Survivor
      <4>2. CASE ~converted
        BY <4>1, <4>2 DEF Survivor
      <4>3. CASE converted
        <5>1. operandPool[v] = Old(v)
          BY <4>1, <4>3
        <5>2. w \in ToSet(program.ops[v]) \ {Const}
          BY <1>2, <2>1 DEF ToSet
        <5>3. operandPool[w].role # "new"
          BY <3>3, <4>1, <5>1, <5>2 DEF Final, Contained
        <5> QED
          BY <4>1, <5>3 DEF Survivor, Version
      <4> QED
        BY <4>2, <4>3
    <3> QED
      BY <3>1, <3>2, <3>3
  <2>5. role = "old" => w \notin erased
    <3>1. role = "old" => Survivor(w) = <<"old", w>>
      BY <2>4
    <3>2. w \in ToErase => Survivor(w) = <<"new", w>>
      BY ErasedConverted DEF Survivor
    <3> QED
      BY <3>1, <3>2, FinalCode
  <2> QED
    BY <2>1, <2>4, <2>5 DEF Names, Node
<1>3. ASSUME NEW k \in DOMAIN program.ops[v]
      PROVE  IF program.ops[v][k] = Const THEN graph[Survivor(v)][k].role = "const"
             ELSE Node(graph[Survivor(v)][k]) = Survivor(program.ops[v][k])
  <2>1. program.ops[v][k] \in Value \cup {Const}
    BY <1>0, ProgramShape
  <2>2. program.ops[v][k] = Const => graph[Survivor(v)][k].role = "const"
    BY <1>1 DEF Names
  <2> QED
    BY <1>2, <2>1, <2>2
<1> QED
  BY <1>1, <1>3

\* A call or return is left once.
LEMMA EffectSurvives ==
    ASSUME Final, NEW n \in DOMAIN graph, Kind(n[2]) \in {"call", "fixcall", "ret"}
    PROVE  n[2] \in Value /\ n = Survivor(n[2])
<1>1. \/ \E v \in Value \ ToErase : n = <<"old", v>>
      \/ \E v \in Value : n = <<"new", v>> /\ operandPool[v].role = "new"
  BY FinalCode DEF NewNodes
<1>2. ASSUME NEW v \in Value \ ToErase, n = <<"old", v>>
      PROVE  n = Survivor(v)
  <2>1. Kind(v) = "ret" => operandPool[v].role # "new"
    BY FinalPool
  <2>2. Kind(v) \in {"call", "fixcall"} => operandPool[v].role # "new" \/ Damaged(v)
    BY ConvertedErased
  <2> QED
    BY <1>2, <2>1, <2>2 DEF Survivor
<1>3. ASSUME NEW v \in Value, n = <<"new", v>>, operandPool[v].role = "new"
      PROVE  n = Survivor(v)
  <2>1. Kind(v) # "ret" /\ v \in ToSet(vals)
    BY <1>3, FinalPool
  <2>2. Kind(v) \in {"call", "fixcall"} => ~Damaged(v)
    BY <1>3, <2>1 DEF Final, Contained
  <2> QED
    BY <1>3, <2>1, <2>2 DEF Survivor
<1> QED
  BY <1>1, <1>2, <1>3

\* A store is left once, or is the damaged new version of one.
LEMMA StoreSurvives ==
    ASSUME Final, NEW n \in DOMAIN graph, Kind(n[2]) = "store"
    PROVE  /\ n[2] \in Value
           /\ \/ n = Survivor(n[2])
              \/ n = <<"new", n[2]>> /\ operandPool[n[2]].role = "new" /\ Damaged(n[2])
<1>1. \/ \E v \in Value \ ToErase : n = <<"old", v>>
      \/ \E v \in Value : n = <<"new", v>> /\ operandPool[v].role = "new"
  BY FinalCode DEF NewNodes
<1>2. ASSUME NEW v \in Value \ ToErase, n = <<"old", v>>
      PROVE  n = Survivor(v)
  <2>1. operandPool[v].role # "new" \/ Damaged(v)
    BY <1>2, ConvertedErased
  <2> QED
    BY <1>2, <2>1 DEF Survivor
<1>3. ASSUME NEW v \in Value, n = <<"new", v>>, operandPool[v].role = "new"
      PROVE  n = Survivor(v) \/ Damaged(v)
  BY <1>3 DEF Survivor
<1> QED
  BY <1>1, <1>2, <1>3

(***************************************************************************)
(* The memory that instructions access.                                    *)
(***************************************************************************)
Addresses == {a \in Value : IsPointer(a)}
Survivors == {Survivor(v) : v \in Value}
Base == [n \in DOMAIN graph |-> IF Kind(n[2]) = "gep" THEN Node(graph[n][1]) ELSE n]
OriginalBase == [w \in Value |-> IF Kind(w) = "gep" THEN program.ops[w][1] ELSE w]

\* What an address is computed from is one.
LEMMA BaseAddress ==
    ASSUME program \in Programs, NEW a \in Addresses
    PROVE  /\ a \in Value /\ OriginalBase[a] \in Addresses
           /\ Kind(a) = "gep" => 1 \in DOMAIN program.ops[a] /\ program.ops[a][1] \in Addresses
           /\ \A b \in Addresses : b # Const /\ ~IsPhi(b)
<1>1. a \in Value /\ Kind(a) \in {"alloca", "gep"}
  BY DEF Addresses, IsPointer
<1>2. Kind(a) = "gep" => 1 \in DOMAIN program.ops[a]
  BY <1>1, ProgramShape
<1>3. Kind(a) = "gep" => program.ops[a][1] \in Addresses
  BY <1>1, ProgramAssumption DEF Addresses, IsPointer, IsAddress, Kind
<1>4. \A b \in Addresses : b # Const /\ ~IsPhi(b)
  BY ValueAssumption DEF Addresses, IsPointer, IsPhi
<1> QED
  BY <1>1, <1>2, <1>3, <1>4 DEF OriginalBase

\* What survives of an address leads to what survives of the memory that it led
\* to in the program.
LEMMA MemorySurvives ==
    ASSUME UsersMarked, Final, NEW a \in Addresses, NEW o, Node(o) = Survivor(a)
    PROVE  OriginalMemory(a) \in Addresses /\ Memory(o) = Survivor(OriginalMemory(a))
<1> PICK m \in Nat : m = Cardinality(Value)
  BY ValueAssumption, FS_CardinalityType
<1> DEFINE A == {Survivor(b) : b \in Addresses}
           R == {<<Survivor(b), b>> : b \in Addresses}
<1>0. program \in Programs
  BY DEF Final, Typed
<1>1. ASSUME NEW b \in Addresses
      PROVE  OriginalBase[b] \in Addresses /\ Base[Survivor(b)] = Survivor(OriginalBase[b])
  <2>1. /\ b \in Value /\ OriginalBase[b] \in Addresses
        /\ Kind(b) = "gep" => 1 \in DOMAIN program.ops[b] /\ program.ops[b][1] \in Addresses
        /\ \A c \in Addresses : c # Const
    BY <1>0, BaseAddress
  <2>2. Survivor(b) \in DOMAIN graph /\ Survivor(b)[2] = b
    BY <2>1, SurvivorStays DEF Survivor
  <2>3. CASE Kind(b) = "gep"
    <3>1. Node(graph[Survivor(b)][1]) = Survivor(program.ops[b][1])
      BY <2>1, <2>3, SurvivorOperands
    <3> QED
      BY <2>1, <2>2, <2>3, <3>1 DEF Base, OriginalBase
  <2>4. CASE Kind(b) # "gep"
    BY <2>1, <2>2, <2>4 DEF Base, OriginalBase
  <2> QED
    BY <2>1, <2>3, <2>4
<1>2. Inside(Base, A) /\ Inside(OriginalBase, Addresses)
  BY <1>1 DEF Inside
<1>3. KeepsPairs(Base, OriginalBase, R)
  <2> SUFFICES ASSUME NEW x, NEW b, <<x, b>> \in R PROVE <<Base[x], OriginalBase[b]>> \in R
    BY DEF KeepsPairs
  <2>1. b \in Addresses /\ x = Survivor(b)
    OBVIOUS
  <2> QED
    BY <1>1, <2>1
<1>4. R \in SUBSET (A \X Addresses) /\ Survivor(a) \in A /\ <<Survivor(a), a>> \in R
  OBVIOUS
<1> HIDE DEF A
<1>5. <<Repeated(Base, m, Survivor(a)), Repeated(OriginalBase, m, a)>> \in R
  <2> HIDE DEF R
  <2> QED
    BY <1>2, <1>3, <1>4, LockStep
<1>6. Memory(o) = Repeated(Base, m, Survivor(a)) /\ OriginalMemory(a) = Repeated(OriginalBase, m, a)
  BY DEF Memory, OriginalMemory, Base, OriginalBase
<1> QED
  BY <1>5, <1>6

\* The new version of an address that is damaged leads to a new version of
\* memory that is damaged.
DamagedNodes == {<<"new", a>> : a \in {b \in Addresses : operandPool[b].as = "fix" /\ Damaged(b)}}

\* Damage spreads to the operands that are converted to addresses.
LEMMA DamagedOperand ==
    ASSUME UsersMarked, Final, NEW u \in Value, operandPool[u].role = "new", Damaged(u),
           NEW k \in DOMAIN program.ops[u], program.ops[u][k] \in Addresses,
           operandPool[program.ops[u][k]].as = "fix"
    PROVE  Node(graph[<<"new", u>>][k]) \in DamagedNodes
<1> PICK w \in Addresses : w = program.ops[u][k]
  OBVIOUS
<1>1. w \in Value /\ w # Const /\ operandPool[w].as = "fix"
  BY ValueAssumption DEF Addresses
<1>2. operandPool[w].role = "new" /\ w \in ToSet(vals)
  BY <1>1, FinalPool
<1>3. u \in OriginalUsers(w)
  BY DEF OriginalUsers, ToSet
<1>4. Damaged(w)
  BY <1>2, <1>3, DamageSpreads
<1>5. Names(graph[<<"new", u>>][k], Version(w), w, erased)
  BY FinalCode DEF AllNamed
<1>6. Node(graph[<<"new", u>>][k]) = <<"new", w>>
  BY <1>1, <1>2, <1>5 DEF Names, Version, Node
<1> QED
  BY <1>1, <1>4, <1>6 DEF DamagedNodes

\* An address that is damaged is one of damaged memory.
LEMMA DamagedMemory ==
    ASSUME UsersMarked, Final, NEW o, Node(o) \in DamagedNodes
    PROVE  Memory(o) \in DamagedNodes
<1> PICK m \in Nat : m = Cardinality(Value)
  BY ValueAssumption, FS_CardinalityType
<1>0. program \in Programs
  BY DEF Final, Typed
<1>1. ASSUME NEW n \in DamagedNodes PROVE Base[n] \in DamagedNodes
  <2>1. PICK a \in Addresses : n = <<"new", a>> /\ operandPool[a].as = "fix" /\ Damaged(a)
    BY DEF DamagedNodes
  <2>2. /\ a \in Value
        /\ Kind(a) = "gep" => 1 \in DOMAIN program.ops[a] /\ program.ops[a][1] \in Addresses
    BY <1>0, BaseAddress
  <2>3. operandPool[a].role = "new"
    BY <2>1, <2>2, FinalPool
  <2>4. n \in DOMAIN graph /\ n[2] = a
    BY <2>1, <2>2, <2>3, FinalCode DEF NewNodes
  <2>5. CASE Kind(a) = "gep"
    <3>1. operandPool[program.ops[a][1]].as = "fix"
      BY <2>1, <2>2, <2>5 DEF Final, Pooled
    <3>2. Node(graph[n][1]) \in DamagedNodes
      BY <2>1, <2>2, <2>3, <2>5, <3>1, DamagedOperand
    <3> QED
      BY <2>4, <2>5, <3>2 DEF Base
  <2>6. CASE Kind(a) # "gep"
    BY <2>4, <2>6 DEF Base
  <2> QED
    BY <2>5, <2>6
<1>2. Inside(Base, DamagedNodes)
  BY <1>1 DEF Inside
<1>3. Memory(o) = Repeated(Base, m, Node(o))
  BY DEF Memory, Base
<1> QED
  BY <1>2, <1>3, RepeatedInside

\* No damaged new version survives.
LEMMA DamagedGone ==
    ASSUME NEW n \in DamagedNodes
    PROVE  n \notin Survivors
BY DEF DamagedNodes, Survivors, Survivor

\* The memory that what survives of v accesses survives of what v accessed.
LEMMA SurvivorAccesses ==
    ASSUME UsersMarked, Final, NEW v \in Value
    PROVE  /\ Accesses(Survivor(v)) = {Survivor(OriginalMemory(program.ops[v][k])) : k \in AddressesOf(v)}
           /\ \A k \in AddressesOf(v) : OriginalMemory(program.ops[v][k]) \in Value
<1>1. Survivor(v)[2] = v
  BY DEF Survivor
<1>2. ASSUME NEW k \in AddressesOf(v)
      PROVE  /\ Memory(graph[Survivor(v)][k]) = Survivor(OriginalMemory(program.ops[v][k]))
             /\ OriginalMemory(program.ops[v][k]) \in Value
  <2> PICK a, o : a = program.ops[v][k] /\ o = graph[Survivor(v)][k]
    OBVIOUS
  <2>1. k \in DOMAIN program.ops[v] /\ a # Const /\ IsPointer(a)
    BY DEF AddressesOf
  <2>2. a \in Addresses
    BY <2>1, ProgramShape DEF Addresses, Final, Typed
  <2>3. Node(o) = Survivor(a)
    BY <2>1, SurvivorOperands
  <2>4. OriginalMemory(a) \in Addresses /\ Memory(o) = Survivor(OriginalMemory(a))
    BY <2>2, <2>3, MemorySurvives
  <2> QED
    BY <2>4 DEF Addresses
<1> QED
  BY <1>1, <1>2 DEF Accesses

(***************************************************************************)
(* What is needed of the code.                                             *)
(***************************************************************************)
\* What is needed by values that survive survives.
LEMMA NeededSurvives ==
    ASSUME UsersMarked, Final, NEW W \in SUBSET DOMAIN graph, W \subseteq Survivors
    PROVE  WithNeeded(W) \subseteq Survivors
<1>0. \A n \in W : n[2] \in Value /\ n = Survivor(n[2])
  BY DEF Survivors, Survivor
<1>1. ASSUME NEW n \in W, NEW o \in ToSet(graph[n]), Node(o) \in DOMAIN graph
      PROVE  Node(o) \in Survivors
  <2> PICK v \in Value : n = Survivor(v)
    BY <1>0
  <2>1. PICK k \in DOMAIN program.ops[v] : o = graph[n][k]
    BY SurvivorOperands DEF ToSet
  <2>2. IF program.ops[v][k] = Const THEN o.role = "const"
        ELSE Node(o) = Survivor(program.ops[v][k])
    BY <2>1, SurvivorOperands
  <2>3. o.role # "const"
    BY <1>1, FinalCode DEF Node, NewNodes
  <2>4. program.ops[v][k] \in Value \cup {Const}
    BY ProgramShape DEF Final, Typed
  <2> QED
    BY <2>2, <2>3, <2>4 DEF Survivors
<1>2. ASSUME NEW n \in W, NEW m \in Reads(n)
      PROVE  m \in Survivors
  <2> PICK v \in Value : n = Survivor(v)
    BY <1>0
  <2>1. m \in Accesses(n)
    BY <1>2 DEF Reads
  <2> QED
    BY <2>1, SurvivorAccesses DEF Survivors
<1>3. ASSUME NEW n \in DOMAIN graph, Kind(n[2]) = "store", NEW m \in Writes(n), m \in Survivors
      PROVE  n \in Survivors
  <2> PICK s : s = n[2]
    OBVIOUS
  <2>1. /\ s \in Value
        /\ \/ n = Survivor(s)
           \/ n = <<"new", s>> /\ operandPool[s].role = "new" /\ Damaged(s)
    BY <1>3, StoreSurvives
  <2>2. ASSUME n = <<"new", s>>, operandPool[s].role = "new", Damaged(s) PROVE FALSE
    <3>1. PICK k \in AddressesOf(s) : m = Memory(graph[n][k])
      BY <1>3 DEF Writes, Accesses
    <3>2. k = 2 /\ k \in DOMAIN program.ops[s]
      BY <1>3, <3>1 DEF AddressesOf
    <3>3. program.ops[s][k] \in Addresses
      BY <2>1, <3>1, ProgramShape DEF AddressesOf, Addresses, Final, Typed
    <3>4. s \in ToSet(vals)
      BY <2>1, <2>2, FinalPool
    <3>5. operandPool[program.ops[s][2]].as = "fix"
      BY <1>3, <2>2, <3>4 DEF Final, Contained
    <3>6. Node(graph[n][k]) \in DamagedNodes
      BY <2>1, <2>2, <3>2, <3>3, <3>5, DamagedOperand
    <3>7. m \in DamagedNodes
      BY <3>1, <3>6, DamagedMemory
    <3> QED
      BY <1>3, <3>7, DamagedGone
  <2> QED
    BY <2>1, <2>2 DEF Survivors
<1> QED
  BY <1>1, <1>2, <1>3 DEF WithNeeded

\* What is left once nothing else is removed survives, and needs nothing more.
LEMMA LiveSurvives ==
    ASSUME UsersMarked, Final
    PROVE  Live \subseteq Survivors /\ Effects \subseteq Live /\ WithNeeded(Live) = Live
           /\ Live \subseteq DOMAIN graph
<1> DEFINE U == DOMAIN graph
           G == [S \in SUBSET U |-> WithNeeded(S)]
<1>1. IsFiniteSet(U)
  <2>1. U \subseteq {"old", "new"} \X Value
    BY FinalCode DEF NewNodes
  <2>2. IsFiniteSet({"old", "new"} \X Value)
    <3>1. IsFiniteSet({"old"}) /\ {"old", "new"} = {"old"} \cup {"new"}
      BY FS_Singleton
    <3>2. IsFiniteSet({"old", "new"})
      BY <3>1, FS_AddElement
    <3> QED
      BY <3>2, ValueAssumption, FS_Product
  <2> QED
    BY <2>1, <2>2, FS_Subset
<1>2. Grows(G, U)
  BY DEF Grows, WithNeeded
<1>3. Effects \in SUBSET U
  BY DEF Effects
<1>4. Live = Repeated(G, Cardinality(U), Effects)
  BY DEF Live
<1>5. Effects \subseteq Survivors
  BY EffectSurvives DEF Effects, Survivors
<1>6. \A W \in SUBSET U : W \subseteq Survivors => G[W] \subseteq Survivors
  BY NeededSurvives
<1>7. \A W \in SUBSET U : G[W] = WithNeeded(W)
  OBVIOUS
<1> HIDE DEF U, G
<1>8. Live \in SUBSET U /\ Effects \subseteq Live /\ G[Live] = Live /\ Live \subseteq Survivors
  BY <1>1, <1>2, <1>3, <1>4, <1>5, <1>6, Growing
<1> QED
  BY <1>7, <1>8 DEF U

\* The operands of what is left are those of the program.
LEMMA FinalOperands ==
    ASSUME UsersMarked, Final
    PROVE  SameOperands
<1>1. ASSUME NEW n \in Live, NEW k \in DOMAIN graph[n], NEW w, w = program.ops[n[2]][k]
      PROVE  IF w = Const THEN graph[n][k].role = "const"
             ELSE /\ graph[n][k].role \in {"old", "new"} /\ graph[n][k].v = w
                  /\ Node(graph[n][k]) \in DOMAIN graph
  <2>1. PICK v \in Value : n = Survivor(v)
    BY LiveSurvives DEF Survivors
  <2>2. n[2] = v /\ k \in DOMAIN program.ops[v]
    BY <2>1, SurvivorOperands DEF Survivor
  <2>3. IF w = Const THEN graph[n][k].role = "const" ELSE Node(graph[n][k]) = Survivor(w)
    BY <1>1, <2>1, <2>2, SurvivorOperands
  <2>4. w \in Value \cup {Const}
    BY <1>1, <2>2, ProgramShape DEF Final, Typed
  <2>5. w \in Value => Survivor(w) \in DOMAIN graph
    BY SurvivorStays
  <2> QED
    BY <2>3, <2>4, <2>5 DEF Node, Survivor
<1> QED
  BY <1>1 DEF SameOperands

\* What is read is still written, and calls and returns are left once.
LEMMA FinalEffects ==
    ASSUME UsersMarked, Final
    PROVE  EffectsKept
<1>1. ASSUME NEW n \in Live, NEW m \in Reads(n), NEW s \in OriginalWriters(m[2])
      PROVE  \E x \in Live : x[2] = s /\ m \in Writes(x)
  <2>1. PICK v \in Value : n = Survivor(v)
    BY LiveSurvives DEF Survivors
  <2>2. PICK a \in Value : m = Survivor(a)
    <3>1. m \in Accesses(n)
      BY <1>1 DEF Reads
    <3> QED
      BY <2>1, <3>1, SurvivorAccesses
  <2>3. m[2] = a
    BY <2>2 DEF Survivor
  <2>4. /\ s \in Value /\ Kind(s) \in {"store", "fixcall"}
        /\ \E k \in AddressesOf(s) : OriginalMemory(program.ops[s][k]) = a
    BY <2>3 DEF OriginalWriters
  <2> PICK x : x = Survivor(s)
    OBVIOUS
  <2>5. x[2] = s /\ x \in DOMAIN graph
    BY <2>4, SurvivorStays DEF Survivor
  <2>6. m \in Writes(x)
    BY <2>2, <2>4, <2>5, SurvivorAccesses DEF Writes
  <2>7. x \in Live
    <3>1. CASE Kind(s) = "fixcall"
      BY <2>5, <3>1, LiveSurvives DEF Effects
    <3>2. CASE Kind(s) = "store"
      <4>1. x \in WithNeeded(Live)
        BY <1>1, <2>5, <2>6, <3>2 DEF WithNeeded
      <4> QED
        BY <4>1, LiveSurvives
    <3> QED
      BY <2>4, <3>1, <3>2
  <2> QED
    BY <2>5, <2>6, <2>7
<1>2. ASSUME NEW v \in Value, Kind(v) \in {"call", "fixcall", "ret"}
      PROVE  Cardinality({n \in DOMAIN graph : n[2] = v}) = 1
  <2>1. Survivor(v) \in DOMAIN graph /\ Survivor(v)[2] = v
    BY SurvivorStays DEF Survivor
  <2>2. \A n \in DOMAIN graph : n[2] = v => n = Survivor(v)
    BY <1>2, EffectSurvives
  <2>3. {n \in DOMAIN graph : n[2] = v} = {Survivor(v)}
    BY <2>1, <2>2
  <2> QED
    BY <2>3, FS_Singleton
<1> QED
  BY <1>1, <1>2 DEF EffectsKept

\* At first nothing was handed on, opened, kept or converted.
LEMMA ConversionInit ==
    ASSUME Init
    PROVE  HandedOn /\ Opened /\ KeptTypes /\ Pooled /\ Converting /\ Rewired
<1>1. /\ ToSet(vals) = program.meta /\ next = 1 /\ phase = "sort" /\ noTypeConversion = {}
      /\ hasInfo = program.meta /\ erased = {} /\ operandPool = [v \in Value |-> None]
      /\ graph = [n \in {"old"} \X Value |->
                    [k \in DOMAIN program.ops[n[2]] |-> Old(program.ops[n[2]][k])]]
  BY ProgramAssumption, ValueAssumption DEF Init
<1>2. HandedOn /\ KeptTypes /\ Converting /\ Rewired
  BY <1>1 DEF HandedOn, KeptTypes, Converting, Rewired
<1>3. Opened
  <2>1. DOMAIN graph = {"old"} \X Value
    BY <1>1
  <2>2. \A u \in Value : \A k \in DOMAIN program.ops[u] : Ops(u)[k] = Old(program.ops[u][k])
    BY <1>1 DEF Ops
  <2> QED
    BY <1>1, <2>1, <2>2 DEF Opened
<1>4. Pooled
  <2>1. \A v \in Value : operandPool[v] = None /\ ~Passed(v)
    BY <1>1 DEF Passed
  <2> QED
    BY <1>1, <2>1, PoolTyped, NoneIsFloat DEF Pooled
<1> QED
  BY <1>2, <1>3, <1>4

\* Theorem: where what uses a value with metadata has it too, or is a phi node,
\* the code that is left computes what the program did: each operand is a version
\* of the one that the program had there, what is read is written by all that
\* wrote it, and calls and returns happen once.  Where a call failed to convert
\* this is so of programs that keep the damage in one place.
THEOREM BehaviourStaysSame == UsersMarked => (Spec => []SameBehaviour)
<1> SUFFICES ASSUME UsersMarked PROVE Spec => []SameBehaviour
  OBVIOUS
<1> DEFINE Sorted == Typed /\ Ordered /\ Held /\ Traced /\ HandedOn /\ Opened /\ KeptTypes
           Inv == Sorted /\ Pooled /\ Converting /\ Rewired
<1>1. Init => Inv
  BY TypedInit, OrderedInit, HeldInit, TracedInit, ConversionInit
<1>2. Inv /\ [Next]_vars => Inv'
  BY TypedStep, OrderedStep, HeldStep, TracedStep, HandedOnStep, OpenedStep, KeptTypesStep,
     PooledStep, ConvertingStep, RewiredStep
<1>3. Inv => SameBehaviour
  <2> SUFFICES ASSUME Inv PROVE SameBehaviour
    OBVIOUS
  <2>1. CASE phase = "done" /\ Contained
    <3>1. Final
      BY <2>1 DEF Final
    <3> QED
      BY <3>1, FinalOperands, FinalEffects DEF SameBehaviour
  <2>2. CASE ~(phase = "done" /\ Contained)
    BY <2>2 DEF SameBehaviour, SameOperands, EffectsKept
  <2> QED
    BY <2>1, <2>2
<1> HIDE DEF Inv
<1> QED
  BY <1>1, <1>2, <1>3, PTL DEF Spec
===============================================================================
