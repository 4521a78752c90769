------------------------ MODULE ConversionQueueProofs ------------------------
(***************************************************************************)
(* Proofs about the worklist of the initializer, ConversionQueue: its      *)
(* queue is well formed and every value in it has metadata, the passes     *)
(* leave users behind what they use, nothing ends up in the queue that the *)
(* annotations do not ask for, and without backtracking every value gets   *)
(* the metadata of a closest root.                                         *)
(*                                                                         *)
(* The loops over users and operands are folds; what one user or operand   *)
(* does to the queue is carried through them by UsersFold, OperandsFold    *)
(* and, for what a single set of states keeps, UsersKeep and OperandsKeep. *)
(***************************************************************************)
EXTENDS ConversionQueue, Induction, SequenceTheorems

(***************************************************************************)
(* Queues without repetitions.                                             *)
(***************************************************************************)
Queues == {q \in Seq(Value) : IsInjective(q)}

\* Each value in a queue has one position.
LEMMA Positions ==
    ASSUME NEW q \in Queues
    PROVE  /\ q \in Seq(Value) /\ Len(q) \in Nat /\ ToSet(q) \subseteq Value
           /\ ToSet(q) = {q[i] : i \in 1..Len(q)}
           /\ \A i \in 1..Len(q) : q[i] \in ToSet(q) /\ PosOf(q, q[i]) = i
           /\ \A v \in ToSet(q) : PosOf(q, v) \in 1..Len(q) /\ q[PosOf(q, v)] = v
<1>1. q \in Seq(Value) /\ IsInjective(q) /\ DOMAIN q = 1..Len(q) /\ Len(q) \in Nat
      /\ \A i \in 1..Len(q) : q[i] \in Value
  BY DEF Queues
<1>2. ToSet(q) = {q[i] : i \in 1..Len(q)}
  BY <1>1 DEF ToSet
<1>3. ASSUME NEW v \in ToSet(q)
      PROVE  PosOf(q, v) \in 1..Len(q) /\ q[PosOf(q, v)] = v
  <2>1. \E i \in 1..Len(q) : q[i] = v
    BY <1>2
  <2> QED
    BY <2>1 DEF PosOf
<1>4. ASSUME NEW i \in 1..Len(q)
      PROVE  q[i] \in ToSet(q) /\ PosOf(q, q[i]) = i
  <2>1. q[i] \in ToSet(q)
    BY <1>2
  <2>2. PosOf(q, q[i]) \in 1..Len(q) /\ q[PosOf(q, q[i])] = q[i]
    BY <1>3, <2>1
  <2>3. \A j, k \in DOMAIN q : q[j] = q[k] => j = k
    BY <1>1 DEF IsInjective
  <2> QED
    BY <1>1, <2>1, <2>2, <2>3
<1> QED
  BY <1>1, <1>2, <1>3, <1>4

\* A sequence is a queue if each of its values has one position.
LEMMA QueueBy ==
    ASSUME NEW q \in Seq(Value), \A i, j \in 1..Len(q) : q[i] = q[j] => i = j
    PROVE  q \in Queues
BY DEF Queues, IsInjective

\* What is left of a queue without one value: the others keep their order, and
\* those behind it move up by one place.
LEMMA WithoutFacts ==
    ASSUME NEW q \in Queues, NEW u \in Value
    PROVE  /\ Without(q, u) \in Queues
           /\ ToSet(Without(q, u)) = ToSet(q) \ {u}
           /\ Len(Without(q, u)) = IF u \in ToSet(q) THEN Len(q) - 1 ELSE Len(q)
           /\ \A x \in ToSet(q) \ {u} :
                PosOf(Without(q, u), x) = IF u \in ToSet(q) /\ PosOf(q, u) < PosOf(q, x)
                                          THEN PosOf(q, x) - 1 ELSE PosOf(q, x)
<1>1. CASE u \notin ToSet(q)
  BY <1>1 DEF Without
<1>2. CASE u \in ToSet(q)
  <2>1. PICK k \in 1..Len(q) : k = PosOf(q, u) /\ q[k] = u
    BY <1>2, Positions
  <2>2. /\ q \in Seq(Value) /\ Len(q) \in Nat /\ ToSet(q) = {q[i] : i \in 1..Len(q)}
        /\ \A i \in 1..Len(q) : PosOf(q, q[i]) = i
    BY Positions
  <2> DEFINE w == RemoveAt(q, k)
  <2>3. w = SubSeq(q, 1, k - 1) \o SubSeq(q, k + 1, Len(q))
    BY DEF RemoveAt
  <2>4. /\ w \in Seq(Value) /\ Len(w) = Len(q) - 1
        /\ \A i \in 1..Len(w) : w[i] = q[IF i < k THEN i ELSE i + 1]
    <3> DEFINE a == SubSeq(q, 1, k - 1)
               b == SubSeq(q, k + 1, Len(q))
    <3>1. /\ a \in Seq(Value) /\ Len(a) = k - 1 /\ \A i \in 1..(k - 1) : a[i] = q[i]
          /\ b \in Seq(Value) /\ Len(b) = Len(q) - k
          /\ \A i \in 1..(Len(q) - k) : b[i] = q[k + i]
      BY <2>2
    <3>2. w = a \o b
      BY <2>3
    <3> HIDE DEF a, b, w
    <3>5. /\ w \in Seq(Value) /\ Len(w) = Len(a) + Len(b)
          /\ \A i \in 1..(Len(a) + Len(b)) : w[i] = IF i <= Len(a) THEN a[i] ELSE b[i - Len(a)]
      BY <3>1, <3>2, ConcatProperties
    <3>3. /\ w \in Seq(Value) /\ Len(w) = Len(q) - 1
          /\ \A i \in 1..(Len(q) - 1) : w[i] = IF i <= k - 1 THEN a[i] ELSE b[i - (k - 1)]
      <4>1. Len(a) + Len(b) = Len(q) - 1
        BY <2>2, <3>1
      <4> QED
        BY <3>1, <3>5, <4>1
    <3>4. ASSUME NEW i \in 1..Len(w) PROVE w[i] = q[IF i < k THEN i ELSE i + 1]
      <4>1. CASE i < k
        BY <3>1, <3>3, <4>1
      <4>2. CASE i >= k
        <5>1. i - (k - 1) \in 1..(Len(q) - k) /\ (k - 1) + (i - (k - 1)) = i /\ k + (i - (k - 1)) = i + 1
          BY <2>2, <3>3, <4>2
        <5>2. w[i] = b[i - (k - 1)] /\ b[i - (k - 1)] = q[i + 1]
          BY <3>1, <3>3, <5>1
        <5> QED
          BY <4>2, <5>2
      <4> QED
        BY <4>1, <4>2
    <3> QED
      BY <3>3, <3>4
  <2> HIDE DEF w
  <2>5. \A i, j \in 1..Len(w) : w[i] = w[j] => i = j
    <3> SUFFICES ASSUME NEW i \in 1..Len(w), NEW j \in 1..Len(w), w[i] = w[j]
                 PROVE  i = j
      OBVIOUS
    <3>1. PICK m \in 1..Len(q), n \in 1..Len(q) :
            m = (IF i < k THEN i ELSE i + 1) /\ n = (IF j < k THEN j ELSE j + 1)
      <4>1. (IF i < k THEN i ELSE i + 1) \in 1..Len(q) /\ (IF j < k THEN j ELSE j + 1) \in 1..Len(q)
        BY <2>2, <2>4
      <4> QED
        BY <4>1
    <3>2. q[m] = q[n] /\ PosOf(q, q[m]) = m /\ PosOf(q, q[n]) = n
      BY <2>2, <2>4, <3>1
    <3> QED
      BY <3>1, <3>2
  <2>6. w \in Queues
    BY <2>4, <2>5, QueueBy
  <2>7. ToSet(w) = {w[i] : i \in 1..Len(w)} /\ \A i \in 1..Len(w) : PosOf(w, w[i]) = i
    BY <2>6, Positions
  <2>8. ASSUME NEW x \in ToSet(q) \ {u}
        PROVE  x \in ToSet(w) /\ PosOf(w, x) = IF k < PosOf(q, x) THEN PosOf(q, x) - 1 ELSE PosOf(q, x)
    <3>1. PICK i \in 1..Len(q) : q[i] = x /\ PosOf(q, x) = i /\ i # k
      BY <2>1, <2>2
    <3>2. CASE i < k
      <4>1. i \in 1..Len(w) /\ w[i] = x
        BY <2>4, <3>1, <3>2
      <4> QED
        BY <2>7, <3>1, <3>2, <4>1
    <3>3. CASE i > k
      <4>1. i - 1 \in 1..Len(w) /\ w[i - 1] = x
        BY <2>4, <3>1, <3>3
      <4> QED
        BY <2>7, <3>1, <3>3, <4>1
    <3> QED
      BY <3>1, <3>2, <3>3
  <2>9. ToSet(w) \subseteq ToSet(q) \ {u}
    BY <2>1, <2>2, <2>4, <2>7
  <2>10. Without(q, u) = w
    BY <1>2, <2>1 DEF Without, w
  <2> QED
    BY <1>2, <2>1, <2>4, <2>6, <2>8, <2>9, <2>10
<1> QED
  BY <1>1, <1>2

\* A value appended to a queue is last, and the others keep their places.
LEMMA AppendFacts ==
    ASSUME NEW w \in Queues, NEW u \in Value, u \notin ToSet(w)
    PROVE  /\ Append(w, u) \in Queues
           /\ ToSet(Append(w, u)) = ToSet(w) \cup {u}
           /\ Len(Append(w, u)) = Len(w) + 1 /\ PosOf(Append(w, u), u) = Len(w) + 1
           /\ \A x \in ToSet(w) : PosOf(Append(w, u), x) = PosOf(w, x)
<1> DEFINE q == Append(w, u)
<1>1. /\ w \in Seq(Value) /\ Len(w) \in Nat /\ ToSet(w) = {w[i] : i \in 1..Len(w)}
      /\ \A i \in 1..Len(w) : PosOf(w, w[i]) = i
  BY Positions
<1>2. /\ q \in Seq(Value) /\ Len(q) = Len(w) + 1 /\ q[Len(w) + 1] = u
      /\ \A i \in 1..Len(w) : q[i] = w[i]
  BY <1>1
<1> HIDE DEF q
<1>3. \A i, j \in 1..Len(q) : q[i] = q[j] => i = j
  BY <1>1, <1>2
<1>4. q \in Queues
  BY <1>2, <1>3, QueueBy
<1>5. ToSet(q) = {q[i] : i \in 1..Len(q)} /\ \A i \in 1..Len(q) : PosOf(q, q[i]) = i
  BY <1>4, Positions
<1>6. ToSet(q) = ToSet(w) \cup {u}
  BY <1>1, <1>2, <1>5
<1>7. PosOf(q, u) = Len(w) + 1 /\ \A x \in ToSet(w) : PosOf(q, x) = PosOf(w, x)
  BY <1>1, <1>2, <1>5
<1> QED
  BY <1>2, <1>4, <1>6, <1>7 DEF q

\* A value inserted into a queue takes the place, and those from there on move
\* down by one.
LEMMA InsertFacts ==
    ASSUME NEW w \in Queues, NEW u \in Value, u \notin ToSet(w), NEW k \in 1..Len(w)
    PROVE  /\ InsertAt(w, k, u) \in Queues
           /\ ToSet(InsertAt(w, k, u)) = ToSet(w) \cup {u}
           /\ Len(InsertAt(w, k, u)) = Len(w) + 1 /\ PosOf(InsertAt(w, k, u), u) = k
           /\ \A x \in ToSet(w) : PosOf(InsertAt(w, k, u), x) =
                                    IF PosOf(w, x) < k THEN PosOf(w, x) ELSE PosOf(w, x) + 1
<1> DEFINE q == InsertAt(w, k, u)
<1>1. /\ w \in Seq(Value) /\ Len(w) \in Nat /\ ToSet(w) = {w[i] : i \in 1..Len(w)}
      /\ \A i \in 1..Len(w) : PosOf(w, w[i]) = i
  BY Positions
<1>2. q = SubSeq(w, 1, k - 1) \o <<u>> \o SubSeq(w, k, Len(w))
  BY DEF InsertAt
<1>3. /\ q \in Seq(Value) /\ Len(q) = Len(w) + 1 /\ q[k] = u
      /\ \A i \in 1..Len(w) : q[IF i < k THEN i ELSE i + 1] = w[i]
  <2> DEFINE a == SubSeq(w, 1, k - 1)
             b == SubSeq(w, k, Len(w))
             c == a \o <<u>>
  <2>1. /\ a \in Seq(Value) /\ Len(a) = k - 1 /\ \A i \in 1..(k - 1) : a[i] = w[i]
        /\ b \in Seq(Value) /\ Len(b) = Len(w) - k + 1
        /\ \A i \in 1..(Len(w) - k + 1) : b[i] = w[k + i - 1]
    BY <1>1
  <2> HIDE DEF a, b
  <2>2. c \in Seq(Value) /\ Len(c) = k /\ c[k] = u /\ \A i \in 1..(k - 1) : c[i] = w[i]
    BY <2>1
  <2> HIDE DEF c
  <2>3. q = c \o b
    BY <1>2 DEF a, b, c
  <2> HIDE DEF q
  <2>4. /\ q \in Seq(Value) /\ Len(q) = Len(w) + 1
        /\ \A i \in 1..k : q[i] = c[i]
        /\ \A i \in 1..(Len(w) - k + 1) : q[k + i] = b[i]
    BY <1>1, <2>1, <2>2, <2>3
  <2>5. ASSUME NEW i \in 1..Len(w) PROVE q[IF i < k THEN i ELSE i + 1] = w[i]
    <3>1. CASE i < k
      BY <2>2, <2>4, <3>1
    <3>2. CASE i >= k
      <4>1. i - k + 1 \in 1..(Len(w) - k + 1) /\ k + (i - k + 1) = i + 1 /\ k + (i - k + 1) - 1 = i
        BY <1>1, <3>2
      <4> QED
        BY SMTT(30), <2>1, <2>4, <3>2, <4>1
    <3> QED
      BY <3>1, <3>2
  <2> QED
    BY <2>2, <2>4, <2>5
<1> HIDE DEF q
<1>4. ASSUME NEW j \in 1..Len(q)
      PROVE  j = k \/ \E i \in 1..Len(w) : j = IF i < k THEN i ELSE i + 1
  <2>1. CASE j < k
    BY <2>1
  <2>2. CASE j > k
    <3>1. j - 1 \in 1..Len(w) /\ j = (j - 1) + 1
      BY <1>1, <1>3, <2>2
    <3> QED
      BY <2>2, <3>1
  <2> QED
    BY <2>1, <2>2
<1>5. \A i, j \in 1..Len(q) : q[i] = q[j] => i = j
  <2> SUFFICES ASSUME NEW i \in 1..Len(q), NEW j \in 1..Len(q), q[i] = q[j]
               PROVE  i = j
    OBVIOUS
  <2>3. ASSUME NEW h \in 1..Len(q), h # k PROVE q[h] \in ToSet(w)
    <3>1. PICK m \in 1..Len(w) : h = IF m < k THEN m ELSE m + 1
      BY <1>4, <2>3
    <3> QED
      BY <1>1, <1>3, <3>1
  <2>1. CASE i = k \/ j = k
    BY <1>3, <2>1, <2>3
  <2>2. CASE i # k /\ j # k
    <3>1. PICK m \in 1..Len(w), n \in 1..Len(w) :
            i = (IF m < k THEN m ELSE m + 1) /\ j = (IF n < k THEN n ELSE n + 1)
      BY <1>4, <2>2
    <3>2. w[m] = w[n]
      BY <1>3, <3>1
    <3> QED
      BY <1>1, <3>1, <3>2
  <2> QED
    BY <2>1, <2>2
<1>6. q \in Queues
  BY <1>3, <1>5, QueueBy
<1>7. ToSet(q) = {q[i] : i \in 1..Len(q)} /\ \A i \in 1..Len(q) : PosOf(q, q[i]) = i
  BY <1>6, Positions
<1>8. k \in 1..Len(q) /\ \A i \in 1..Len(w) : (IF i < k THEN i ELSE i + 1) \in 1..Len(q)
  BY <1>1, <1>3
<1>9. ToSet(q) = ToSet(w) \cup {u}
  <2>1. ASSUME NEW h \in 1..Len(q) PROVE q[h] \in ToSet(w) \cup {u}
    <3>1. CASE h = k
      BY <1>3, <3>1
    <3>2. CASE h # k
      <4>1. PICK m \in 1..Len(w) : h = IF m < k THEN m ELSE m + 1
        BY <1>4, <3>2
      <4> QED
        BY <1>1, <1>3, <4>1
    <3> QED
      BY <3>1, <3>2
  <2>2. ASSUME NEW i \in 1..Len(w) PROVE w[i] \in ToSet(q)
    BY <1>3, <1>7, <1>8
  <2>3. u \in ToSet(q)
    BY <1>3, <1>7, <1>8
  <2> QED
    BY <1>1, <1>7, <2>1, <2>2, <2>3
<1>10. \A x \in ToSet(w) : PosOf(q, x) = IF PosOf(w, x) < k THEN PosOf(w, x) ELSE PosOf(w, x) + 1
  BY <1>1, <1>3, <1>7, <1>8
<1>11. PosOf(q, u) = k
  BY <1>3, <1>7, <1>8
<1> QED
  BY <1>3, <1>6, <1>9, <1>10, <1>11 DEF q

\* The loop over users, one by one.
LEMMA UsersFold ==
    ASSUME NEW A, NEW v, NEW us \in Seq(Value), us = prog.users[v], NEW s0 \in A, s0 = State,
           \A i \in 1..Len(us), s \in A : EnqueueUser(s, v, us[i]) \in A,
           NEW T \in [0..Len(us) -> SUBSET A], s0 \in T[0],
           \A i \in 1..Len(us) : \A s \in T[i - 1] : EnqueueUser(s, v, us[i]) \in T[i]
    PROVE  EnqueueUsers(v) \in T[Len(us)]
<1> DEFINE n == Len(us)
           G == [i \in 1..n |-> [s \in A |-> EnqueueUser(s, v, us[i])]]
           Eq(f) == f = [s \in SUBSET (DOMAIN us) |->
                            IF s = {} THEN s0
                            ELSE LET x == Max(s) IN EnqueueUser(f[s \ {x}], v, us[x])]
           it == CHOOSE f : Eq(f)
<1>1. EnqueueUsers(v) = it[DOMAIN us]
  BY DEF EnqueueUsers, FoldLeft, MapThenFoldSet
<1>2. n \in Nat /\ DOMAIN us = 1..n
  OBVIOUS
<1>3. G \in [1..n -> [A -> A]]
  OBVIOUS
<1>4. PICK f \in [SUBSET (1..n) -> A] : IsFold(f, s0, n, G)
  <2> HIDE DEF G, n
  <2> QED
    BY <1>2, <1>3, FoldExists
<1>5. \A s \in SUBSET (1..n) : s # {} => Max(s) \in s /\ \A y \in s : y <= Max(s)
  <2> SUFFICES ASSUME NEW s \in SUBSET (1..n), s # {}
               PROVE  Max(s) \in s /\ \A y \in s : y <= Max(s)
    OBVIOUS
  <2>1. \E x \in s : \A y \in s : x >= y
    BY <1>2, LargestUpTo
  <2>2. Max(s) \in s /\ \A y \in s : Max(s) >= y
    BY <2>1, Zenon DEF Max
  <2> QED
    BY <2>2
<1>6. Eq(f)
  <2> SUFFICES ASSUME NEW s \in SUBSET (1..n)
               PROVE  f[s] = IF s = {} THEN s0
                             ELSE LET x == Max(s) IN EnqueueUser(f[s \ {x}], v, us[x])
    BY <1>2, <1>4
  <2>1. CASE s = {}
    BY <1>4, <2>1 DEF IsFold
  <2>2. CASE s # {}
    <3>1. PICK x \in 1..n : x = Max(s) /\ x \in s /\ \A y \in s : y <= x
      BY <1>5, <2>2
    <3>2. f[s] = G[x][f[s \ {x}]] /\ f[s \ {x}] \in A
      BY ZenonT(40), <1>4, <3>1 DEF IsFold
    <3> QED
      BY <2>2, <3>1, <3>2
  <2> QED
    BY <2>1, <2>2
<1>7. Eq(it)
  <2> HIDE DEF Eq
  <2> QED
    BY <1>6
<1> DEFINE S == {i \in 0..n : it[1..i] \in T[i]}
<1>8. 0 \in S
  <2>1. 1..0 = {} /\ {} \in SUBSET (DOMAIN us)
    OBVIOUS
  <2>2. it[{}] = s0
    BY <1>7, <2>1
  <2> QED
    BY <1>2, <2>1, <2>2
<1>9. ASSUME NEW i \in 0..n, i < n, i \in S
      PROVE  i + 1 \in S
  <2>1. i + 1 \in 1..n /\ 1..(i + 1) \in SUBSET (1..n) /\ 1..(i + 1) # {}
        /\ (1..(i + 1)) \ {i + 1} = 1..i /\ i + 1 - 1 = i
    <3>1. i + 1 \in 1..n /\ i + 1 - 1 = i /\ i + 1 \in 1..(i + 1)
      BY <1>9
    <3>2. 1..(i + 1) \in SUBSET (1..n)
      BY <3>1
    <3>3. (1..(i + 1)) \ {i + 1} = 1..i
      BY <1>9
    <3> QED
      BY <3>1, <3>2, <3>3
  <2>2. Max(1..(i + 1)) = i + 1
    <3>1. Max(1..(i + 1)) \in 1..(i + 1) /\ \A y \in 1..(i + 1) : y <= Max(1..(i + 1))
      BY <1>5, <2>1
    <3>2. i + 1 \in 1..(i + 1)
      OBVIOUS
    <3> QED
      BY <3>1, <3>2
  <2>3. it[1..(i + 1)] = EnqueueUser(it[1..i], v, us[i + 1])
    <3>1. it[1..(i + 1)] = EnqueueUser(it[(1..(i + 1)) \ {Max(1..(i + 1))}], v, us[Max(1..(i + 1))])
      BY <1>2, <1>7, <2>1
    <3> QED
      BY <2>1, <2>2, <3>1
  <2>4. it[1..i] \in T[i]
    BY <1>9
  <2> HIDE DEF it
  <2>5. EnqueueUser(it[1..i], v, us[i + 1]) \in T[i + 1]
    <3>1. PICK j \in 1..Len(us) : j = i + 1 /\ j - 1 = i
      BY <2>1
    <3>2. PICK x \in T[j - 1] : x = it[1..i]
      BY <2>4, <3>1
    <3>3. EnqueueUser(x, v, us[j]) \in T[j]
      OBVIOUS
    <3> QED
      BY <3>1, <3>2, <3>3
  <2> QED
    BY <2>1, <2>3, <2>5
<1>10. n \in S
  <2>1. \A i \in 0..n : i < n /\ i \in S => i + 1 \in S
    BY <1>9
  <2> HIDE DEF S, n
  <2>2. 0..n \subseteq S
    BY <1>2, <1>8, <2>1, InductionUpTo
  <2> QED
    BY <1>2, <2>2
<1> QED
  BY <1>1, <1>2, <1>10

\* The loop over operands.
LEMMA OperandsFold ==
    ASSUME NEW A, NEW v, NEW us \in Seq(Value), us = prog.ops[v], NEW s0 \in A, s0 = State,
           \A i \in 1..Len(us), s \in A : EnqueueOperand(s, v, us[i]) \in A,
           NEW T \in [0..Len(us) -> SUBSET A], s0 \in T[0],
           \A i \in 1..Len(us) : \A s \in T[i - 1] : EnqueueOperand(s, v, us[i]) \in T[i]
    PROVE  EnqueueOperands(v) \in T[Len(us)]
<1> DEFINE n == Len(us)
           G == [i \in 1..n |-> [s \in A |-> EnqueueOperand(s, v, us[i])]]
           Eq(f) == f = [s \in SUBSET (DOMAIN us) |->
                            IF s = {} THEN s0
                            ELSE LET x == Max(s) IN EnqueueOperand(f[s \ {x}], v, us[x])]
           it == CHOOSE f : Eq(f)
<1>1. EnqueueOperands(v) = it[DOMAIN us]
  BY DEF EnqueueOperands, FoldLeft, MapThenFoldSet
<1>2. n \in Nat /\ DOMAIN us = 1..n
  OBVIOUS
<1>3. G \in [1..n -> [A -> A]]
  OBVIOUS
<1>4. PICK f \in [SUBSET (1..n) -> A] : IsFold(f, s0, n, G)
  <2> HIDE DEF G, n
  <2> QED
    BY <1>2, <1>3, FoldExists
<1>5. \A s \in SUBSET (1..n) : s # {} => Max(s) \in s /\ \A y \in s : y <= Max(s)
  <2> SUFFICES ASSUME NEW s \in SUBSET (1..n), s # {}
               PROVE  Max(s) \in s /\ \A y \in s : y <= Max(s)
    OBVIOUS
  <2>1. \E x \in s : \A y \in s : x >= y
    BY <1>2, LargestUpTo
  <2>2. Max(s) \in s /\ \A y \in s : Max(s) >= y
    BY <2>1, Zenon DEF Max
  <2> QED
    BY <2>2
<1>6. Eq(f)
  <2> SUFFICES ASSUME NEW s \in SUBSET (1..n)
               PROVE  f[s] = IF s = {} THEN s0
                             ELSE LET x == Max(s) IN EnqueueOperand(f[s \ {x}], v, us[x])
    BY <1>2, <1>4
  <2>1. CASE s = {}
    BY <1>4, <2>1 DEF IsFold
  <2>2. CASE s # {}
    <3>1. PICK x \in 1..n : x = Max(s) /\ x \in s /\ \A y \in s : y <= x
      BY <1>5, <2>2
    <3>2. f[s] = G[x][f[s \ {x}]] /\ f[s \ {x}] \in A
      BY ZenonT(40), <1>4, <3>1 DEF IsFold
    <3> QED
      BY <2>2, <3>1, <3>2
  <2> QED
    BY <2>1, <2>2
<1>7. Eq(it)
  <2> HIDE DEF Eq
  <2> QED
    BY <1>6
<1> DEFINE S == {i \in 0..n : it[1..i] \in T[i]}
<1>8. 0 \in S
  <2>1. 1..0 = {} /\ {} \in SUBSET (DOMAIN us)
    OBVIOUS
  <2>2. it[{}] = s0
    BY <1>7, <2>1
  <2> QED
    BY <1>2, <2>1, <2>2
<1>9. ASSUME NEW i \in 0..n, i < n, i \in S
      PROVE  i + 1 \in S
  <2>1. i + 1 \in 1..n /\ 1..(i + 1) \in SUBSET (1..n) /\ 1..(i + 1) # {}
        /\ (1..(i + 1)) \ {i + 1} = 1..i /\ i + 1 - 1 = i
    <3>1. i + 1 \in 1..n /\ i + 1 - 1 = i /\ i + 1 \in 1..(i + 1)
      BY <1>9
    <3>2. 1..(i + 1) \in SUBSET (1..n)
      BY <3>1
    <3>3. (1..(i + 1)) \ {i + 1} = 1..i
      BY <1>9
    <3> QED
      BY <3>1, <3>2, <3>3
  <2>2. Max(1..(i + 1)) = i + 1
    <3>1. Max(1..(i + 1)) \in 1..(i + 1) /\ \A y \in 1..(i + 1) : y <= Max(1..(i + 1))
      BY <1>5, <2>1
    <3>2. i + 1 \in 1..(i + 1)
      OBVIOUS
    <3> QED
      BY <3>1, <3>2
  <2>3. it[1..(i + 1)] = EnqueueOperand(it[1..i], v, us[i + 1])
    <3>1. it[1..(i + 1)] = EnqueueOperand(it[(1..(i + 1)) \ {Max(1..(i + 1))}], v, us[Max(1..(i + 1))])
      BY <1>2, <1>7, <2>1
    <3> QED
      BY <2>1, <2>2, <3>1
  <2>4. it[1..i] \in T[i]
    BY <1>9
  <2> HIDE DEF it
  <2>5. EnqueueOperand(it[1..i], v, us[i + 1]) \in T[i + 1]
    <3>1. PICK j \in 1..Len(us) : j = i + 1 /\ j - 1 = i
      BY <2>1
    <3>2. PICK x \in T[j - 1] : x = it[1..i]
      BY <2>4, <3>1
    <3>3. EnqueueOperand(x, v, us[j]) \in T[j]
      OBVIOUS
    <3> QED
      BY <3>1, <3>2, <3>3
  <2> QED
    BY <2>1, <2>3, <2>5
<1>10. n \in S
  <2>1. \A i \in 0..n : i < n /\ i \in S => i + 1 \in S
    BY <1>9
  <2> HIDE DEF S, n
  <2>2. 0..n \subseteq S
    BY <1>2, <1>8, <2>1, InductionUpTo
  <2> QED
    BY <1>2, <2>2
<1> QED
  BY <1>1, <1>2, <1>10

(***************************************************************************)
(* One user and one operand.                                               *)
(***************************************************************************)
StateT == [queue : Queues, info : [Value -> InfoT]]

\* The depth of an info stays, its distance becomes no larger, and it has
\* metadata if it had some or is given some.
LEMMA InfoCreated ==
    ASSUME NEW used, NEW user, NEW vi \in InfoT, NEW ui \in InfoT
    PROVE  LET new == CreateInfoOfUser(used, vi, user, ui)
           IN  /\ new \in InfoT /\ new.depth = ui.depth
               /\ new.dist = IF ui.dist > Plus1(vi.dist) THEN Plus1(vi.dist) ELSE ui.dist
               /\ vi.from # NoRoot /\ (ui.from # NoRoot \/ ui.dist > Plus1(vi.dist))
                    => new.from # NoRoot
<1> DEFINE closer == ui.dist > Plus1(vi.dist)
           copied == IF ~closer THEN ui
                     ELSE [ui EXCEPT
                       !.dist    = Plus1(vi.dist),
                       !.from    = IF CopyOk(used, user) THEN vi.from ELSE Default,
                       !.enabled = CopyOk(used, user) => vi.enabled]
           shared == [copied EXCEPT !.enabled = @ \/ vi.enabled]
           new == CreateInfoOfUser(used, vi, user, ui)
<1>1. /\ Plus1(vi.dist) \in 0..Far
  BY QueueAssumption DEF Plus1, InfoT
<1>2. /\ copied \in InfoT /\ copied.depth = ui.depth
      /\ copied.dist = (IF closer THEN Plus1(vi.dist) ELSE ui.dist)
      /\ vi.from # NoRoot /\ (ui.from # NoRoot \/ closer) => copied.from # NoRoot
  <2>1. CASE closer
    BY <1>1, <2>1, QueueAssumption DEF InfoT
  <2>2. CASE ~closer
    BY <2>2
  <2> QED
    BY <2>1, <2>2
<1> HIDE DEF copied, closer
<1>3. /\ shared \in InfoT /\ shared.depth = copied.depth /\ shared.dist = copied.dist
      /\ shared.from = copied.from
  BY <1>2 DEF InfoT
<1>4. new = IF IsPointerOf(used, user) /\ vi.from # NoRoot
            THEN [shared EXCEPT !.from = vi.from, !.enabled = vi.enabled]
            ELSE shared
  BY DEF CreateInfoOfUser, copied, closer
<1> HIDE DEF shared, new
<1>5. /\ new \in InfoT /\ new.depth = shared.depth /\ new.dist = shared.dist
      /\ new.from = shared.from \/ (new.from = vi.from /\ vi.from # NoRoot)
  BY <1>3, <1>4 DEF InfoT
<1> QED
  BY <1>2, <1>3, <1>5 DEF new, closer

\* The information of a value seen for the first time has its type.
LEMMA NewInfoTyped ==
    \A d \in Nat : NewInfo(d) \in InfoT /\ NewInfo(d).depth = d /\ NewInfo(d).dist = Far
BY QueueAssumption DEF NewInfo, InfoT

\* The phi nodes that are left alone when the users of v are enqueued.
LeftAlone(v) == prog.phi \cap (visited \cup {v})

DeepInfo(s, v, u) ==
    [InfoOf(s, u) EXCEPT !.depth = MaxOf(@, UserDepth(s.info[v].depth, u))]

\* The depth handed to a user or an operand, and the information it gives, have
\* their types.
LEMMA DepthsTyped ==
    ASSUME NEW s \in StateT, NEW v \in Value, NEW u \in Value
    PROVE  /\ InfoOf(s, u) \in InfoT /\ UserDepth(s.info[v].depth, u) \in Nat
           /\ Less1(s.info[v].depth) \in Nat
           /\ DeepInfo(s, v, u) \in InfoT /\ DeepInfo(s, v, u).dist = InfoOf(s, u).dist
           /\ DeepInfo(s, v, u).from = InfoOf(s, u).from
           /\ DeepInfo(s, v, u).enabled = InfoOf(s, u).enabled
           /\ DeepInfo(s, v, u).depth = MaxOf(InfoOf(s, u).depth, UserDepth(s.info[v].depth, u))
<1>1. s.info[u] \in InfoT /\ s.info[v].depth \in Nat
  BY DEF StateT, InfoT
<1>2. InfoOf(s, u) \in InfoT
  BY <1>1, NewInfoTyped DEF InfoOf
<1>3. UserDepth(s.info[v].depth, u) \in Nat /\ Less1(s.info[v].depth) \in Nat
  BY <1>1 DEF UserDepth, Less1
<1>4. MaxOf(InfoOf(s, u).depth, UserDepth(s.info[v].depth, u)) \in Nat
  BY <1>2, <1>3 DEF MaxOf, InfoT
<1> QED
  BY <1>2, <1>3, <1>4 DEF DeepInfo, InfoT

\* What enqueuing a user does to the queue and the infos.
LEMMA UserEnqueued ==
    ASSUME NEW s \in StateT, NEW v \in ToSet(s.queue), NEW u \in Value, u # v,
           u \notin LeftAlone(v)
    PROVE  LET e == EnqueueUser(s, v, u)
           IN  /\ e \in StateT /\ ToSet(e.queue) = ToSet(s.queue) \cup {u}
               /\ Len(s.queue) \in Nat
               /\ Len(e.queue) = IF u \in ToSet(s.queue) THEN Len(s.queue) ELSE Len(s.queue) + 1
               /\ e.info = [s.info EXCEPT ![u] = CreateInfoOfUser(v, s.info[v], u, DeepInfo(s, v, u))]
               /\ \A x \in ToSet(s.queue) \ {u} : PosOf(e.queue, x) < PosOf(e.queue, u)
               /\ \A x, y \in ToSet(s.queue) \ {u} :
                    PosOf(e.queue, x) < PosOf(e.queue, y) <=> PosOf(s.queue, x) < PosOf(s.queue, y)
<1> DEFINE e == EnqueueUser(s, v, u)
           w == Without(s.queue, u)
<1>1. s.queue \in Queues /\ v \in Value /\ s.info \in [Value -> InfoT]
  BY Positions DEF StateT
<1>2. e = [queue |-> Append(w, u),
           info  |-> [s.info EXCEPT ![u] = CreateInfoOfUser(v, s.info[v], u, DeepInfo(s, v, u))]]
  BY DEF EnqueueUser, LeftAlone, DeepInfo
<1>3. /\ w \in Queues /\ ToSet(w) = ToSet(s.queue) \ {u}
      /\ Len(w) = (IF u \in ToSet(s.queue) THEN Len(s.queue) - 1 ELSE Len(s.queue))
      /\ \A x \in ToSet(s.queue) \ {u} :
            PosOf(w, x) = IF u \in ToSet(s.queue) /\ PosOf(s.queue, u) < PosOf(s.queue, x)
                          THEN PosOf(s.queue, x) - 1 ELSE PosOf(s.queue, x)
  BY <1>1, WithoutFacts
<1> HIDE DEF w
<1>4. /\ Append(w, u) \in Queues /\ ToSet(Append(w, u)) = ToSet(w) \cup {u}
      /\ Len(Append(w, u)) = Len(w) + 1 /\ PosOf(Append(w, u), u) = Len(w) + 1
      /\ \A x \in ToSet(w) : PosOf(Append(w, u), x) = PosOf(w, x)
  BY <1>3, AppendFacts
<1>5. e.queue = Append(w, u)
      /\ e.info = [s.info EXCEPT ![u] = CreateInfoOfUser(v, s.info[v], u, DeepInfo(s, v, u))]
  BY <1>2
<1>6. CreateInfoOfUser(v, s.info[v], u, DeepInfo(s, v, u)) \in InfoT
  BY <1>1, DepthsTyped, InfoCreated
<1>7. e \in StateT
  BY <1>1, <1>2, <1>4, <1>6 DEF StateT
<1>8. Len(s.queue) \in Nat /\ \A x \in ToSet(s.queue) : PosOf(s.queue, x) \in 1..Len(s.queue)
                              /\ s.queue[PosOf(s.queue, x)] = x
  BY <1>1, Positions
<1>9. Len(w) \in Nat /\ \A x \in ToSet(w) : PosOf(w, x) \in 1..Len(w)
  BY <1>3, Positions
<1>10. \A x \in ToSet(s.queue) \ {u} : PosOf(e.queue, x) < PosOf(e.queue, u)
  BY <1>3, <1>4, <1>5, <1>9
<1>11. ASSUME NEW x \in ToSet(s.queue) \ {u}, NEW y \in ToSet(s.queue) \ {u}
       PROVE  PosOf(e.queue, x) < PosOf(e.queue, y) <=> PosOf(s.queue, x) < PosOf(s.queue, y)
  <2>1. PosOf(e.queue, x) = PosOf(w, x) /\ PosOf(e.queue, y) = PosOf(w, y)
    BY <1>3, <1>4, <1>5
  <2>2. PICK i \in Int, j \in Int, k \in Int :
            /\ i = PosOf(s.queue, x) /\ j = PosOf(s.queue, y)
            /\ u \in ToSet(s.queue) => k = PosOf(s.queue, u) /\ k # i /\ k # j
    BY <1>8
  <2>3. /\ PosOf(w, x) = IF u \in ToSet(s.queue) /\ k < i THEN i - 1 ELSE i
        /\ PosOf(w, y) = IF u \in ToSet(s.queue) /\ k < j THEN j - 1 ELSE j
    BY <1>3, <2>2
  <2> QED
    BY <2>1, <2>2, <2>3
<1> QED
  BY <1>3, <1>4, <1>5, <1>7, <1>8, <1>10, <1>11

\* What enqueuing an operand does to them.
LEMMA OperandEnqueued ==
    ASSUME NEW s \in StateT, NEW v \in ToSet(s.queue), NEW u \in Value, u # v
    PROVE  LET e   == EnqueueOperand(s, v, u)
               old == InQueue(s, u) /\ PosOf(s.queue, u) < PosOf(s.queue, v)
           IN  /\ e \in StateT /\ ToSet(e.queue) = ToSet(s.queue) \cup {u}
               /\ Len(s.queue) \in Nat
               /\ Len(e.queue) = IF u \in ToSet(s.queue) THEN Len(s.queue) ELSE Len(s.queue) + 1
               /\ e.info = [s.info EXCEPT ![u] =
                                CreateInfoOfUser(v, s.info[v], u,
                                                 IF old THEN s.info[u] ELSE NewInfo(Less1(s.info[v].depth)))]
<1> DEFINE e == EnqueueOperand(s, v, u)
           w == Without(s.queue, u)
           k == PosOf(w, v)
           old == InQueue(s, u) /\ PosOf(s.queue, u) < PosOf(s.queue, v)
           ui == IF old THEN s.info[u] ELSE NewInfo(Less1(s.info[v].depth))
<1>1. s.queue \in Queues /\ v \in Value /\ s.info \in [Value -> InfoT] /\ s = [queue |-> s.queue, info |-> s.info]
      /\ Len(s.queue) \in Nat
  BY Positions DEF StateT
<1>2. ui \in InfoT
  BY <1>1, DepthsTyped, NewInfoTyped
<1>3. CreateInfoOfUser(v, s.info[v], u, ui) \in InfoT
  BY <1>1, <1>2, InfoCreated
<1>4. CASE old
  <2>1. e = [s EXCEPT !.info[u] = CreateInfoOfUser(v, s.info[v], u, @)]
    BY <1>4 DEF EnqueueOperand
  <2>2. e.queue = s.queue
        /\ e.info = [s.info EXCEPT ![u] = CreateInfoOfUser(v, s.info[v], u, s.info[u])]
        /\ e = [queue |-> e.queue, info |-> e.info]
    BY <1>1, <2>1
  <2>3. e.info \in [Value -> InfoT]
    BY <1>1, <1>3, <1>4, <2>2
  <2>4. e \in StateT
    BY <1>1, <2>2, <2>3 DEF StateT
  <2>5. u \in ToSet(s.queue) /\ ui = s.info[u]
    BY <1>4 DEF InQueue
  <2> QED
    BY <1>1, <2>2, <2>4, <2>5
<1>5. CASE ~old
  <2>1. e = [queue |-> InsertAt(w, k, u),
             info |-> [s.info EXCEPT ![u] = CreateInfoOfUser(v, s.info[v], u, ui)]]
    BY <1>5 DEF EnqueueOperand
  <2>2. /\ w \in Queues /\ ToSet(w) = ToSet(s.queue) \ {u}
        /\ Len(w) = (IF u \in ToSet(s.queue) THEN Len(s.queue) - 1 ELSE Len(s.queue))
    BY <1>1, WithoutFacts
  <2> HIDE DEF w
  <2>3. k \in 1..Len(w)
    BY <2>2, Positions
  <2> HIDE DEF k
  <2>4. /\ InsertAt(w, k, u) \in Queues /\ ToSet(InsertAt(w, k, u)) = ToSet(w) \cup {u}
        /\ Len(InsertAt(w, k, u)) = Len(w) + 1
    BY <2>2, <2>3, InsertFacts
  <2> HIDE DEF ui, old
  <2>5. e.queue = InsertAt(w, k, u)
        /\ e.info = [s.info EXCEPT ![u] = CreateInfoOfUser(v, s.info[v], u, ui)]
    BY <2>1
  <2>6. e \in StateT
    BY <1>1, <1>3, <2>1, <2>4 DEF StateT
  <2>7. Len(e.queue) = IF u \in ToSet(s.queue) THEN Len(s.queue) ELSE Len(s.queue) + 1
    BY <1>1, <2>2, <2>4, <2>5
  <2> QED
    BY <1>1, <2>2, <2>4, <2>5, <2>6, <2>7 DEF ui, old
<1> QED
  BY <1>4, <1>5

\* What every user enqueued keeps, the loop keeps.
LEMMA UsersKeep ==
    ASSUME NEW A, NEW v, prog.users[v] \in Seq(Value), State \in A,
           \A s \in A : \A u \in ToSet(prog.users[v]) : EnqueueUser(s, v, u) \in A
    PROVE  EnqueueUsers(v) \in A
<1> PICK us \in Seq(Value), s0 \in A : us = prog.users[v] /\ s0 = State
  OBVIOUS
<1> DEFINE T == [i \in 0..Len(us) |-> A]
<1>1. Len(us) \in Nat /\ \A i \in 1..Len(us) : us[i] \in ToSet(us) /\ i \in 0..Len(us) /\ i - 1 \in 0..Len(us)
  BY DEF ToSet
<1>2. T \in [0..Len(us) -> SUBSET A] /\ s0 \in T[0]
  BY <1>1
<1>3. \A i \in 1..Len(us), s \in A : EnqueueUser(s, v, us[i]) \in A
  BY <1>1
<1>4. \A i \in 1..Len(us) : \A s \in T[i - 1] : EnqueueUser(s, v, us[i]) \in T[i]
  BY <1>1, <1>3
<1>5. T[Len(us)] = A
  BY <1>1
<1> HIDE DEF T
<1> QED
  BY <1>2, <1>3, <1>4, <1>5, UsersFold

\* What every operand enqueued keeps, the loop keeps.
LEMMA OperandsKeep ==
    ASSUME NEW A, NEW v, prog.ops[v] \in Seq(Value), State \in A,
           \A s \in A : \A u \in ToSet(prog.ops[v]) : EnqueueOperand(s, v, u) \in A
    PROVE  EnqueueOperands(v) \in A
<1> PICK us \in Seq(Value), s0 \in A : us = prog.ops[v] /\ s0 = State
  OBVIOUS
<1> DEFINE T == [i \in 0..Len(us) |-> A]
<1>1. Len(us) \in Nat /\ \A i \in 1..Len(us) : us[i] \in ToSet(us) /\ i \in 0..Len(us) /\ i - 1 \in 0..Len(us)
  BY DEF ToSet
<1>2. T \in [0..Len(us) -> SUBSET A] /\ s0 \in T[0]
  BY <1>1
<1>3. \A i \in 1..Len(us), s \in A : EnqueueOperand(s, v, us[i]) \in A
  BY <1>1
<1>4. \A i \in 1..Len(us) : \A s \in T[i - 1] : EnqueueOperand(s, v, us[i]) \in T[i]
  BY <1>1, <1>3
<1>5. T[Len(us)] = A
  BY <1>1
<1> HIDE DEF T
<1> QED
  BY <1>2, <1>3, <1>4, <1>5, OperandsFold

(***************************************************************************)
(* The types that hold whatever the annotations are.                       *)
(***************************************************************************)
QueueTyped ==
    /\ prog \in Programs
    /\ State \in StateT
    /\ visited \subseteq Value
    /\ next \in ToSet(queue) \cup {EndIt}
    /\ pass \in {"forward", "backward", "done"}
    /\ pass # "done" => Len(queue) > 0
    /\ prevSize \in 0..Len(queue)

\* The iterator moved forward is at the next place, or at the end.
LEMMA AfterFacts ==
    ASSUME NEW q \in Queues, NEW v \in ToSet(q)
    PROVE  /\ After(q, v) \in ToSet(q) \cup {EndIt}
           /\ After(q, v) = EndIt => PosOf(q, v) = Len(q)
           /\ After(q, v) # EndIt => PosOf(q, After(q, v)) = PosOf(q, v) + 1
<1>1. /\ Len(q) \in Nat /\ PosOf(q, v) \in 1..Len(q) /\ \A i \in 1..Len(q) : q[i] \in ToSet(q) /\ PosOf(q, q[i]) = i
      /\ ToSet(q) \subseteq Value
  BY Positions
<1>2. CASE PosOf(q, v) = Len(q)
  BY <1>2 DEF After
<1>3. CASE PosOf(q, v) # Len(q)
  <2>1. PosOf(q, v) + 1 \in 1..Len(q)
    BY <1>1, <1>3
  <2> QED
    BY <1>1, <1>3, <2>1, QueueAssumption DEF After
<1> QED
  BY <1>2, <1>3

\* The iterator moved back is at a value of the queue.
LEMMA BeforeFacts ==
    ASSUME NEW q \in Queues, Len(q) > 0, NEW n \in ToSet(q) \cup {EndIt}, n # Head(q)
    PROVE  Before(q, n) \in ToSet(q)
<1>1. /\ q \in Seq(Value) /\ Len(q) \in Nat /\ \A i \in 1..Len(q) : q[i] \in ToSet(q) /\ PosOf(q, q[i]) = i
      /\ ToSet(q) \subseteq Value /\ \A v \in ToSet(q) : PosOf(q, v) \in 1..Len(q) /\ q[PosOf(q, v)] = v
  BY Positions
<1>2. CASE n = EndIt
  <2>1. Len(q) \in 1..Len(q)
    BY <1>1
  <2> QED
    BY <1>1, <1>2, <2>1 DEF Before, Last
<1>3. CASE n # EndIt
  <2>1. PosOf(q, n) \in 1..Len(q) /\ q[PosOf(q, n)] = n
    BY <1>1, <1>3
  <2>2. Head(q) = q[1]
    BY <1>1
  <2>3. PosOf(q, n) - 1 \in 1..Len(q)
    BY <1>1, <2>1, <2>2
  <2> QED
    BY <1>1, <1>3, <2>3 DEF Before
<1> QED
  BY <1>2, <1>3

\* The loop over the users keeps the queue well formed, keeps the value that is
\* visited on it and never shortens it.
LEMMA UsersVisitedTyped ==
    ASSUME QueueTyped, next # EndIt
    PROVE  /\ EnqueueUsers(next) \in StateT /\ next \in ToSet(EnqueueUsers(next).queue)
           /\ Len(EnqueueUsers(next).queue) \in Nat /\ Len(EnqueueUsers(next).queue) >= Len(queue)
<1> DEFINE A == {s \in StateT : next \in ToSet(s.queue) /\ Len(s.queue) \in Nat /\ Len(s.queue) >= Len(queue)}
<1>1. State \in A
  <2>1. queue \in Queues
    BY DEF QueueTyped, StateT, State
  <2> QED
    BY <2>1, Positions DEF QueueTyped, State
<1>2. next \in Value /\ prog.users[next] \in Seq(Value) /\ next \notin ToSet(prog.users[next])
      /\ ToSet(prog.users[next]) \subseteq Value
  <2>1. queue \in Queues
    BY DEF QueueTyped, StateT, State
  <2>2. next \in Value
    BY <2>1, Positions DEF QueueTyped
  <2> QED
    BY <2>2, ProgramAssumption DEF QueueTyped, ToSet
<1>3. ASSUME NEW s \in A, NEW u \in ToSet(prog.users[next])
      PROVE  EnqueueUser(s, next, u) \in A
  <2>1. CASE u \in LeftAlone(next)
    BY <2>1 DEF EnqueueUser, LeftAlone
  <2>2. CASE u \notin LeftAlone(next)
    <3>1. u \in Value /\ u # next /\ s \in StateT /\ next \in ToSet(s.queue)
      BY <1>2
    <3> DEFINE e == EnqueueUser(s, next, u)
    <3>2. /\ e \in StateT /\ ToSet(e.queue) = ToSet(s.queue) \cup {u}
          /\ Len(s.queue) \in Nat
          /\ Len(e.queue) = IF u \in ToSet(s.queue) THEN Len(s.queue) ELSE Len(s.queue) + 1
      BY ZenonT(40), <2>2, <3>1, UserEnqueued
    <3> HIDE DEF e
    <3>3. queue \in Queues /\ Len(queue) \in Nat
      BY Positions DEF QueueTyped, StateT, State
    <3>4. Len(e.queue) >= Len(queue) /\ Len(e.queue) \in Nat
      BY <3>2, <3>3
    <3> QED
      BY <3>1, <3>2, <3>4 DEF e
  <2> QED
    BY <2>1, <2>2
<1> HIDE DEF A
<1>4. EnqueueUsers(next) \in A
  BY <1>1, <1>2, <1>3, UsersKeep
<1> QED
  BY <1>4 DEF A

\* The loop over the operands does the same.
LEMMA OperandsVisitedTyped ==
    ASSUME QueueTyped, NEW v \in ToSet(queue)
    PROVE  /\ EnqueueOperands(v) \in StateT /\ v \in ToSet(EnqueueOperands(v).queue)
           /\ Len(EnqueueOperands(v).queue) \in Nat /\ Len(EnqueueOperands(v).queue) >= Len(queue)
<1> DEFINE A == {s \in StateT : v \in ToSet(s.queue) /\ Len(s.queue) \in Nat /\ Len(s.queue) >= Len(queue)}
<1>0. queue \in Queues
  BY DEF QueueTyped, StateT, State
<1>1. State \in A
  BY <1>0, Positions DEF QueueTyped, State
<1>2. v \in Value /\ prog.ops[v] \in Seq(Value) /\ v \notin ToSet(prog.ops[v])
      /\ ToSet(prog.ops[v]) \subseteq Value
  <2>2. v \in Value
    BY <1>0, Positions DEF QueueTyped
  <2> QED
    BY <2>2, ProgramAssumption DEF QueueTyped, ToSet
<1>3. ASSUME NEW s \in A, NEW u \in ToSet(prog.ops[v])
      PROVE  EnqueueOperand(s, v, u) \in A
  <2>1. u \in Value /\ u # v /\ s \in StateT /\ v \in ToSet(s.queue)
    BY <1>2
  <2> DEFINE e == EnqueueOperand(s, v, u)
  <2>2. /\ e \in StateT /\ ToSet(e.queue) = ToSet(s.queue) \cup {u}
        /\ Len(s.queue) \in Nat
        /\ Len(e.queue) = IF u \in ToSet(s.queue) THEN Len(s.queue) ELSE Len(s.queue) + 1
    BY ZenonT(40), <2>1, OperandEnqueued
  <2> HIDE DEF e
  <2>3. Len(queue) \in Nat
    BY <1>0, Positions
  <2>4. Len(e.queue) >= Len(queue) /\ Len(e.queue) \in Nat
    BY <2>2, <2>3
  <2> QED
    BY <2>1, <2>2, <2>4 DEF e
<1> HIDE DEF A
<1>4. EnqueueOperands(v) \in A
  BY <1>1, <1>2, <1>3, OperandsKeep
<1> QED
  BY <1>4 DEF A

\* The annotated values alone are a well-formed queue.
LEMMA QueueTypedInit == Init => QueueTyped
<1> SUFFICES ASSUME Init PROVE QueueTyped
  OBVIOUS
<1>1. prog \in Programs /\ prog.roots \in Seq(Value) /\ IsInjective(prog.roots)
      /\ prog.depth \in [Root -> Nat]
  BY ProgramAssumption DEF Init
<1>2. queue \in Queues /\ Len(queue) \in Nat
  BY <1>1 DEF Init, Queues
<1>3. \A v \in Root : RootInfo(prog, v) \in InfoT
  BY <1>1, QueueAssumption DEF RootInfo, InfoT
<1>4. info \in [Value -> InfoT]
  BY <1>3, NewInfoTyped DEF Init
<1> QED
  BY <1>1, <1>2, <1>4 DEF Init, QueueTyped, State, StateT

\* The pass over users and the pass over operands, each by what is left of
\* its loop.
LEMMA PassSteps ==
    ASSUME QueueTyped
    PROVE  /\ VisitUsers => /\ pass = "forward" /\ next # EndIt /\ next \in ToSet(queue)
                            /\ State' = [queue |-> EnqueueUsers(next).queue, info |-> EnqueueUsers(next).info]
                            /\ queue' = EnqueueUsers(next).queue /\ info' = EnqueueUsers(next).info
                            /\ next' = After(EnqueueUsers(next).queue, next)
                            /\ visited' = visited \cup {next}
                            /\ UNCHANGED <<prog, pass, prevSize>>
           /\ VisitOperands => \E v \in ToSet(queue) :
                 /\ pass = "backward" /\ next # Head(queue)
                 /\ v = Before(queue, next)
                 /\ IF info[v].depth = 0 THEN queue' = queue /\ info' = info
                    ELSE queue' = EnqueueOperands(v).queue /\ info' = EnqueueOperands(v).info
                 /\ next' = v
                 /\ UNCHANGED <<prog, visited, pass, prevSize>>
<1>1. ASSUME VisitUsers
      PROVE  /\ pass = "forward" /\ next # EndIt /\ next \in ToSet(queue)
             /\ State' = [queue |-> EnqueueUsers(next).queue, info |-> EnqueueUsers(next).info]
             /\ queue' = EnqueueUsers(next).queue /\ info' = EnqueueUsers(next).info
             /\ next' = After(EnqueueUsers(next).queue, next)
             /\ visited' = visited \cup {next}
             /\ UNCHANGED <<prog, pass, prevSize>>
  BY <1>1 DEF VisitUsers, QueueTyped, State
<1>2. ASSUME VisitOperands
      PROVE  \E v \in ToSet(queue) :
                 /\ pass = "backward" /\ next # Head(queue)
                 /\ v = Before(queue, next)
                 /\ IF info[v].depth = 0 THEN queue' = queue /\ info' = info
                    ELSE queue' = EnqueueOperands(v).queue /\ info' = EnqueueOperands(v).info
                 /\ next' = v
                 /\ UNCHANGED <<prog, visited, pass, prevSize>>
  <2>1. queue \in Queues /\ Len(queue) > 0 /\ next \in ToSet(queue) \cup {EndIt} /\ next # Head(queue)
    BY <1>2 DEF VisitOperands, QueueTyped, State, StateT
  <2>2. Before(queue, next) \in ToSet(queue)
    BY <2>1, BeforeFacts
  <2> QED
    BY <1>2, <2>2 DEF VisitOperands, State
<1> QED
  BY <1>1, <1>2

\* Every step keeps the queue well formed.
LEMMA QueueTypedStep == QueueTyped /\ [Next]_vars => QueueTyped'
<1> SUFFICES ASSUME QueueTyped, [Next]_vars PROVE QueueTyped'
  OBVIOUS
<1>1. queue \in Queues /\ info \in [Value -> InfoT] /\ Len(queue) \in Nat
      /\ queue \in Seq(Value) /\ \A i \in 1..Len(queue) : queue[i] \in ToSet(queue)
  BY Positions DEF QueueTyped, State, StateT
<1>2. CASE BeginRound
  <2>1. Len(queue) > 0 /\ Head(queue) \in ToSet(queue)
    BY <1>1, <1>2 DEF BeginRound, QueueTyped
  <2> QED
    BY <1>1, <1>2, <2>1 DEF BeginRound, QueueTyped, State, StateT
<1>3. CASE VisitUsers
  <2>1. /\ EnqueueUsers(next) \in StateT /\ next \in ToSet(EnqueueUsers(next).queue)
        /\ Len(EnqueueUsers(next).queue) \in Nat /\ Len(EnqueueUsers(next).queue) >= Len(queue)
    BY <1>3, UsersVisitedTyped DEF VisitUsers
  <2>2. After(EnqueueUsers(next).queue, next) \in ToSet(EnqueueUsers(next).queue) \cup {EndIt}
    BY <2>1, AfterFacts DEF StateT
  <2>3. /\ pass = "forward" /\ next # EndIt /\ next \in ToSet(queue)
        /\ queue' = EnqueueUsers(next).queue /\ info' = EnqueueUsers(next).info
        /\ next' = After(EnqueueUsers(next).queue, next)
        /\ visited' = visited \cup {next}
        /\ UNCHANGED <<prog, pass, prevSize>>
    BY <1>3, PassSteps
  <2>4. ToSet(queue) \subseteq Value
    BY <1>1, Positions
  <2> QED
    BY <1>1, <2>1, <2>2, <2>3, <2>4 DEF QueueTyped, State, StateT
<1>4. CASE BeginBacktracking
  BY <1>4 DEF BeginBacktracking, QueueTyped, State
<1>5. CASE VisitOperands
  <2>1. PICK v \in ToSet(queue) :
            /\ pass = "backward"
            /\ IF info[v].depth = 0 THEN queue' = queue /\ info' = info
               ELSE queue' = EnqueueOperands(v).queue /\ info' = EnqueueOperands(v).info
            /\ next' = v
            /\ UNCHANGED <<prog, visited, pass, prevSize>>
    BY <1>5, PassSteps
  <2>2. /\ EnqueueOperands(v) \in StateT /\ v \in ToSet(EnqueueOperands(v).queue)
        /\ Len(EnqueueOperands(v).queue) \in Nat /\ Len(EnqueueOperands(v).queue) >= Len(queue)
    BY OperandsVisitedTyped
  <2>3. CASE info[v].depth = 0
    BY <1>1, <2>1, <2>3 DEF QueueTyped, State, StateT
  <2>4. CASE info[v].depth # 0
    BY <1>1, <2>1, <2>2, <2>4 DEF QueueTyped, State, StateT
  <2> QED
    BY <2>3, <2>4
<1>6. CASE EndRound
  BY <1>6 DEF EndRound, QueueTyped, State
<1>7. CASE UNCHANGED vars
  BY <1>7 DEF vars, QueueTyped, State
<1> QED
  BY <1>2, <1>3, <1>4, <1>5, <1>6, <1>7 DEF Next, Step

\* Nothing but values of the program are queued, each once, and the iterator
\* is always on one of them or at the end.
THEOREM QueueWellFormed == Spec => []QueueTyped
BY QueueTypedInit, QueueTypedStep, PTL DEF Spec

(***************************************************************************)
(* The order of the queue.  M are the values that the loop over the users  *)
(* has moved to the end.                                                   *)
(***************************************************************************)
Moved(s, M) ==
    /\ s \in StateT
    /\ ToSet(s.queue) = ToSet(queue) \cup M
    /\ \A x, y \in ToSet(queue) \ M :
          PosOf(s.queue, x) < PosOf(s.queue, y) <=> PosOf(queue, x) < PosOf(queue, y)
    /\ \A x \in ToSet(queue) \ M : \A y \in M : PosOf(s.queue, x) < PosOf(s.queue, y)

\* One user moved to the end of the queue: those moved before it, and the
\* others, keep their order.
LEMMA UserMoved ==
    ASSUME NEW v \in ToSet(queue), NEW M, NEW s, Moved(s, M), NEW u \in Value, u # v
    PROVE  Moved(EnqueueUser(s, v, u), IF u \in LeftAlone(v) THEN M ELSE M \cup {u})
<1>1. CASE u \in LeftAlone(v)
  BY <1>1 DEF EnqueueUser, LeftAlone
<1>2. CASE u \notin LeftAlone(v)
  <2> DEFINE e == EnqueueUser(s, v, u)
  <2>1. s \in StateT /\ v \in ToSet(s.queue)
    BY DEF Moved
  <2>2. /\ e \in StateT /\ ToSet(e.queue) = ToSet(s.queue) \cup {u}
        /\ \A x \in ToSet(s.queue) \ {u} : PosOf(e.queue, x) < PosOf(e.queue, u)
        /\ \A x, y \in ToSet(s.queue) \ {u} :
             PosOf(e.queue, x) < PosOf(e.queue, y) <=> PosOf(s.queue, x) < PosOf(s.queue, y)
    BY <1>2, <2>1, UserEnqueued
  <2> HIDE DEF e
  <2>3. \A x, y \in ToSet(queue) \ (M \cup {u}) :
          PosOf(e.queue, x) < PosOf(e.queue, y) <=> PosOf(queue, x) < PosOf(queue, y)
    BY <2>2 DEF Moved
  <2>4. ASSUME NEW x \in ToSet(queue) \ (M \cup {u}), NEW y \in M \cup {u}
        PROVE  PosOf(e.queue, x) < PosOf(e.queue, y)
    <3>1. CASE y = u
      BY <2>2, <3>1 DEF Moved
    <3>2. CASE y # u
      BY <2>2, <3>2 DEF Moved
    <3> QED
      BY <3>1, <3>2
  <2>5. Moved(e, M \cup {u})
    BY <2>2, <2>3, <2>4 DEF Moved
  <2> QED
    BY <1>2, <2>5 DEF e
<1> QED
  BY <1>1, <1>2

\* The users of v that are not left alone.
MovedBy(v) == ToSet(prog.users[v]) \ LeftAlone(v)

\* The loop over the users moves those it does not leave alone to the end.
LEMMA UsersMoved ==
    ASSUME QueueTyped, NEW v \in ToSet(queue)
    PROVE  Moved(EnqueueUsers(v), MovedBy(v))
<1>1. queue \in Queues /\ ToSet(queue) \subseteq Value
  BY Positions DEF QueueTyped, StateT, State
<1>2. prog.users[v] \in Seq(Value) /\ v \notin ToSet(prog.users[v])
  BY <1>1, ProgramAssumption DEF QueueTyped
<1> DEFINE M(i, us) == {us[j] : j \in 1..i} \ LeftAlone(v)
<1>3. PICK us \in Seq(Value) : us = prog.users[v]
  BY <1>2
<1>4. /\ Len(us) \in Nat /\ ToSet(us) = {us[j] : j \in 1..Len(us)}
      /\ \A i \in 1..Len(us) : us[i] \in Value /\ us[i] # v
  <2>1. ToSet(us) = {us[j] : j \in 1..Len(us)}
    BY DEF ToSet
  <2> QED
    BY <1>2, <1>3, <2>1
<1> DEFINE A == {s \in StateT : v \in ToSet(s.queue)}
           T == [i \in 0..Len(us) |-> {s \in A : Moved(s, M(i, us))}]
<1>5. State \in A
  BY DEF QueueTyped, State
<1>6. ASSUME NEW s \in A, NEW i \in 1..Len(us)
      PROVE  EnqueueUser(s, v, us[i]) \in A
  <2>1. CASE us[i] \in LeftAlone(v)
    BY <2>1 DEF EnqueueUser, LeftAlone
  <2>2. CASE us[i] \notin LeftAlone(v)
    <3> DEFINE e == EnqueueUser(s, v, us[i])
    <3>1. e \in StateT /\ ToSet(e.queue) = ToSet(s.queue) \cup {us[i]}
      BY ZenonT(40), <1>4, <2>2, UserEnqueued
    <3> HIDE DEF e
    <3>2. e \in A
      BY <3>1
    <3> QED
      BY <3>2 DEF e
  <2> QED
    BY <2>1, <2>2
<1>7. T \in [0..Len(us) -> SUBSET A]
  OBVIOUS
<1>8. State \in T[0]
  <2>1. M(0, us) = {}
    OBVIOUS
  <2>2. Moved(State, {})
    BY DEF Moved, QueueTyped, State
  <2>3. T[0] = {s \in A : Moved(s, M(0, us))}
    BY <1>4
  <2> HIDE DEF T, A, M
  <2> QED
    BY <1>5, <2>1, <2>2, <2>3
<1>9. ASSUME NEW i \in 1..Len(us), NEW s \in T[i - 1]
      PROVE  EnqueueUser(s, v, us[i]) \in T[i]
  <2>1. i - 1 \in 0..Len(us) /\ i \in 0..Len(us)
    BY <1>4
  <2>2. s \in A /\ Moved(s, M(i - 1, us))
    BY <2>1
  <2>3. M(i, us) = IF us[i] \in LeftAlone(v) THEN M(i - 1, us) ELSE M(i - 1, us) \cup {us[i]}
    <3>1. {us[j] : j \in 1..i} = {us[j] : j \in 1..(i-1)} \cup {us[i]}
      <4>1. 1..i = (1..(i-1)) \cup {i}
        BY <1>4
      <4> QED
        BY <4>1
    <3> QED
      BY <3>1
  <2>4. us[i] \in Value /\ us[i] # v
    BY <1>4
  <2> HIDE DEF M, A
  <2>5. Moved(EnqueueUser(s, v, us[i]), M(i, us))
    <3>1. Moved(EnqueueUser(s, v, us[i]),
                IF us[i] \in LeftAlone(v) THEN M(i - 1, us) ELSE M(i - 1, us) \cup {us[i]})
      BY <2>2, <2>4, UserMoved
    <3> QED
      BY <2>3, <3>1
  <2> QED
    BY <1>6, <2>1, <2>2, <2>5
<1>10. EnqueueUsers(v) \in T[Len(us)]
  <2> HIDE DEF A, T
  <2>1. \A i \in 1..Len(us) : \A s \in T[i - 1] : EnqueueUser(s, v, us[i]) \in T[i]
    BY <1>9
  <2> QED
    BY <1>3, <1>5, <1>6, <1>7, <1>8, <2>1, UsersFold
<1>11. Moved(EnqueueUsers(v), M(Len(us), us))
  BY <1>4, <1>10
<1> QED
  BY <1>3, <1>4, <1>11 DEF MovedBy

\* The values the iterator has passed have their users behind them.
PassedInOrder ==
    pass = "forward" =>
        \A x \in ToSet(queue) : next = EndIt \/ PosOf(queue, x) < PosOf(queue, next) =>
            \A u \in ToSet(prog.users[x]) \ prog.phi :
                u \in ToSet(queue) /\ PosOf(queue, x) < PosOf(queue, u)

\* Every step keeps the users of a passed value behind it.
LEMMA PassedInOrderStep ==
    ASSUME QueueTyped, PassedInOrder, [Next]_vars
    PROVE  PassedInOrder'
<1>1. queue \in Queues
  BY DEF QueueTyped, StateT, State
<1>2. CASE BeginRound
  <2>1. /\ queue \in Seq(Value) /\ Len(queue) \in Nat /\ Len(queue) > 0
        /\ \A i \in 1..Len(queue) : PosOf(queue, queue[i]) = i
        /\ \A x \in ToSet(queue) : PosOf(queue, x) \in 1..Len(queue)
    BY <1>1, <1>2, Positions DEF BeginRound, QueueTyped
  <2>2. Head(queue) = queue[1] /\ PosOf(queue, Head(queue)) = 1 /\ Head(queue) \in Value
    BY <2>1
  <2>3. next' # EndIt /\ queue' = queue /\ next' = Head(queue)
    BY <1>2, <2>2, QueueAssumption DEF BeginRound
  <2> QED
    BY <2>1, <2>2, <2>3 DEF PassedInOrder
<1>3. CASE VisitUsers
  <2> DEFINE s == EnqueueUsers(next)
             M == MovedBy(next)
  <2>1. /\ pass = "forward" /\ next # EndIt /\ next \in ToSet(queue)
        /\ queue' = s.queue /\ next' = After(s.queue, next) /\ UNCHANGED <<prog, pass>>
    BY <1>3, PassSteps
  <2>2. Moved(s, M)
    BY <2>1, UsersMoved
  <2>3. s \in StateT /\ s.queue \in Queues /\ ToSet(s.queue) = ToSet(queue) \cup M /\ next \in ToSet(s.queue)
    BY <2>1, <2>2 DEF Moved, StateT
  <2>4. /\ After(s.queue, next) \in ToSet(s.queue) \cup {EndIt}
        /\ After(s.queue, next) = EndIt => PosOf(s.queue, next) = Len(s.queue)
        /\ After(s.queue, next) # EndIt => PosOf(s.queue, After(s.queue, next)) = PosOf(s.queue, next) + 1
    BY <2>3, AfterFacts
  <2>5. /\ Len(s.queue) \in Nat
        /\ \A x \in ToSet(s.queue) : PosOf(s.queue, x) \in 1..Len(s.queue) /\ s.queue[PosOf(s.queue, x)] = x
    BY <2>3, Positions
  <2>6. next \notin M
    <3>1. next \in Value
      BY <1>1, <2>1, Positions
    <3> QED
      BY <3>1, ProgramAssumption DEF MovedBy, QueueTyped
  <2> HIDE DEF s, M
  <2>7. ASSUME NEW x \in ToSet(s.queue),
               After(s.queue, next) = EndIt \/ PosOf(s.queue, x) < PosOf(s.queue, After(s.queue, next)),
               NEW u \in ToSet(prog.users[x]) \ prog.phi
        PROVE  u \in ToSet(s.queue) /\ PosOf(s.queue, x) < PosOf(s.queue, u)
    <3>1. x = next \/ PosOf(s.queue, x) < PosOf(s.queue, next)
      <4>1. PosOf(s.queue, x) <= PosOf(s.queue, next)
        BY <2>3, <2>4, <2>5, <2>7
      <4> QED
        BY <2>3, <2>5, <4>1
    <3>2. CASE x = next
      <4>1. u \in M
        BY <3>2 DEF M, MovedBy, LeftAlone
      <4> QED
        BY <2>1, <2>2, <2>3, <2>6, <3>2, <4>1 DEF Moved
    <3>3. CASE x # next
      <4>1. PosOf(s.queue, x) < PosOf(s.queue, next)
        BY <3>1, <3>3
      <4>2. x \notin M
        <5>1. x \in M => PosOf(s.queue, next) < PosOf(s.queue, x)
          BY <2>1, <2>2, <2>6 DEF Moved
        <5> QED
          BY <2>3, <2>5, <4>1, <5>1
      <4>3. x \in ToSet(queue) /\ PosOf(queue, x) < PosOf(queue, next)
        BY <2>1, <2>2, <2>3, <2>6, <4>1, <4>2 DEF Moved
      <4>4. u \in ToSet(queue) /\ PosOf(queue, x) < PosOf(queue, u)
        BY <2>1, <4>3 DEF PassedInOrder
      <4> QED
        BY <2>2, <2>3, <4>2, <4>3, <4>4 DEF Moved
    <3> QED
      BY <3>2, <3>3
  <2> QED
    BY <2>1, <2>7 DEF PassedInOrder
<1>4. CASE BeginBacktracking
  BY <1>4 DEF BeginBacktracking, PassedInOrder
<1>5. CASE VisitOperands
  BY <1>5 DEF VisitOperands, PassedInOrder
<1>6. CASE EndRound
  BY <1>6 DEF EndRound, PassedInOrder
<1>7. CASE UNCHANGED vars
  BY <1>7 DEF vars, PassedInOrder
<1> QED
  BY <1>2, <1>3, <1>4, <1>5, <1>6, <1>7 DEF Next, Step

\* Theorem: when the values have been passed in the forward direction, the users of
\* a queued value stand behind it, unless the loop left them where they were.
THEOREM QueueInOrder == Spec => []UsersBehind
<1>1. Init => PassedInOrder
  BY DEF Init, PassedInOrder
<1>2. QueueTyped /\ PassedInOrder => UsersBehind
  BY DEF PassedInOrder, UsersBehind, InQueue, State
<1>3. QueueTyped /\ PassedInOrder /\ [Next]_vars => PassedInOrder'
  BY PassedInOrderStep
<1> QED
  BY QueueWellFormed, <1>1, <1>2, <1>3, PTL DEF Spec

\* A queue without repetitions holds no more values than there are.
LEMMA QueueFits ==
    ASSUME NEW q \in Queues
    PROVE  Len(q) <= Cardinality(Value) /\ Len(q) \in Nat /\ Cardinality(Value) \in Nat
<1>1. q \in Seq(Value) /\ Len(q) \in Nat /\ DOMAIN q = 1..Len(q)
      /\ \A i \in 1..Len(q) : q[i] \in Value /\ PosOf(q, q[i]) = i
  BY Positions DEF Queues
<1>2. IsFiniteSet(Value) /\ Cardinality(Value) \in Nat
  BY QueueAssumption, FS_CardinalityType
<1>3. IsFiniteSet(1..Len(q)) /\ Cardinality(1..Len(q)) = Len(q)
  BY <1>1, FS_Interval
<1> DEFINE f == [i \in 1..Len(q) |-> q[i]]
<1>4. f \in Injection(1..Len(q), Value)
  <2>1. f \in [1..Len(q) -> Value] /\ \A i, j \in 1..Len(q) : f[i] = f[j] => i = j
    BY <1>1
  <2> HIDE DEF f
  <2> QED
    BY <2>1, Fun_IsInj
<1> HIDE DEF f
<1>5. Cardinality(1..Len(q)) <= Cardinality(Value)
  BY <1>2, <1>4, FS_Injection
<1> QED
  BY <1>1, <1>2, <1>3, <1>5

(***************************************************************************)
(* Distances.  Depth turns into distance, and every value that enters the  *)
(* queue may add three: its own distance, and the depth a store may get.   *)
(***************************************************************************)
Room(q) == Far - 2 - 3 * (Cardinality(Value) - Len(q))

HasRoom(x, i, room) ==
    /\ i.from # NoRoot
    /\ i.dist + i.depth <= room
    /\ x \in prog.malloc => i.dist + 2 <= room

InRoom(s) == \A x \in ToSet(s.queue) : HasRoom(x, s.info[x], Room(s.queue))

\* The room left for depths is a number below Far.
LEMMA RoomFacts ==
    ASSUME NEW q \in Queues
    PROVE  Room(q) \in Int /\ Room(q) <= Far - 2 /\ Far \in Nat
<1>1. Len(q) <= Cardinality(Value) /\ Len(q) \in Nat /\ Cardinality(Value) \in Nat
  BY QueueFits
<1> QED
  BY <1>1, QueueAssumption DEF Room

\* A user enqueued has a distance and a depth that are still in the room: what it
\* takes is paid for by the longer queue.
LEMMA UserInRoom ==
    ASSUME NEW s \in StateT, InRoom(s), NEW v \in ToSet(s.queue), NEW u \in Value, u # v
    PROVE  InRoom(EnqueueUser(s, v, u))
<1>1. CASE u \in LeftAlone(v)
  BY <1>1 DEF EnqueueUser, LeftAlone
<1>2. CASE u \notin LeftAlone(v)
  <2> DEFINE e == EnqueueUser(s, v, u)
             ui == DeepInfo(s, v, u)
             new == CreateInfoOfUser(v, s.info[v], u, ui)
  <2>0. s.queue \in Queues /\ v \in Value /\ s.info \in [Value -> InfoT]
    BY Positions DEF StateT
  <2>1. /\ e \in StateT /\ ToSet(e.queue) = ToSet(s.queue) \cup {u}
        /\ Len(s.queue) \in Nat
        /\ Len(e.queue) = IF u \in ToSet(s.queue) THEN Len(s.queue) ELSE Len(s.queue) + 1
        /\ e.info = [s.info EXCEPT ![u] = new]
    BY <1>2, UserEnqueued
  <2>2. /\ InfoOf(s, u) \in InfoT /\ UserDepth(s.info[v].depth, u) \in Nat
        /\ ui \in InfoT /\ ui.dist = InfoOf(s, u).dist /\ ui.from = InfoOf(s, u).from
        /\ ui.depth = MaxOf(InfoOf(s, u).depth, UserDepth(s.info[v].depth, u))
    BY <2>0, DepthsTyped
  <2>3. s.info[v] \in InfoT /\ s.info[u] \in InfoT
    BY <2>0
  <2> HIDE DEF ui
  <2>4. /\ new \in InfoT /\ new.depth = ui.depth
        /\ new.dist = IF ui.dist > Plus1(s.info[v].dist) THEN Plus1(s.info[v].dist) ELSE ui.dist
        /\ s.info[v].from # NoRoot /\ (ui.from # NoRoot \/ ui.dist > Plus1(s.info[v].dist))
             => new.from # NoRoot
    BY <2>2, <2>3, InfoCreated
  <2> HIDE DEF new, e
  <2>5. /\ Room(s.queue) \in Int /\ Room(e.queue) \in Int /\ Room(s.queue) <= Far - 2 /\ Far \in Nat
        /\ Room(e.queue) = IF u \in ToSet(s.queue) THEN Room(s.queue) ELSE Room(s.queue) + 3
    <3>1. Room(s.queue) \in Int /\ Room(e.queue) \in Int /\ Room(s.queue) <= Far - 2 /\ Far \in Nat
      BY <2>0, <2>1, RoomFacts DEF StateT
    <3>2. Cardinality(Value) \in Nat
      BY <2>0, QueueFits
    <3> QED
      BY SMTT(30), <2>1, <3>1, <3>2 DEF Room
  <2>6. PICK R \in Int, dv \in Nat, bv \in Nat :
          R = Room(s.queue) /\ dv = s.info[v].dist /\ bv = s.info[v].depth
    BY <2>3, <2>5, QueueAssumption DEF InfoT
  <2>7. dv + bv <= R /\ s.info[v].from # NoRoot /\ Plus1(dv) = dv + 1 /\ dv + 1 < Far
    <3>1. dv + bv <= R /\ s.info[v].from # NoRoot
      BY <2>6 DEF InRoom, HasRoom
    <3>2. dv + 1 < Far
      BY <2>5, <2>6, <3>1
    <3> QED
      BY <2>5, <2>6, <3>1, <3>2 DEF Plus1
  <2>8. PICK b \in Nat : b = UserDepth(bv, u) /\
          (b = (IF bv = 0 THEN 0 ELSE bv - 1) \/ (u \in prog.malloc /\ b = 2))
    BY <2>2, <2>6 DEF UserDepth, Less1
  <2>9. HasRoom(u, new, Room(e.queue))
    <3>1. CASE u \in ToSet(s.queue)
      <4>1. PICK du \in Nat, bu \in Nat : du = s.info[u].dist /\ bu = s.info[u].depth
        BY <2>3, QueueAssumption DEF InfoT
      <4>2. ui.dist = du /\ ui.from = s.info[u].from /\ ui.depth = MaxOf(bu, b)
        BY <2>2, <2>6, <2>8, <3>1, <4>1 DEF InfoOf, InQueue
      <4>3. du + bu <= R /\ s.info[u].from # NoRoot /\ (u \in prog.malloc => du + 2 <= R)
        BY <2>6, <3>1, <4>1 DEF InRoom, HasRoom
      <4>4. PICK d \in Nat : d = new.dist /\ d = (IF du > dv + 1 THEN dv + 1 ELSE du)
        BY <2>4, <2>6, <2>7, <4>1, <4>2
      <4>5. d + MaxOf(bu, b) <= R
        <5>1. d <= du /\ d <= dv + 1
          BY <4>4
        <5>2. d + bu <= R
          BY <4>3, <5>1
        <5>3. d + b <= R
          BY <2>7, <2>8, <4>3, <5>1
        <5> QED
          BY <5>2, <5>3 DEF MaxOf
      <4>6. u \in prog.malloc => d + 2 <= R
        BY <4>3, <4>4
      <4> QED
        BY <2>4, <2>5, <2>6, <2>7, <3>1, <4>2, <4>3, <4>4, <4>5, <4>6 DEF HasRoom
    <3>2. CASE u \notin ToSet(s.queue)
      <4>1. InfoOf(s, u) = NewInfo(0)
        BY <3>2 DEF InfoOf, InQueue
      <4>2. ui.dist = Far /\ ui.depth = MaxOf(0, b)
        BY <2>2, <2>6, <2>8, <4>1, NewInfoTyped
      <4>3. new.dist = dv + 1 /\ new.from # NoRoot
        BY <2>4, <2>5, <2>6, <2>7, <4>2
      <4>4. new.depth = b
        BY <2>4, <4>2 DEF MaxOf
      <4>5. Room(e.queue) = R + 3
        BY <2>5, <2>6, <3>2
      <4>6. dv + 1 + b <= R + 3
        BY <2>7, <2>8
      <4>7. dv + 1 + 2 <= R + 3
        BY <2>7
      <4> QED
        BY <4>3, <4>4, <4>5, <4>6, <4>7 DEF HasRoom
    <3> QED
      BY <3>1, <3>2
  <2>10. ASSUME NEW x \in ToSet(s.queue), x # u
         PROVE  HasRoom(x, e.info[x], Room(e.queue))
    <3>1. HasRoom(x, s.info[x], Room(s.queue))
      BY DEF InRoom
    <3>2. x \in Value
      BY <2>0, Positions
    <3>3. PICK i \in InfoT : i = s.info[x] /\ i = e.info[x]
      BY <2>0, <2>1, <2>10, <3>2
    <3>4. Room(s.queue) <= Room(e.queue)
      BY <2>5
    <3>5. i.dist \in Nat /\ i.depth \in Nat
      BY QueueAssumption DEF InfoT
    <3> QED
      BY <2>5, <3>1, <3>3, <3>4, <3>5 DEF HasRoom
  <2>11. e.info[u] = new
    BY <2>0, <2>1
  <2> QED
    BY <2>1, <2>9, <2>10, <2>11 DEF InRoom, e
<1> QED
  BY <1>1, <1>2

\* So has an operand.
LEMMA OperandInRoom ==
    ASSUME NEW s \in StateT, InRoom(s), NEW v \in ToSet(s.queue), NEW u \in Value, u # v,
           u \notin prog.malloc, s.info[v].depth # 0
    PROVE  InRoom(EnqueueOperand(s, v, u))
<1> DEFINE e == EnqueueOperand(s, v, u)
           old == InQueue(s, u) /\ PosOf(s.queue, u) < PosOf(s.queue, v)
           ui == IF old THEN s.info[u] ELSE NewInfo(Less1(s.info[v].depth))
           new == CreateInfoOfUser(v, s.info[v], u, ui)
<1>0. s.queue \in Queues /\ v \in Value /\ s.info \in [Value -> InfoT]
  BY Positions DEF StateT
<1>1. /\ e \in StateT /\ ToSet(e.queue) = ToSet(s.queue) \cup {u}
      /\ Len(s.queue) \in Nat
      /\ Len(e.queue) = IF u \in ToSet(s.queue) THEN Len(s.queue) ELSE Len(s.queue) + 1
      /\ e.info = [s.info EXCEPT ![u] = new]
  BY OperandEnqueued
<1>2. s.info[v] \in InfoT /\ s.info[u] \in InfoT
  BY <1>0
<1>3. Less1(s.info[v].depth) \in Nat
  BY <1>0, DepthsTyped
<1>4. ui \in InfoT
  BY <1>2, <1>3, NewInfoTyped
<1>5. /\ new \in InfoT /\ new.depth = ui.depth
      /\ new.dist = IF ui.dist > Plus1(s.info[v].dist) THEN Plus1(s.info[v].dist) ELSE ui.dist
      /\ s.info[v].from # NoRoot /\ (ui.from # NoRoot \/ ui.dist > Plus1(s.info[v].dist))
           => new.from # NoRoot
  <2> HIDE DEF ui
  <2> QED
    BY <1>2, <1>4, InfoCreated
<1> HIDE DEF new, e
<1>6. /\ Room(s.queue) \in Int /\ Room(e.queue) \in Int /\ Room(s.queue) <= Far - 2 /\ Far \in Nat
      /\ Room(s.queue) <= Room(e.queue)
  <2>1. Room(s.queue) \in Int /\ Room(e.queue) \in Int /\ Room(s.queue) <= Far - 2 /\ Far \in Nat
    BY <1>0, <1>1, RoomFacts DEF StateT
  <2>2. Cardinality(Value) \in Nat
    BY <1>0, QueueFits
  <2> QED
    BY <1>1, <2>1, <2>2 DEF Room
<1>7. PICK R \in Int, dv \in Nat, bv \in Nat :
          R = Room(s.queue) /\ dv = s.info[v].dist /\ bv = s.info[v].depth /\ bv # 0
  BY <1>2, <1>6, QueueAssumption DEF InfoT
<1>8. dv + bv <= R /\ s.info[v].from # NoRoot /\ Plus1(dv) = dv + 1 /\ dv + 1 < Far
  <2>1. dv + bv <= R /\ s.info[v].from # NoRoot
    BY <1>7 DEF InRoom, HasRoom
  <2>2. dv + 1 < Far
    BY <1>6, <1>7, <2>1
  <2> QED
    BY <1>6, <1>7, <2>1, <2>2 DEF Plus1
<1>9. HasRoom(u, new, R)
  <2>1. CASE old
    <3>1. PICK du \in Nat, bu \in Nat : du = s.info[u].dist /\ bu = s.info[u].depth
      BY <1>2, QueueAssumption DEF InfoT
    <3>2. ui = s.info[u]
      BY <2>1
    <3>3. du + bu <= R /\ s.info[u].from # NoRoot
      BY <1>7, <2>1, <3>1 DEF InRoom, HasRoom, InQueue
    <3> HIDE DEF ui, old
    <3>4. PICK d \in Nat : d = new.dist /\ d = (IF du > dv + 1 THEN dv + 1 ELSE du)
      BY <1>5, <1>7, <1>8, <3>1, <3>2
    <3>5. d + bu <= R /\ new.depth = bu /\ new.from # NoRoot
      BY <1>5, <1>8, <3>1, <3>2, <3>3, <3>4
    <3> QED
      BY <3>4, <3>5 DEF HasRoom
  <2>2. CASE ~old
    <3>1. ui = NewInfo(bv - 1) /\ bv - 1 \in Nat
      BY <1>7, <2>2 DEF Less1
    <3>2. ui.dist = Far /\ ui.depth = bv - 1
      BY <3>1, NewInfoTyped
    <3> HIDE DEF ui, old
    <3>3. new.dist = dv + 1 /\ new.depth = bv - 1 /\ new.from # NoRoot
      BY <1>5, <1>6, <1>7, <1>8, <3>2
    <3>4. dv + 1 + (bv - 1) <= R
      BY <1>8
    <3> QED
      BY <3>3, <3>4 DEF HasRoom
  <2> QED
    BY <2>1, <2>2
<1> HIDE DEF ui, old
<1>10. ASSUME NEW x, NEW i \in InfoT, HasRoom(x, i, R)
       PROVE  HasRoom(x, i, Room(e.queue))
  <2>1. i.dist \in Nat /\ i.depth \in Nat
    BY QueueAssumption DEF InfoT
  <2> QED
    BY <1>6, <1>7, <1>10, <2>1 DEF HasRoom
<1>11. ASSUME NEW x \in ToSet(s.queue), x # u
       PROVE  HasRoom(x, e.info[x], Room(e.queue))
  <2>1. HasRoom(x, s.info[x], R)
    BY <1>7 DEF InRoom
  <2>2. x \in Value
    BY <1>0, Positions
  <2>3. s.info[x] \in InfoT /\ s.info[x] = e.info[x]
    BY <1>0, <1>1, <1>11, <2>2
  <2> QED
    BY <1>10, <2>1, <2>3
<1>12. HasRoom(u, e.info[u], Room(e.queue))
  <2>1. e.info[u] = new
    BY <1>0, <1>1
  <2> QED
    BY <1>5, <1>9, <1>10, <2>1
<1> QED
  BY <1>1, <1>11, <1>12 DEF InRoom, e

\* Being in the room is a property of the state alone.
LEMMA InRoomPrimed ==
    ASSUME NEW s, State' = s, prog' = prog, InRoom(s)
    PROVE  InRoom(State)'
BY DEF InRoom, HasRoom, Room

\* Annotations that are shallow leave room for the annotated values.
LEMMA RoomInit == ShallowAnnotations /\ Init => InRoom(State)
<1> SUFFICES ASSUME ShallowAnnotations, Init PROVE InRoom(State)
  OBVIOUS
<1>1. prog \in Programs /\ prog.roots \in Seq(Value) /\ ToSet(prog.roots) = Root
      /\ prog.depth \in [Root -> Nat] /\ queue = prog.roots
  BY ProgramAssumption DEF Init
<1>2. queue \in Queues
  BY QueueTypedInit DEF QueueTyped, State, StateT
<1>3. Len(queue) \in Nat /\ Cardinality(Value) \in Nat /\ ToSet(queue) = {queue[i] : i \in 1..Len(queue)}
  BY <1>2, QueueFits, Positions
<1>4. ASSUME NEW r \in Root
      PROVE  HasRoom(r, info[r], Room(queue))
  <2>1. r \in ToSet(queue) /\ r \in Value
    BY <1>1, QueueAssumption
  <2>2. info[r] = RootInfo(prog, r)
    BY <2>1 DEF Init
  <2>3. info[r].from = r /\ info[r].dist = 0 /\ info[r].depth = prog.depth[r]
    BY <2>2 DEF RootInfo
  <2>4. prog.depth[r] + 3 * Cardinality(Value) + 2 <= Far /\ prog.depth[r] \in Nat
    BY <1>1 DEF ShallowAnnotations
  <2>5. Len(queue) >= 1
    BY <1>3, <2>1
  <2>6. prog.depth[r] <= Room(queue) /\ 2 <= Room(queue)
    BY SMTT(30), <1>3, <2>4, <2>5, QueueAssumption DEF Room
  <2> QED
    BY <2>3, <2>4, <2>6, QueueAssumption DEF HasRoom
<1> QED
  BY <1>1, <1>4 DEF InRoom, State

\* Every step keeps all distances and depths in the room.
LEMMA RoomStep ==
    ASSUME QueueTyped, InRoom(State), [Next]_vars
    PROVE  InRoom(State)'
<1>1. queue \in Queues /\ ToSet(queue) \subseteq Value /\ State \in StateT
  BY Positions DEF QueueTyped, StateT, State
<1>2. CASE VisitUsers
  <2>1. /\ next \in ToSet(queue)
        /\ State' = [queue |-> EnqueueUsers(next).queue, info |-> EnqueueUsers(next).info]
    BY <1>2, PassSteps
  <2>2. next \in Value /\ prog.users[next] \in Seq(Value) /\ next \notin ToSet(prog.users[next])
        /\ ToSet(prog.users[next]) \subseteq Value
    BY <1>1, <2>1, ProgramAssumption DEF QueueTyped, ToSet
  <2> DEFINE A == {s \in StateT : next \in ToSet(s.queue) /\ InRoom(s)}
  <2>3. State \in A
    BY <1>1, <2>1 DEF State
  <2>4. ASSUME NEW s \in A, NEW u \in ToSet(prog.users[next])
        PROVE  EnqueueUser(s, next, u) \in A
    <3>1. u \in Value /\ u # next
      BY <2>2
    <3>2. InRoom(EnqueueUser(s, next, u))
      BY <3>1, UserInRoom
    <3>3. EnqueueUser(s, next, u) \in StateT /\ next \in ToSet(EnqueueUser(s, next, u).queue)
      <4>1. CASE u \in LeftAlone(next)
        BY <4>1 DEF EnqueueUser, LeftAlone
      <4>2. CASE u \notin LeftAlone(next)
        <5> DEFINE e == EnqueueUser(s, next, u)
        <5>1. e \in StateT /\ ToSet(e.queue) = ToSet(s.queue) \cup {u}
          BY <3>1, <4>2, UserEnqueued
        <5> HIDE DEF e
        <5>2. e \in StateT /\ next \in ToSet(e.queue)
          BY <5>1
        <5> QED
          BY <5>2 DEF e
      <4> QED
        BY <4>1, <4>2
    <3> QED
      BY <3>2, <3>3
  <2> HIDE DEF A
  <2>5. EnqueueUsers(next) \in A
    BY <2>2, <2>3, <2>4, UsersKeep
  <2>6. State' = EnqueueUsers(next)
    BY <2>1, <2>5 DEF A, StateT
  <2>7. PICK s \in A : State' = s
    BY <2>5, <2>6
  <2>8. prog' = prog
    BY <1>2 DEF VisitUsers
  <2> QED
    BY <2>7, <2>8, InRoomPrimed DEF A
<1>3. CASE VisitOperands
  <2>1. PICK v \in ToSet(queue) :
            /\ IF info[v].depth = 0 THEN queue' = queue /\ info' = info
               ELSE queue' = EnqueueOperands(v).queue /\ info' = EnqueueOperands(v).info
            /\ prog' = prog
    BY <1>3, PassSteps
  <2>2. CASE info[v].depth = 0
    <3>1. State' = State
      BY <2>1, <2>2 DEF State
    <3> QED
      BY <2>1, <3>1, InRoomPrimed
  <2>3. CASE info[v].depth # 0
    <3>1. v \in Value /\ prog.ops[v] \in Seq(Value) /\ v \notin ToSet(prog.ops[v])
          /\ ToSet(prog.ops[v]) \subseteq Value /\ ToSet(prog.ops[v]) \cap prog.malloc = {}
      BY <1>1, ProgramAssumption DEF QueueTyped, ToSet
    <3> DEFINE A == {s \in StateT : v \in ToSet(s.queue) /\ InRoom(s) /\ s.info[v].depth # 0}
    <3>2. State \in A
      BY <1>1, <2>3 DEF State
    <3>3. ASSUME NEW s \in A, NEW u \in ToSet(prog.ops[v])
          PROVE  EnqueueOperand(s, v, u) \in A
      <4>1. u \in Value /\ u # v /\ u \notin prog.malloc
        BY <3>1
      <4> DEFINE e == EnqueueOperand(s, v, u)
      <4>2. InRoom(e)
        BY <4>1, OperandInRoom
      <4> DEFINE old == InQueue(s, u) /\ PosOf(s.queue, u) < PosOf(s.queue, v)
                 i == CreateInfoOfUser(v, s.info[v], u,
                          IF old THEN s.info[u] ELSE NewInfo(Less1(s.info[v].depth)))
      <4>3. /\ e \in StateT /\ ToSet(e.queue) = ToSet(s.queue) \cup {u}
            /\ e.info = [s.info EXCEPT ![u] = i]
        BY <4>1, OperandEnqueued
      <4> HIDE DEF e, i
      <4>4. e.info[v] = s.info[v]
        BY <3>1, <4>1, <4>3
      <4>5. e \in A
        BY <4>2, <4>3, <4>4
      <4> QED
        BY <4>5 DEF e
    <3> HIDE DEF A
    <3>4. EnqueueOperands(v) \in A
      BY <3>1, <3>2, <3>3, OperandsKeep
    <3>5. State' = EnqueueOperands(v)
      BY <2>1, <2>3, <3>4 DEF A, StateT, State
    <3> QED
      BY <2>1, <3>4, <3>5, InRoomPrimed DEF A
  <2> QED
    BY <2>2, <2>3
<1>4. CASE UNCHANGED <<prog, queue, info>>
  <2>1. State' = State /\ prog' = prog
    BY <1>4 DEF State
  <2> QED
    BY <2>1, InRoomPrimed
<1> QED
  BY <1>2, <1>3, <1>4 DEF Next, Step, vars, BeginRound, BeginBacktracking, EndRound

(***************************************************************************)
(* Every value in the queue has metadata, if no depth comes near UINT_MAX. *)
(***************************************************************************)
THEOREM TypeCorrect == ShallowAnnotations => (Spec => []TypeOK)
<1> SUFFICES ASSUME ShallowAnnotations PROVE Spec => []TypeOK
  OBVIOUS
<1>1. Init => InRoom(State)
  BY RoomInit
<1>2. QueueTyped /\ InRoom(State) /\ [Next]_vars => InRoom(State)'
  BY RoomStep
<1>3. QueueTyped /\ InRoom(State) => TypeOK
  <2> SUFFICES ASSUME QueueTyped, InRoom(State) PROVE TypeOK
    OBVIOUS
  <2>1. queue \in Queues /\ info \in [Value -> InfoT] /\ ToSet(queue) \subseteq Value
    BY Positions DEF QueueTyped, StateT, State
  <2>2. \A v \in ToSet(queue) : info[v].from # NoRoot
    BY DEF InRoom, HasRoom, State
  <2> QED
    BY <2>1, <2>2 DEF TypeOK, QueueTyped, Queues
<1> QED
  BY QueueWellFormed, <1>1, <1>2, <1>3, PTL DEF Spec

(***************************************************************************)
(* What is wanted.  A set of values with depths is closed if it holds what *)
(* its members lead to.                                                    *)
(***************************************************************************)
Closed(W) ==
    \A w \in W :
        /\ \A u \in ToSet(prog.users[w[1]]) : <<u, UserDepth(w[2], u)>> \in W
        /\ w[2] > 0 => \A u \in ToSet(prog.ops[w[1]]) : <<u, w[2] - 1>> \in W

\* No value in the queue has more depth than W gives it.
InWanted(s, W) ==
    \A v \in ToSet(s.queue) : \E d \in Nat : <<v, d>> \in W /\ s.info[v].depth <= d

NothingMoreQueued ==
    \A W \in SUBSET (Value \X Nat) :
        RootsAndDepths \subseteq W /\ Closed(W) => InWanted(State, W)

\* A value that is to be backtracked deeper hands a deeper depth to its users.
LEMMA UserDepthGrows ==
    ASSUME NEW d \in Nat, NEW b \in Nat, b <= d, NEW u
    PROVE  UserDepth(b, u) <= UserDepth(d, u) /\ UserDepth(b, u) \in Nat /\ UserDepth(d, u) \in Nat
BY DEF UserDepth, Less1

\* A user enqueued for a wanted value is wanted, with its depth.
LEMMA UserWanted ==
    ASSUME NEW W \in SUBSET (Value \X Nat), Closed(W),
           NEW s \in StateT, InWanted(s, W), NEW v \in ToSet(s.queue),
           NEW u \in ToSet(prog.users[v]), u \in Value, u # v
    PROVE  InWanted(EnqueueUser(s, v, u), W)
<1>1. CASE u \in LeftAlone(v)
  BY <1>1 DEF EnqueueUser, LeftAlone
<1>2. CASE u \notin LeftAlone(v)
  <2> DEFINE e == EnqueueUser(s, v, u)
             ui == DeepInfo(s, v, u)
             new == CreateInfoOfUser(v, s.info[v], u, ui)
  <2>0. s.queue \in Queues /\ v \in Value /\ s.info \in [Value -> InfoT] /\ ToSet(s.queue) \subseteq Value
    BY Positions DEF StateT
  <2>1. /\ e \in StateT /\ ToSet(e.queue) = ToSet(s.queue) \cup {u}
        /\ e.info = [s.info EXCEPT ![u] = new]
    BY <1>2, UserEnqueued
  <2>2. /\ InfoOf(s, u) \in InfoT /\ UserDepth(s.info[v].depth, u) \in Nat
        /\ ui \in InfoT
        /\ ui.depth = MaxOf(InfoOf(s, u).depth, UserDepth(s.info[v].depth, u))
    BY <2>0, DepthsTyped
  <2>3. s.info[v] \in InfoT /\ s.info[u] \in InfoT
    BY <2>0
  <2> HIDE DEF ui
  <2>4. new.depth = ui.depth
    BY <2>2, <2>3, InfoCreated
  <2> HIDE DEF new, e
  <2>5. PICK d \in Nat, b \in Nat : <<v, d>> \in W /\ b = s.info[v].depth /\ b <= d
    BY <2>3 DEF InWanted, InfoT
  <2>6. <<u, UserDepth(d, u)>> \in W
    BY <2>5 DEF Closed
  <2>7. PICK dd \in Nat, bb \in Nat : <<u, dd>> \in W /\ bb = UserDepth(b, u) /\ bb <= dd
    BY <2>2, <2>5, <2>6, UserDepthGrows
  <2>8. \E h \in Nat : <<u, h>> \in W /\ new.depth <= h
    <3>1. CASE u \in ToSet(s.queue)
      <4>1. PICK h \in Nat, c \in Nat : <<u, h>> \in W /\ c = s.info[u].depth /\ c <= h
        BY <2>3, <3>1 DEF InWanted, InfoT
      <4>2. new.depth = MaxOf(c, bb)
        BY <2>2, <2>4, <2>5, <2>7, <3>1, <4>1 DEF InfoOf, InQueue
      <4>3. CASE c > bb
        BY <4>1, <4>2, <4>3 DEF MaxOf
      <4>4. CASE c <= bb
        BY <2>7, <4>2, <4>4 DEF MaxOf
      <4> QED
        BY <4>3, <4>4
    <3>2. CASE u \notin ToSet(s.queue)
      <4>1. InfoOf(s, u).depth = 0
        BY <3>2, NewInfoTyped DEF InfoOf, InQueue
      <4>2. new.depth = bb
        BY <2>2, <2>4, <2>5, <2>7, <4>1 DEF MaxOf
      <4> QED
        BY <2>7, <4>2
    <3> QED
      BY <3>1, <3>2
  <2>9. ASSUME NEW x \in ToSet(e.queue)
        PROVE  \E h \in Nat : <<x, h>> \in W /\ e.info[x].depth <= h
    <3>1. CASE x = u
      <4>1. e.info[x] = new
        BY <2>0, <2>1, <3>1
      <4> QED
        BY <2>8, <3>1, <4>1
    <3>2. CASE x # u
      <4>1. x \in ToSet(s.queue) /\ e.info[x] = s.info[x]
        BY <2>0, <2>1, <3>2
      <4> QED
        BY <4>1 DEF InWanted
    <3> QED
      BY <3>1, <3>2
  <2> QED
    BY <2>9 DEF InWanted, e
<1> QED
  BY <1>1, <1>2

\* An operand enqueued for a wanted value that is backtracked is wanted, with its
\* depth.
LEMMA OperandWanted ==
    ASSUME NEW W \in SUBSET (Value \X Nat), Closed(W),
           NEW s \in StateT, InWanted(s, W), NEW v \in ToSet(s.queue), s.info[v].depth # 0,
           NEW u \in ToSet(prog.ops[v]), u \in Value, u # v
    PROVE  InWanted(EnqueueOperand(s, v, u), W)
<1> DEFINE e == EnqueueOperand(s, v, u)
           old == InQueue(s, u) /\ PosOf(s.queue, u) < PosOf(s.queue, v)
           ui == IF old THEN s.info[u] ELSE NewInfo(Less1(s.info[v].depth))
           new == CreateInfoOfUser(v, s.info[v], u, ui)
<1>0. s.queue \in Queues /\ v \in Value /\ s.info \in [Value -> InfoT] /\ ToSet(s.queue) \subseteq Value
  BY Positions DEF StateT
<1>1. /\ e \in StateT /\ ToSet(e.queue) = ToSet(s.queue) \cup {u}
      /\ e.info = [s.info EXCEPT ![u] = new]
  BY OperandEnqueued
<1>2. s.info[v] \in InfoT /\ s.info[u] \in InfoT
  BY <1>0
<1>3. Less1(s.info[v].depth) \in Nat
  BY <1>0, DepthsTyped
<1>4. ui \in InfoT
  BY <1>2, <1>3, NewInfoTyped
<1>5. new.depth = ui.depth
  <2> HIDE DEF ui
  <2> QED
    BY <1>2, <1>4, InfoCreated
<1> HIDE DEF new, e
<1>6. PICK d \in Nat, b \in Nat : <<v, d>> \in W /\ b = s.info[v].depth /\ b <= d /\ b # 0
  BY <1>2 DEF InWanted, InfoT
<1>7. <<u, d - 1>> \in W /\ d - 1 \in Nat
  <2>1. d > 0 /\ d - 1 \in Nat
    BY <1>6
  <2> QED
    BY <1>6, <2>1 DEF Closed
<1>8. \E h \in Nat : <<u, h>> \in W /\ new.depth <= h
  <2>1. CASE old
    <3>1. u \in ToSet(s.queue) /\ ui = s.info[u]
      BY <2>1 DEF InQueue
    <3> QED
      BY <1>5, <3>1 DEF InWanted
  <2>2. CASE ~old
    <3>1. ui = NewInfo(b - 1) /\ b - 1 \in Nat
      BY <1>6, <2>2 DEF Less1
    <3>2. new.depth = b - 1
      BY <1>5, <3>1, NewInfoTyped
    <3> QED
      BY <1>6, <1>7, <3>1, <3>2
  <2> QED
    BY <2>1, <2>2
<1>9. ASSUME NEW x \in ToSet(e.queue)
      PROVE  \E h \in Nat : <<x, h>> \in W /\ e.info[x].depth <= h
  <2>1. CASE x = u
    <3>1. e.info[x] = new
      BY <1>0, <1>1, <2>1
    <3> QED
      BY <1>8, <2>1, <3>1
  <2>2. CASE x # u
    <3>1. x \in ToSet(s.queue) /\ e.info[x] = s.info[x]
      BY <1>0, <1>1, <2>2
    <3> QED
      BY <3>1 DEF InWanted
  <2> QED
    BY <2>1, <2>2
<1> QED
  BY <1>9 DEF InWanted, e

\* At first the queue holds the annotated values only.
LEMMA WantedInit == Init => NothingMoreQueued
<1> SUFFICES ASSUME Init, NEW W \in SUBSET (Value \X Nat), RootsAndDepths \subseteq W
             PROVE  InWanted(State, W)
  BY DEF NothingMoreQueued
<1>1. prog \in Programs /\ ToSet(prog.roots) = Root /\ prog.depth \in [Root -> Nat] /\ queue = prog.roots
  BY ProgramAssumption DEF Init
<1>2. ASSUME NEW r \in Root PROVE \E d \in Nat : <<r, d>> \in W /\ info[r].depth <= d
  <2>1. info[r] = RootInfo(prog, r)
    BY QueueAssumption DEF Init
  <2>2. info[r].depth = prog.depth[r] /\ prog.depth[r] \in Nat
    BY <1>1, <2>1 DEF RootInfo
  <2>3. <<r, prog.depth[r]>> \in W
    BY DEF RootsAndDepths
  <2> QED
    BY <2>2, <2>3
<1> QED
  BY <1>1, <1>2 DEF InWanted, State

\* What is wanted depends on the program, which no step changes.
LEMMA WantedPrimed ==
    ASSUME prog' = prog, NEW W
    PROVE  /\ (RootsAndDepths \subseteq W)' => RootsAndDepths \subseteq W
           /\ Closed(W)' => Closed(W)
           /\ \A s : State' = s /\ InWanted(s, W) => InWanted(State, W)'
<1>1. RootsAndDepths' = RootsAndDepths
  BY DEF RootsAndDepths
<1>2. \A d, u : UserDepth(d, u)' = UserDepth(d, u)
  BY DEF UserDepth
<1>3. Closed(W)' => Closed(W)
  BY <1>2 DEF Closed
<1>4. \A s : State' = s /\ InWanted(s, W) => InWanted(State, W)'
  BY DEF InWanted
<1> QED
  BY <1>1, <1>3, <1>4

\* No step puts anything on the queue that is not wanted.
LEMMA WantedStep ==
    ASSUME QueueTyped, NothingMoreQueued, [Next]_vars
    PROVE  NothingMoreQueued'
<1>0. prog' = prog
  BY DEF Next, Step, vars, BeginRound, VisitUsers, BeginBacktracking, VisitOperands, EndRound
<1> SUFFICES ASSUME NEW W \in SUBSET (Value \X Nat), (RootsAndDepths \subseteq W)', Closed(W)'
             PROVE  InWanted(State, W)'
  BY DEF NothingMoreQueued
<1>a. Closed(W) /\ InWanted(State, W)
  BY <1>0, WantedPrimed DEF NothingMoreQueued
<1>1. queue \in Queues /\ ToSet(queue) \subseteq Value /\ State \in StateT
  BY Positions DEF QueueTyped, StateT, State
<1>2. CASE VisitUsers
  <2>1. /\ next \in ToSet(queue)
        /\ State' = [queue |-> EnqueueUsers(next).queue, info |-> EnqueueUsers(next).info]
    BY <1>2, PassSteps
  <2>2. next \in Value /\ prog.users[next] \in Seq(Value) /\ next \notin ToSet(prog.users[next])
        /\ ToSet(prog.users[next]) \subseteq Value
    BY <1>1, <2>1, ProgramAssumption DEF QueueTyped, ToSet
  <2> DEFINE A == {s \in StateT : next \in ToSet(s.queue) /\ InWanted(s, W)}
  <2>3. State \in A
    BY <1>1, <1>a, <2>1 DEF State
  <2>4. ASSUME NEW s \in A, NEW u \in ToSet(prog.users[next])
        PROVE  EnqueueUser(s, next, u) \in A
    <3>1. u \in Value /\ u # next
      BY <2>2
    <3>2. InWanted(EnqueueUser(s, next, u), W)
      BY <1>a, <3>1, UserWanted
    <3>3. EnqueueUser(s, next, u) \in StateT /\ next \in ToSet(EnqueueUser(s, next, u).queue)
      <4>1. CASE u \in LeftAlone(next)
        BY <4>1 DEF EnqueueUser, LeftAlone
      <4>2. CASE u \notin LeftAlone(next)
        <5> DEFINE e == EnqueueUser(s, next, u)
        <5>1. e \in StateT /\ ToSet(e.queue) = ToSet(s.queue) \cup {u}
          BY <3>1, <4>2, UserEnqueued
        <5> HIDE DEF e
        <5>2. e \in StateT /\ next \in ToSet(e.queue)
          BY <5>1
        <5> QED
          BY <5>2 DEF e
      <4> QED
        BY <4>1, <4>2
    <3> QED
      BY <3>2, <3>3
  <2> HIDE DEF A
  <2>5. EnqueueUsers(next) \in A
    BY <2>2, <2>3, <2>4, UsersKeep
  <2>6. State' = EnqueueUsers(next)
    BY <2>1, <2>5 DEF A, StateT
  <2>7. PICK s \in A : State' = s
    BY <2>5, <2>6
  <2> QED
    BY <1>0, <2>7, WantedPrimed DEF A
<1>3. CASE VisitOperands
  <2>1. PICK v \in ToSet(queue) :
            IF info[v].depth = 0 THEN queue' = queue /\ info' = info
            ELSE queue' = EnqueueOperands(v).queue /\ info' = EnqueueOperands(v).info
    BY <1>3, PassSteps
  <2>2. CASE info[v].depth = 0
    <3>1. State' = State
      BY <2>1, <2>2 DEF State
    <3> QED
      BY <1>0, <1>a, <3>1, WantedPrimed
  <2>3. CASE info[v].depth # 0
    <3>1. v \in Value /\ prog.ops[v] \in Seq(Value) /\ v \notin ToSet(prog.ops[v])
          /\ ToSet(prog.ops[v]) \subseteq Value
      BY <1>1, ProgramAssumption DEF QueueTyped, ToSet
    <3> DEFINE A == {s \in StateT : v \in ToSet(s.queue) /\ InWanted(s, W) /\ s.info[v].depth # 0}
    <3>2. State \in A
      BY <1>1, <1>a, <2>3 DEF State
    <3>3. ASSUME NEW s \in A, NEW u \in ToSet(prog.ops[v])
          PROVE  EnqueueOperand(s, v, u) \in A
      <4>1. u \in Value /\ u # v
        BY <3>1
      <4> DEFINE e == EnqueueOperand(s, v, u)
      <4>2. InWanted(e, W)
        BY <1>a, <4>1, OperandWanted
      <4> DEFINE old == InQueue(s, u) /\ PosOf(s.queue, u) < PosOf(s.queue, v)
                 i == CreateInfoOfUser(v, s.info[v], u,
                          IF old THEN s.info[u] ELSE NewInfo(Less1(s.info[v].depth)))
      <4>3. /\ e \in StateT /\ ToSet(e.queue) = ToSet(s.queue) \cup {u}
            /\ e.info = [s.info EXCEPT ![u] = i]
        BY <4>1, OperandEnqueued
      <4> HIDE DEF e, i
      <4>4. e.info[v] = s.info[v]
        BY <3>1, <4>1, <4>3
      <4>5. e \in A
        BY <4>2, <4>3, <4>4
      <4> QED
        BY <4>5 DEF e
    <3> HIDE DEF A
    <3>4. EnqueueOperands(v) \in A
      BY <3>1, <3>2, <3>3, OperandsKeep
    <3>5. State' = EnqueueOperands(v)
      BY <2>1, <2>3, <3>4 DEF A, StateT, State
    <3>6. PICK s \in A : State' = s
      BY <3>4, <3>5
    <3> QED
      BY <1>0, <3>6, WantedPrimed DEF A
  <2> QED
    BY <2>2, <2>3
<1>4. CASE UNCHANGED <<prog, queue, info>>
  <2>1. State' = State
    BY <1>4 DEF State
  <2> QED
    BY <1>0, <1>a, <2>1, WantedPrimed
<1> QED
  BY <1>2, <1>3, <1>4 DEF Next, Step, vars, BeginRound, BeginBacktracking, EndRound

\* No annotation is backtracked deeper than Deepest.
LEMMA DeepestBounds ==
    ASSUME prog \in Programs
    PROVE  Deepest \in Nat /\ Deepest >= 2 /\ \A r \in Root : prog.depth[r] \in 0..Deepest
<1>1. /\ prog.roots \in Seq(Value) /\ ToSet(prog.roots) = Root /\ prog.depth \in [Root -> Nat]
  BY ProgramAssumption
<1>2. PICK rs \in Seq(Value) : rs = prog.roots
  BY <1>1
<1>3. Len(rs) \in Nat /\ Root = {rs[i] : i \in 1..Len(rs)}
  BY <1>1, <1>2 DEF ToSet
<1> DEFINE n == Len(rs)
           S == {k \in 0..n : \E b \in Nat : \A i \in 1..k : prog.depth[rs[i]] <= b}
<1>4. 0 \in S
  BY <1>3
<1>5. ASSUME NEW k \in 0..n, k < n, k \in S PROVE k + 1 \in S
  <2>1. PICK b \in Nat : \A i \in 1..k : prog.depth[rs[i]] <= b
    BY <1>5
  <2>2. k + 1 \in 1..n /\ rs[k + 1] \in Root
    BY <1>3, <1>5
  <2>3. PICK d \in Nat : d = prog.depth[rs[k + 1]]
    BY <1>1, <2>2
  <2>4. \A i \in 1..(k + 1) : prog.depth[rs[i]] <= b + d
    <3> SUFFICES ASSUME NEW i \in 1..(k + 1) PROVE prog.depth[rs[i]] <= b + d
      OBVIOUS
    <3>1. CASE i = k + 1
      BY <2>3, <3>1
    <3>2. CASE i # k + 1
      <4>1. i \in 1..k /\ rs[i] \in Root
        BY <1>3, <2>2, <3>2
      <4>2. prog.depth[rs[i]] \in Nat /\ prog.depth[rs[i]] <= b
        BY <1>1, <2>1, <4>1
      <4> QED
        BY <4>2
    <3> QED
      BY <3>1, <3>2
  <2>5. b + d \in Nat /\ k + 1 \in 0..n
    BY <2>2
  <2> QED
    BY <2>4, <2>5
<1>6. n \in S
  <2>1. \A k \in 0..n : k < n /\ k \in S => k + 1 \in S
    BY <1>5
  <2> HIDE DEF S, n
  <2>2. n \in Nat
    BY <1>3 DEF n
  <2>3. 0..n \subseteq S
    BY <1>4, <2>1, <2>2, InductionUpTo
  <2> QED
    BY <2>2, <2>3
<1>7. PICK b \in Nat : \A i \in 1..n : prog.depth[rs[i]] <= b
  BY <1>6
<1> DEFINE D == {2} \cup {prog.depth[r] : r \in Root}
<1>8. b + 2 \in Nat /\ D \subseteq 0..(b + 2) /\ D # {}
  <2>1. ASSUME NEW r \in Root PROVE prog.depth[r] \in 0..(b + 2)
    <3>1. PICK i \in 1..n : r = rs[i]
      BY <1>3
    <3>2. prog.depth[r] \in Nat /\ prog.depth[r] <= b
      BY <1>1, <1>7, <3>1
    <3> QED
      BY <3>2
  <2> QED
    BY <2>1
<1> HIDE DEF D
<1>9. PICK x \in D : \A y \in D : y <= x
  BY <1>8, LargestBounded
<1>10. \E m \in D : \A y \in D : m >= y
  BY <1>8, <1>9
<1>11. Max(D) \in D /\ \A y \in D : Max(D) >= y
  BY <1>10, Zenon DEF Max
<1>12. Deepest = Max(D)
  BY DEF Deepest, D
<1> QED
  BY <1>1, <1>8, <1>11, <1>12 DEF D

\* Values with the depths a path may leave to them.
Leads == Value \X (0..Deepest)

\* The members of one more round of Grow.
LEMMA GrowMember ==
    ASSUME NEW W, NEW x
    PROVE  x \in Grow(W) <=>
             \/ x \in W
             \/ \E w \in W : \E u \in ToSet(prog.users[w[1]]) : x = <<u, UserDepth(w[2], u)>>
             \/ \E w \in W : w[2] > 0 /\ \E u \in ToSet(prog.ops[w[1]]) : x = <<u, w[2] - 1>>
<1>1. x \in UNION {{<<u, UserDepth(w[2], u)>> : u \in ToSet(prog.users[w[1]])} : w \in W}
      <=> \E w \in W : \E u \in ToSet(prog.users[w[1]]) : x = <<u, UserDepth(w[2], u)>>
  OBVIOUS
<1>2. x \in UNION {{<<u, w[2] - 1>> : u \in ToSet(prog.ops[w[1]])} : w \in {y \in W : y[2] > 0}}
      <=> \E w \in W : w[2] > 0 /\ \E u \in ToSet(prog.ops[w[1]]) : x = <<u, w[2] - 1>>
  OBVIOUS
<1>3. x \in Grow(W) <=>
         \/ x \in W
         \/ x \in UNION {{<<u, UserDepth(w[2], u)>> : u \in ToSet(prog.users[w[1]])} : w \in W}
         \/ x \in UNION {{<<u, w[2] - 1>> : u \in ToSet(prog.ops[w[1]])} :
                             w \in {y \in W : y[2] > 0}}
  BY DEF Grow
<1> QED
  BY <1>1, <1>2, <1>3

\* A round of Grow loses nothing and stays among the values and their depths.
LEMMA GrowFacts ==
    ASSUME prog \in Programs, NEW W \in SUBSET Leads
    PROVE  W \subseteq Grow(W) /\ Grow(W) \in SUBSET Leads
<1>1. Deepest \in Nat /\ Deepest >= 2
  BY DeepestBounds
<1>2. \A v \in Value : ToSet(prog.users[v]) \subseteq Value /\ ToSet(prog.ops[v]) \subseteq Value
  BY ProgramAssumption DEF ToSet
<1>3. ASSUME NEW w \in W
      PROVE  /\ \A u \in ToSet(prog.users[w[1]]) : <<u, UserDepth(w[2], u)>> \in Leads
             /\ w[2] > 0 => \A u \in ToSet(prog.ops[w[1]]) : <<u, w[2] - 1>> \in Leads
  <2>1. w[1] \in Value /\ w[2] \in 0..Deepest
    BY DEF Leads
  <2>2. \A u : UserDepth(w[2], u) \in 0..Deepest
    BY <1>1, <2>1 DEF UserDepth, Less1
  <2>3. w[2] > 0 => w[2] - 1 \in 0..Deepest
    BY <1>1, <2>1
  <2> QED
    BY <1>2, <2>1, <2>2, <2>3 DEF Leads
<1>4. ASSUME NEW x \in Grow(W) PROVE x \in Leads
  BY <1>3, GrowMember
<1> QED
  BY <1>4, GrowMember

\* There are finitely many values with depths, as many as there are rounds.
LEMMA LeadsFinite ==
    ASSUME prog \in Programs
    PROVE  IsFiniteSet(Leads) /\ Cardinality(Leads) = Rounds /\ Rounds \in Nat
<1>1. Deepest \in Nat
  BY DeepestBounds
<1>2. IsFiniteSet(0..Deepest) /\ Cardinality(0..Deepest) = Deepest + 1
  BY <1>1, FS_Interval
<1>3. IsFiniteSet(Value) /\ Cardinality(Value) \in Nat
  BY QueueAssumption, FS_CardinalityType
<1>4. IsFiniteSet(Leads) /\ Cardinality(Leads) = Cardinality(Value) * Cardinality(0..Deepest)
  BY <1>2, <1>3, FS_Product DEF Leads
<1>5. Cardinality(Leads) \in Nat
  BY <1>4, FS_CardinalityType
<1> QED
  BY <1>2, <1>4, <1>5 DEF Rounds

\* Wanted is the last of the rounds that start at the roots.
LEMMA WantedByRounds ==
    ASSUME prog \in Programs
    PROVE  \E f \in [0..Rounds -> SUBSET Leads] :
               /\ f[0] = RootsAndDepths
               /\ \A n \in 1..Rounds : f[n] = Grow(f[n - 1])
               /\ Wanted = f[Rounds]
<1> DEFINE A == SUBSET Leads
           Eq(f) == f = [n \in 0..Rounds |-> IF n = 0 THEN RootsAndDepths ELSE Grow(f[n - 1])]
           G == [n \in 1..Rounds |-> [W \in A |-> Grow(W)]]
           it == CHOOSE f : Eq(f)
<1>1. Rounds \in Nat
  BY LeadsFinite
<1>2. RootsAndDepths \in A
  BY DeepestBounds, QueueAssumption DEF RootsAndDepths, Leads
<1>3. \A W \in A : Grow(W) \in A
  BY GrowFacts
<1> HIDE DEF A
<1>4. G \in [1..Rounds -> [A -> A]]
  BY <1>3
<1>5. PICK f \in [0..Rounds -> A] : f[0] = RootsAndDepths /\ \A i \in 1..Rounds : f[i] = G[i][f[i-1]]
  <2> HIDE DEF G
  <2>1. \E f \in [0..Rounds -> A] : f[0] = RootsAndDepths /\ \A i \in 1..Rounds : f[i] = G[i][f[i-1]]
    BY <1>1, <1>2, <1>4, IterationExists
  <2> QED
    BY <2>1
<1>6. \A n \in 1..Rounds : f[n] = Grow(f[n - 1])
  <2> SUFFICES ASSUME NEW n \in 1..Rounds PROVE f[n] = Grow(f[n - 1])
    OBVIOUS
  <2>1. n - 1 \in 0..Rounds /\ f[n] = G[n][f[n - 1]]
    <3> HIDE DEF G
    <3> QED
      BY <1>1, <1>5
  <2> QED
    BY <2>1
<1>7. Eq(f)
  <2>1. \A n \in 0..Rounds : f[n] = IF n = 0 THEN RootsAndDepths ELSE Grow(f[n - 1])
    BY <1>1, <1>5, <1>6
  <2> QED
    BY <1>5, <2>1
<1>8. Eq(it)
  <2> HIDE DEF Eq
  <2> QED
    BY <1>7, Zenon
<1>9. Wanted = it[Rounds]
  BY Zenon DEF Wanted
<1> HIDE DEF it
<1>10. \A n \in 0..Rounds : it[n] = IF n = 0 THEN RootsAndDepths ELSE Grow(it[n - 1])
  BY <1>8
<1> DEFINE S == {n \in 0..Rounds : it[n] = f[n]}
<1>11. 0 \in S
  BY <1>1, <1>5, <1>10
<1>12. ASSUME NEW n \in 0..Rounds, n < Rounds, n \in S PROVE n + 1 \in S
  <2>1. n + 1 \in 1..Rounds /\ n + 1 \in 0..Rounds /\ n + 1 # 0 /\ (n + 1) - 1 = n
    BY <1>1, <1>12
  <2>2. it[n + 1] = Grow(it[n]) /\ f[n + 1] = Grow(f[n])
    BY <1>6, <1>10, <2>1
  <2>3. it[n] = f[n]
    BY <1>12
  <2> QED
    BY <2>1, <2>2, <2>3
<1>13. it[Rounds] = f[Rounds]
  <2>1. \A n \in 0..Rounds : n < Rounds /\ n \in S => n + 1 \in S
    BY <1>12
  <2> HIDE DEF S
  <2>2. 0..Rounds \subseteq S
    BY <1>1, <1>11, <2>1, InductionUpTo
  <2>3. Rounds \in S
    BY <1>1, <2>2
  <2> QED
    BY <2>3 DEF S
<1> QED
  BY <1>5, <1>6, <1>9, <1>13 DEF A

\* After as many rounds as there are values with depths nothing is missing: the
\* rounds grow, and would otherwise have grown past the number of their members.
LEMMA WantedClosed ==
    ASSUME prog \in Programs
    PROVE  Wanted \in SUBSET (Value \X Nat) /\ RootsAndDepths \subseteq Wanted /\ Closed(Wanted)
<1>1. PICK f \in [0..Rounds -> SUBSET Leads] :
               /\ f[0] = RootsAndDepths
               /\ \A n \in 1..Rounds : f[n] = Grow(f[n - 1])
               /\ Wanted = f[Rounds]
  BY WantedByRounds
<1>2. IsFiniteSet(Leads) /\ Cardinality(Leads) = Rounds /\ Rounds \in Nat
  BY LeadsFinite
<1> DEFINE G == [W \in SUBSET Leads |-> Grow(W)]
<1>3. /\ G \in [SUBSET Leads -> SUBSET Leads]
      /\ \A W \in SUBSET Leads : W \subseteq G[W] /\ G[W] = Grow(W)
  BY GrowFacts
<1>4. \A n \in 1..Rounds : n - 1 \in 0..Rounds /\ f[n] = G[f[n - 1]]
  <2> HIDE DEF G
  <2> QED
    BY <1>1, <1>2, <1>3
<1> HIDE DEF G
<1>5. G[f[Rounds]] = f[Rounds]
  <2> PICK U : U = Leads
    OBVIOUS
  <2> PICK m \in Nat : m = Rounds
    BY <1>2
  <2>1. /\ IsFiniteSet(U) /\ m >= Cardinality(U) /\ Grows(G, U) /\ IsGrowth(f, U, m, G)
    BY <1>2, <1>3, <1>4 DEF Grows, IsGrowth
  <2>2. G[f[m]] = f[m]
    BY <2>1, GrowthEnds
  <2> QED
    BY <2>2
<1>6. Wanted \in SUBSET Leads /\ Grow(Wanted) = Wanted
  <2>1. Rounds \in 0..Rounds
    BY <1>2
  <2> QED
    BY <1>1, <1>3, <1>5, <2>1
<1>7. Closed(Wanted)
  <2> SUFFICES ASSUME NEW w \in Wanted
               PROVE  /\ \A u \in ToSet(prog.users[w[1]]) : <<u, UserDepth(w[2], u)>> \in Wanted
                      /\ w[2] > 0 => \A u \in ToSet(prog.ops[w[1]]) : <<u, w[2] - 1>> \in Wanted
    BY DEF Closed
  <2>1. \A x : x \in Wanted <=> x \in Grow(Wanted)
    BY <1>6
  <2>2. ASSUME NEW u \in ToSet(prog.users[w[1]])
        PROVE  <<u, UserDepth(w[2], u)>> \in Grow(Wanted)
    BY GrowMember
  <2>3. ASSUME w[2] > 0, NEW u \in ToSet(prog.ops[w[1]])
        PROVE  <<u, w[2] - 1>> \in Grow(Wanted)
    BY <2>3, GrowMember
  <2> QED
    BY <2>1, <2>2, <2>3
<1>8. Wanted \in SUBSET (Value \X Nat)
  <2>1. 0..Deepest \subseteq Nat
    BY DeepestBounds
  <2> QED
    BY <1>6, <2>1 DEF Leads
<1> DEFINE S == {n \in 0..Rounds : RootsAndDepths \subseteq f[n]}
<1>9. 0 \in S
  BY <1>1, <1>2
<1>10. ASSUME NEW n \in 0..Rounds, n < Rounds, n \in S PROVE n + 1 \in S
  <2>1. n + 1 \in 1..Rounds /\ n + 1 \in 0..Rounds /\ (n + 1) - 1 = n
    BY <1>2, <1>10
  <2>2. f[n + 1] = Grow(f[n]) /\ f[n] \in SUBSET Leads
    BY <1>1, <2>1
  <2>3. f[n] \subseteq Grow(f[n])
    BY <2>2, GrowFacts
  <2> QED
    BY <1>10, <2>1, <2>2, <2>3
<1>11. Rounds \in S
  <2>1. \A n \in 0..Rounds : n < Rounds /\ n \in S => n + 1 \in S
    BY <1>10
  <2> HIDE DEF S
  <2>2. 0..Rounds \subseteq S
    BY <1>2, <1>9, <2>1, InductionUpTo
  <2> QED
    BY <1>2, <2>2
<1> QED
  BY <1>1, <1>7, <1>8, <1>11

(***************************************************************************)
(* Nothing that the annotations do not ask for is queued, in no order of   *)
(* the use lists, and the queue is in the order of use.                    *)
(***************************************************************************)
THEOREM QueueHoldsWanted == Spec => []QueueExact
<1>1. Init => NothingMoreQueued
  BY WantedInit
<1>2. QueueTyped /\ NothingMoreQueued /\ [Next]_vars => NothingMoreQueued'
  BY WantedStep
<1>3. QueueTyped /\ NothingMoreQueued => NothingElseQueued
  <2> SUFFICES ASSUME QueueTyped, NothingMoreQueued, NEW v \in ToSet(queue)
               PROVE  \E w \in Wanted : w[1] = v /\ info[v].depth <= w[2]
    BY DEF NothingElseQueued
  <2>1. Wanted \in SUBSET (Value \X Nat) /\ RootsAndDepths \subseteq Wanted /\ Closed(Wanted)
    BY WantedClosed DEF QueueTyped
  <2>2. InWanted(State, Wanted)
    BY <2>1 DEF NothingMoreQueued
  <2>3. PICK d \in Nat : <<v, d>> \in Wanted /\ info[v].depth <= d
    BY <2>2 DEF InWanted, State
  <2>4. <<v, d>>[1] = v /\ <<v, d>>[2] = d
    OBVIOUS
  <2> QED
    BY <2>3, <2>4
<1>4. UsersBehind /\ NothingElseQueued => QueueExact
  BY DEF QueueExact
<1> QED
  BY QueueWellFormed, QueueInOrder, <1>1, <1>2, <1>3, <1>4, PTL DEF Spec

\* Where no address is computed, metadata is copied exactly with the distance;
\* the conversion flag is handed on, and it is kept by what does not get closer
\* to a root.
LEMMA FlagCreated ==
    ASSUME NEW used, NEW user, NEW vi \in InfoT, NEW ui \in InfoT, prog.gep = {}
    PROVE  LET new == CreateInfoOfUser(used, vi, user, ui)
           IN  /\ vi.enabled => new.enabled
               /\ ui.enabled /\ new.dist = ui.dist => new.enabled
               /\ new.from = IF ui.dist > Plus1(vi.dist) THEN vi.from ELSE ui.from
<1> DEFINE closer == ui.dist > Plus1(vi.dist)
           copied == IF ~closer THEN ui
                     ELSE [ui EXCEPT
                       !.dist    = Plus1(vi.dist),
                       !.from    = IF CopyOk(used, user) THEN vi.from ELSE Default,
                       !.enabled = CopyOk(used, user) => vi.enabled]
           shared == [copied EXCEPT !.enabled = @ \/ vi.enabled]
           new == CreateInfoOfUser(used, vi, user, ui)
<1>1. ~IsPointerOf(used, user) /\ Plus1(vi.dist) \in Int /\ ui.dist \in Int
  BY QueueAssumption DEF IsPointerOf, Plus1, InfoT
<1>2. new = shared
  BY <1>1 DEF CreateInfoOfUser
<1>3. copied \in InfoT
  <2>1. Plus1(vi.dist) \in 0..Far /\ (CopyOk(used, user) => vi.enabled) \in BOOLEAN
    BY QueueAssumption DEF Plus1, InfoT
  <2>2. CASE closer
    BY <2>1, <2>2, QueueAssumption DEF InfoT
  <2>3. CASE ~closer
    BY <2>3
  <2> QED
    BY <2>2, <2>3
<1>4. CASE closer
  <2>1. copied.dist = Plus1(vi.dist) /\ copied.from = vi.from
    <3>1. CopyOk(used, user)
      BY DEF CopyOk
    <3> QED
      BY <1>4, <3>1 DEF InfoT
  <2> HIDE DEF copied
  <2>2. /\ shared.dist = Plus1(vi.dist) /\ (vi.enabled => shared.enabled)
        /\ shared.from = vi.from
    BY <1>3, <2>1 DEF InfoT
  <2>3. shared.dist # ui.dist
    BY <1>1, <1>4, <2>2
  <2> HIDE DEF shared, new
  <2> QED
    BY <1>2, <1>4, <2>2, <2>3 DEF new
<1>5. CASE ~closer
  <2>1. copied = ui
    BY <1>5
  <2> HIDE DEF copied
  <2>2. /\ ui.enabled => shared.enabled
        /\ vi.enabled => shared.enabled
        /\ shared.from = ui.from
    BY <1>3, <2>1 DEF InfoT
  <2> HIDE DEF shared, new
  <2> QED
    BY <1>2, <1>5, <2>2 DEF new
<1> QED
  BY <1>4, <1>5

(***************************************************************************)
(* Without phi nodes and backtracking.  M are the users of v that the loop *)
(* has been on.                                                            *)
(***************************************************************************)
TakesFrom(s, v, u) ==
    \/ s.info[u].dist = info[v].dist + 1 /\ s.info[u].from = info[v].from
    \/ /\ u \in ToSet(queue)
       /\ s.info[u].dist = info[u].dist /\ s.info[u].from = info[u].from

Given(s, v, u) ==
    /\ s.info[u].depth = 0
    /\ s.info[u].dist <= info[v].dist + 1
    /\ s.info[u].dist = info[v].dist + 1 \/ (u \in ToSet(queue) /\ s.info[u].dist = info[u].dist)
    /\ u \in ToSet(queue) => s.info[u].dist <= info[u].dist
    /\ prog.gep = {} => /\ info[v].enabled => s.info[u].enabled
                        /\ u \in ToSet(queue) /\ info[u].enabled /\ s.info[u].dist = info[u].dist
                             => s.info[u].enabled
                        /\ TakesFrom(s, v, u)

Handed(s, v, M) ==
    /\ s \in StateT /\ ToSet(s.queue) = ToSet(queue) \cup M
    /\ \A x \in Value \ M : s.info[x] = info[x]
    /\ \A u \in M : Given(s, v, u)

\* One user is handed the distance and the flag of the value that is visited;
\* those handed theirs before keep them.
LEMMA UserHanded ==
    ASSUME QueueTyped, Ordinary, NEW v \in ToSet(queue),
           info[v].dist + 1 < Far, \A x \in ToSet(queue) : info[x].depth = 0,
           NEW M \in SUBSET Value, v \notin M, NEW s, Handed(s, v, M), NEW u \in Value, u # v
    PROVE  Handed(EnqueueUser(s, v, u), v, M \cup {u})
<1> DEFINE e == EnqueueUser(s, v, u)
           ui == DeepInfo(s, v, u)
           new == CreateInfoOfUser(v, s.info[v], u, ui)
<1>0. /\ s \in StateT /\ s.queue \in Queues /\ v \in Value /\ s.info \in [Value -> InfoT]
      /\ v \in ToSet(s.queue) /\ info \in [Value -> InfoT]
  <2>1. queue \in Queues /\ info \in [Value -> InfoT]
    BY DEF QueueTyped, StateT, State
  <2> QED
    BY <2>1, Positions DEF Handed, StateT
<1>1. u \notin LeftAlone(v)
  BY DEF Ordinary, LeftAlone
<1>2. /\ e \in StateT /\ ToSet(e.queue) = ToSet(s.queue) \cup {u}
      /\ e.info = [s.info EXCEPT ![u] = new]
  BY <1>0, <1>1, UserEnqueued
<1>3. /\ InfoOf(s, u) \in InfoT /\ UserDepth(s.info[v].depth, u) \in Nat
      /\ ui \in InfoT /\ ui.dist = InfoOf(s, u).dist /\ ui.enabled = InfoOf(s, u).enabled
      /\ ui.from = InfoOf(s, u).from
      /\ ui.depth = MaxOf(InfoOf(s, u).depth, UserDepth(s.info[v].depth, u))
  BY <1>0, DepthsTyped
<1>4. s.info[v] = info[v] /\ s.info[v] \in InfoT /\ s.info[u] \in InfoT /\ info[u] \in InfoT
  BY <1>0 DEF Handed
<1> HIDE DEF ui
<1>5. /\ new \in InfoT /\ new.depth = ui.depth
      /\ new.dist = IF ui.dist > Plus1(s.info[v].dist) THEN Plus1(s.info[v].dist) ELSE ui.dist
  BY <1>3, <1>4, InfoCreated
<1>6. prog.gep = {} => /\ s.info[v].enabled => new.enabled
                       /\ ui.enabled /\ new.dist = ui.dist => new.enabled
                       /\ new.from = IF ui.dist > Plus1(s.info[v].dist) THEN s.info[v].from
                                     ELSE ui.from
  BY <1>3, <1>4, FlagCreated
<1> HIDE DEF new, e
<1>7. PICK dv \in Nat : dv = info[v].dist /\ dv + 1 < Far /\ Plus1(info[v].dist) = dv + 1
  <2>1. info[v].dist \in Nat /\ Far \in Nat /\ info[v].dist # Far
    BY <1>4, QueueAssumption DEF InfoT
  <2> QED
    BY <2>1 DEF Plus1
<1>8. UserDepth(s.info[v].depth, u) = 0
  BY <1>4 DEF UserDepth, Less1, Ordinary
<1>9. PICK d \in Nat : d = new.dist /\ d = (IF ui.dist > dv + 1 THEN dv + 1 ELSE ui.dist)
  BY <1>4, <1>5, <1>7, QueueAssumption DEF InfoT
<1>10. e.info[u] = new
  BY <1>0, <1>2
\* Metadata is that of v with its distance, or what u had.
<1>15. ASSUME prog.gep = {}
       PROVE  \/ new.dist = info[v].dist + 1 /\ new.from = info[v].from
              \/ new.dist = ui.dist /\ new.from = ui.from
  BY <1>4, <1>5, <1>6, <1>7, <1>15
<1>11. Given(e, v, u)
  <2>1. CASE u \in ToSet(s.queue)
    <3>1. PICK du \in Nat : du = s.info[u].dist /\ ui.dist = du /\ ui.enabled = s.info[u].enabled
      BY <1>3, <1>4, <2>1, QueueAssumption DEF InfoT, InfoOf, InQueue
    <3>2. d = IF du > dv + 1 THEN dv + 1 ELSE du
      BY <1>9, <3>1
    <3>3. CASE u \in M
      <4>1. Given(s, v, u)
        BY <3>3 DEF Handed
      <4>2. d = du /\ new.dist = s.info[u].dist
        BY <1>7, <1>9, <3>1, <3>2, <4>1 DEF Given
      <4>3. new.depth = 0
        BY <1>3, <1>5, <1>8, <2>1, <4>1 DEF Given, MaxOf, InfoOf, InQueue
      <4>4. prog.gep = {} /\ s.info[u].enabled => new.enabled
        BY <1>6, <3>1, <4>2
      <4>5. prog.gep = {} /\ info[v].enabled => new.enabled
        BY <1>4, <1>6
      <4>6. ASSUME prog.gep = {} PROVE TakesFrom(e, v, u)
        <5>1. ui.from = s.info[u].from /\ ui.dist = s.info[u].dist
          BY <1>3, <2>1, <3>1 DEF InfoOf, InQueue
        <5>2. TakesFrom(s, v, u)
          BY <4>1, <4>6 DEF Given
        <5> QED
          BY <1>10, <1>15, <4>6, <5>1, <5>2 DEF TakesFrom
      <4> QED
        BY <1>10, <4>1, <4>2, <4>3, <4>4, <4>5, <4>6 DEF Given
    <3>4. CASE u \notin M
      <4>1. u \in ToSet(queue) /\ s.info[u] = info[u]
        BY <2>1, <3>4 DEF Handed
      <4>2. new.depth = 0
        BY <1>3, <1>5, <1>8, <2>1, <4>1 DEF MaxOf, InfoOf, InQueue
      <4>3. prog.gep = {} => /\ info[v].enabled => new.enabled
                             /\ info[u].enabled /\ new.dist = info[u].dist => new.enabled
        BY <1>4, <1>6, <3>1, <4>1
      <4>4. new.dist <= info[v].dist + 1 /\ new.dist <= info[u].dist
            /\ (new.dist = info[v].dist + 1 \/ new.dist = info[u].dist)
        BY <1>7, <1>9, <3>1, <3>2, <4>1
      <4>5. ASSUME prog.gep = {} PROVE TakesFrom(e, v, u)
        <5>1. ui.from = info[u].from /\ ui.dist = info[u].dist
          BY <1>3, <2>1, <3>1, <4>1 DEF InfoOf, InQueue
        <5> QED
          BY <1>10, <1>15, <4>1, <4>5, <5>1 DEF TakesFrom
      <4> QED
        BY <1>10, <4>1, <4>2, <4>3, <4>4, <4>5 DEF Given
    <3> QED
      BY <3>3, <3>4
  <2>2. CASE u \notin ToSet(s.queue)
    <3>1. InfoOf(s, u) = NewInfo(0)
      BY <2>2 DEF InfoOf, InQueue
    <3>2. ui.dist = Far /\ ui.depth = 0
      BY <1>3, <1>8, <3>1, NewInfoTyped DEF MaxOf
    <3>3. new.dist = info[v].dist + 1 /\ new.depth = 0 /\ new.dist <= info[v].dist + 1
      BY <1>5, <1>7, <1>9, <3>2, QueueAssumption
    <3>4. u \notin ToSet(queue)
      BY <2>2 DEF Handed
    <3>5. prog.gep = {} /\ info[v].enabled => new.enabled
      BY <1>4, <1>6
    <3>6. prog.gep = {} => TakesFrom(e, v, u)
      <4>1. ui.dist > Plus1(s.info[v].dist)
        BY <1>4, <1>7, <3>2, QueueAssumption
      <4> QED
        BY <1>4, <1>6, <1>10, <3>3, <4>1 DEF TakesFrom
    <3> QED
      BY <1>10, <3>3, <3>4, <3>5, <3>6 DEF Given
  <2> QED
    BY <2>1, <2>2
<1>12. ASSUME NEW x \in M \cup {u} PROVE Given(e, v, x)
  <2>1. CASE x = u
    BY <1>11, <2>1
  <2>2. CASE x # u
    <3>1. e.info[x] = s.info[x] /\ Given(s, v, x)
      BY <1>0, <1>2, <2>2 DEF Handed
    <3> QED
      BY <3>1 DEF Given, TakesFrom
  <2> QED
    BY <2>1, <2>2
<1>13. ASSUME NEW x \in Value \ (M \cup {u}) PROVE e.info[x] = info[x]
  BY <1>0, <1>2 DEF Handed
<1>14. ToSet(e.queue) = ToSet(queue) \cup (M \cup {u})
  BY <1>2 DEF Handed
<1> QED
  BY <1>2, <1>12, <1>13, <1>14 DEF Handed, e

\* The loop over the users hands them to every user.
LEMMA UsersHanded ==
    ASSUME QueueTyped, Ordinary, NEW v \in ToSet(queue),
           info[v].dist + 1 < Far, \A x \in ToSet(queue) : info[x].depth = 0
    PROVE  Handed(EnqueueUsers(v), v, ToSet(prog.users[v]))
<1>1. queue \in Queues /\ ToSet(queue) \subseteq Value
  BY Positions DEF QueueTyped, StateT, State
<1>2. prog.users[v] \in Seq(Value) /\ v \notin ToSet(prog.users[v])
  BY <1>1, ProgramAssumption DEF QueueTyped
<1> DEFINE M(i, us) == {us[j] : j \in 1..i}
<1>3. PICK us \in Seq(Value) : us = prog.users[v]
  BY <1>2
<1>4. /\ Len(us) \in Nat /\ ToSet(us) = {us[j] : j \in 1..Len(us)}
      /\ \A i \in 1..Len(us) : us[i] \in Value /\ us[i] # v
  <2>1. ToSet(us) = {us[j] : j \in 1..Len(us)}
    BY DEF ToSet
  <2> QED
    BY <1>2, <1>3, <2>1
<1> DEFINE A == {s \in StateT : v \in ToSet(s.queue)}
           T == [i \in 0..Len(us) |-> {s \in A : Handed(s, v, M(i, us))}]
<1>5. State \in A
  BY DEF QueueTyped, State
<1>6. ASSUME NEW s \in A, NEW i \in 1..Len(us)
      PROVE  EnqueueUser(s, v, us[i]) \in A
  <2>1. us[i] \notin LeftAlone(v)
    BY DEF LeftAlone, Ordinary
  <2> DEFINE e == EnqueueUser(s, v, us[i])
  <2>2. e \in StateT /\ ToSet(e.queue) = ToSet(s.queue) \cup {us[i]}
    BY ZenonT(40), <1>4, <2>1, UserEnqueued
  <2> HIDE DEF e
  <2>3. e \in A
    BY <2>2
  <2> QED
    BY <2>3 DEF e
<1>7. T \in [0..Len(us) -> SUBSET A]
  OBVIOUS
<1>8. State \in T[0]
  <2>1. M(0, us) = {}
    OBVIOUS
  <2>2. Handed(State, v, {})
    BY DEF Handed, QueueTyped, State
  <2>3. T[0] = {s \in A : Handed(s, v, M(0, us))}
    BY <1>4
  <2> HIDE DEF T, A, M
  <2> QED
    BY <1>5, <2>1, <2>2, <2>3
<1>9. ASSUME NEW i \in 1..Len(us), NEW s \in T[i - 1]
      PROVE  EnqueueUser(s, v, us[i]) \in T[i]
  <2>1. i - 1 \in 0..Len(us) /\ i \in 0..Len(us)
    BY <1>4
  <2>2. s \in A /\ Handed(s, v, M(i - 1, us))
    BY <2>1
  <2>3. M(i, us) = M(i - 1, us) \cup {us[i]}
    <3>1. 1..i = (1..(i-1)) \cup {i}
      BY <1>4
    <3> QED
      BY <3>1
  <2>4. us[i] \in Value /\ us[i] # v
    BY <1>4
  <2>5. M(i - 1, us) \in SUBSET Value /\ v \notin M(i - 1, us)
    BY <1>4
  <2> HIDE DEF M, A
  <2>6. Handed(EnqueueUser(s, v, us[i]), v, M(i, us))
    <3>1. Handed(EnqueueUser(s, v, us[i]), v, M(i - 1, us) \cup {us[i]})
      BY <2>2, <2>4, <2>5, UserHanded
    <3> QED
      BY <2>3, <3>1
  <2> QED
    BY <1>6, <2>1, <2>2, <2>6
<1>10. EnqueueUsers(v) \in T[Len(us)]
  <2> HIDE DEF A, T
  <2>1. \A i \in 1..Len(us) : \A s \in T[i - 1] : EnqueueUser(s, v, us[i]) \in T[i]
    BY <1>9
  <2> QED
    BY <1>3, <1>5, <1>6, <1>7, <1>8, <2>1, UsersFold
<1>11. Handed(EnqueueUsers(v), v, M(Len(us), us))
  BY <1>4, <1>10
<1> QED
  BY <1>3, <1>4, <1>11

\* A queue is as long as its values are many.
LEMMA QueueSize ==
    ASSUME NEW q \in Queues
    PROVE  IsFiniteSet(ToSet(q)) /\ Cardinality(ToSet(q)) = Len(q) /\ Len(q) \in Nat
<1>1. q \in Seq(Value) /\ Len(q) \in Nat /\ ToSet(q) = {q[i] : i \in 1..Len(q)}
      /\ \A i \in 1..Len(q) : q[i] \in ToSet(q) /\ PosOf(q, q[i]) = i
  BY Positions
<1> DEFINE S == ToSet(q)
           f == [i \in 1..Len(q) |-> q[i]]
<1>2. f \in Bijection(1..Len(q), S)
  <2>1. f \in [1..Len(q) -> S] /\ \A i, j \in 1..Len(q) : f[i] = f[j] => i = j
    BY <1>1
  <2>2. \A t \in S : \E i \in 1..Len(q) : f[i] = t
    BY <1>1
  <2> HIDE DEF f, S
  <2> QED
    BY <2>1, <2>2, Fun_IsBij
<1>3. ExistsBijection(1..Len(q), S)
  BY <1>2, Zenon DEF ExistsBijection
<1>4. IsFiniteSet(1..Len(q)) /\ Cardinality(1..Len(q)) = Len(q)
  <2> PICK n \in Nat : n = Len(q)
    BY <1>1
  <2>1. IsFiniteSet(1..n) /\ Cardinality(1..n) = n
    BY NumbersUpTo
  <2> QED
    BY <2>1
<1> HIDE DEF S
<1>5. IsFiniteSet(S) /\ Cardinality(S) = Len(q)
  BY <1>3, <1>4, FS_Bijection
<1> QED
  BY <1>1, <1>5 DEF S

\* A queue that holds what another holds is at least as long, and longer when it
\* holds more.
LEMMA LargerQueue ==
    ASSUME NEW q \in Queues, NEW r \in Queues, ToSet(q) \subseteq ToSet(r)
    PROVE  /\ Len(q) \in Nat /\ Len(r) \in Nat /\ Len(q) <= Len(r)
           /\ Len(q) = Len(r) => ToSet(q) = ToSet(r)
           /\ ToSet(q) # ToSet(r) => Len(q) + 1 <= Len(r)
<1>1. /\ Cardinality(ToSet(q)) = Len(q) /\ Len(q) \in Nat
      /\ Cardinality(ToSet(r)) = Len(r) /\ Len(r) \in Nat /\ IsFiniteSet(ToSet(r))
  BY QueueSize
<1>2. ToSet(q) \in SUBSET ToSet(r)
  OBVIOUS
<1>3. Cardinality(ToSet(q)) <= Cardinality(ToSet(r))
      /\ (Cardinality(ToSet(r)) = Cardinality(ToSet(q)) => ToSet(r) = ToSet(q))
  BY <1>1, <1>2, FS_Subset
<1> QED
  BY <1>1, <1>3

(***************************************************************************)
(* What a round leaves: distances that no use shortens, flags that every   *)
(* user has.  A value is passed once its users have been enqueued.         *)
(***************************************************************************)
Passed(x) ==
    \/ pass = "backward"
    \/ pass = "done" /\ prevSize > 0
    \/ pass = "forward" /\ (next = EndIt \/ PosOf(queue, x) < PosOf(queue, next))

Relaxed(x) ==
    \A u \in ToSet(prog.users[x]) : u \in ToSet(queue) /\ info[u].dist <= info[x].dist + 1

Inherits(x) ==
    \A u \in ToSet(prog.users[x]) : u \in ToSet(queue) /\ (info[x].enabled => info[u].enabled)

Settled ==
    \A x \in ToSet(queue) : \A u \in ToSet(prog.users[x]) \cap ToSet(queue) :
        info[u].dist <= info[x].dist + 1

\* The values that n uses lead to from those of R, for every n.
Levels(R, W) ==
    /\ W[0] = R
    /\ \A n \in Nat : \A x \in Value :
          x \in W[n + 1] <=> x \in W[n] \/ \E y \in W[n] : x \in ToSet(prog.users[y])

Shallow ==
    /\ \A x \in ToSet(queue) : info[x].depth = 0 /\ info[x].dist < Len(queue)
    /\ \A r \in Root : r \in ToSet(queue) /\ info[r].dist = 0

OnLevels ==
    \A W \in [Nat -> SUBSET Value] :
        Levels(Root, W) => \A x \in ToSet(queue) : x \in W[info[x].dist]

\* Where no address is computed, a value is as far from the root whose metadata
\* it has as its distance says.
OnOwnLevels ==
    prog.gep = {} => \A x \in ToSet(queue) :
        /\ info[x].from \in Root
        /\ \A W \in [Nat -> SUBSET Value] :
              Levels({info[x].from}, W) => x \in W[info[x].dist]

RelaxedOnce ==
    /\ \A x \in ToSet(queue) : Passed(x) => Relaxed(x)
    /\ pass = "done" \/ prevSize = Len(queue) => Settled

InheritedOnce ==
    prog.gep = {} /\ prevSize = Len(queue) =>
        \A x \in ToSet(queue) : Passed(x) => Inherits(x)

Inheriting ==
    Ordinary => Shallow /\ OnLevels /\ OnOwnLevels /\ RelaxedOnce /\ InheritedOnce

\* At first only the roots are queued, at distance 0.
LEMMA InheritingInit == Init => Inheriting
<1> SUFFICES ASSUME Init, Ordinary
             PROVE  Shallow /\ OnLevels /\ OnOwnLevels /\ RelaxedOnce /\ InheritedOnce
  BY DEF Inheriting
<1>1. prog \in Programs /\ ToSet(queue) = Root /\ QueueTyped
  BY ProgramAssumption, QueueTypedInit DEF Init
<1>2. queue \in Queues /\ Len(queue) \in Nat /\ ToSet(queue) = {queue[i] : i \in 1..Len(queue)}
  BY <1>1, Positions DEF QueueTyped, State, StateT
<1>3. \A r \in Root : info[r].depth = 0 /\ info[r].dist = 0 /\ info[r].from = r
  BY QueueAssumption DEF Init, RootInfo, Ordinary
<1>4. Shallow
  BY <1>1, <1>2, <1>3 DEF Shallow
<1>5. OnLevels
  BY <1>1, <1>3 DEF OnLevels, Levels
<1>6. RelaxedOnce /\ InheritedOnce
  BY <1>1, <1>3 DEF Init, RelaxedOnce, InheritedOnce, Passed, Settled
<1>7. OnOwnLevels
  BY <1>1, <1>3 DEF OnOwnLevels, Levels
<1> QED
  BY <1>4, <1>5, <1>6, <1>7

\* What a step that leaves queue and infos alone needs to keep.
LEMMA LeftAsIs ==
    ASSUME UNCHANGED <<prog, queue, info, prevSize>>, Ordinary, Shallow, OnLevels, OnOwnLevels
    PROVE  Shallow' /\ OnLevels' /\ OnOwnLevels' /\ Settled' = Settled
           /\ \A x : Relaxed(x)' = Relaxed(x) /\ Inherits(x)' = Inherits(x)
<1>1. Shallow'
  BY DEF Shallow
<1>2. (\A W : Levels(Root, W)' = Levels(Root, W)) /\ \A r, W : Levels({r}, W)' = Levels({r}, W)
  BY DEF Levels
<1>3. OnLevels' /\ OnOwnLevels'
  BY <1>2 DEF OnLevels, OnOwnLevels
<1>4. Settled' = Settled /\ \A x : Relaxed(x)' = Relaxed(x) /\ Inherits(x)' = Inherits(x)
  BY DEF Settled, Relaxed, Inherits
<1> QED
  BY <1>1, <1>3, <1>4

\* A value other than the one visited that has been passed after the visit had
\* been passed before it, and is no user of it.
LEMMA PassedBehind ==
    ASSUME QueueTyped, Ordinary, VisitUsers, NEW x \in ToSet(queue'), Passed(x)',
           x # next
    PROVE  x \in ToSet(queue) /\ x \notin ToSet(prog.users[next]) /\ Passed(x)
<1> DEFINE s == EnqueueUsers(next)
           M == ToSet(prog.users[next])
<1>1. /\ pass = "forward" /\ next # EndIt /\ next \in ToSet(queue)
      /\ queue' = s.queue /\ next' = After(s.queue, next) /\ UNCHANGED <<prog, pass>>
  BY PassSteps
<1>2. Moved(s, M)
  <2>1. MovedBy(next) = M
    BY DEF MovedBy, LeftAlone, Ordinary
  <2> QED
    BY <1>1, <2>1, UsersMoved
<1>3. s \in StateT /\ s.queue \in Queues /\ ToSet(s.queue) = ToSet(queue) \cup M /\ next \in ToSet(s.queue)
  BY <1>1, <1>2 DEF Moved, StateT
<1>4. /\ After(s.queue, next) = EndIt => PosOf(s.queue, next) = Len(s.queue)
      /\ After(s.queue, next) # EndIt => PosOf(s.queue, After(s.queue, next)) = PosOf(s.queue, next) + 1
  BY <1>3, AfterFacts
<1>5. /\ Len(s.queue) \in Nat
      /\ \A y \in ToSet(s.queue) : PosOf(s.queue, y) \in 1..Len(s.queue) /\ s.queue[PosOf(s.queue, y)] = y
  BY <1>3, Positions
<1>6. next \notin M
  <2>1. next \in Value
    BY <1>1, Positions DEF QueueTyped, State, StateT
  <2> QED
    BY <2>1, ProgramAssumption DEF QueueTyped
<1> HIDE DEF s, M
<1>7. PosOf(s.queue, x) < PosOf(s.queue, next)
  <2>1. After(s.queue, next) = EndIt \/ PosOf(s.queue, x) < PosOf(s.queue, After(s.queue, next))
    BY <1>1 DEF Passed
  <2>2. PosOf(s.queue, x) <= PosOf(s.queue, next)
    BY <1>1, <1>3, <1>4, <1>5, <2>1
  <2> QED
    BY <1>1, <1>3, <1>5, <2>2
<1>8. x \notin M
  <2>1. x \in M => PosOf(s.queue, next) < PosOf(s.queue, x)
    BY <1>1, <1>2, <1>6 DEF Moved
  <2> QED
    BY <1>1, <1>3, <1>5, <1>7, <2>1
<1>9. x \in ToSet(queue) /\ PosOf(queue, x) < PosOf(queue, next)
  BY <1>1, <1>2, <1>3, <1>6, <1>7, <1>8 DEF Moved
<1> QED
  BY <1>1, <1>8, <1>9 DEF Passed, M

\* A visit of the users keeps the distances those of the levels.
LEMMA InheritingUsers ==
    ASSUME QueueTyped, Ordinary, Shallow, OnLevels, OnOwnLevels, RelaxedOnce, InheritedOnce,
           VisitUsers
    PROVE  Shallow' /\ OnLevels' /\ OnOwnLevels' /\ RelaxedOnce' /\ InheritedOnce'
<1> DEFINE s == EnqueueUsers(next)
           v == next
           M == ToSet(prog.users[next])
<1>1. /\ pass = "forward" /\ v # EndIt /\ v \in ToSet(queue)
      /\ queue' = s.queue /\ info' = s.info /\ UNCHANGED <<prog, pass, prevSize>>
  BY PassSteps
<1>2. queue \in Queues /\ info \in [Value -> InfoT] /\ ToSet(queue) \subseteq Value /\ Len(queue) \in Nat
      /\ prevSize \in 0..Len(queue) /\ prog \in Programs
  BY Positions DEF QueueTyped, State, StateT
<1>3. info[v].dist \in Nat /\ info[v].dist + 1 < Far /\ info[v].dist < Len(queue)
  <2>1. info[v] \in InfoT /\ info[v].dist < Len(queue)
    BY <1>1, <1>2 DEF Shallow
  <2>2. info[v].dist \in Nat
    BY <2>1, QueueAssumption DEF InfoT
  <2>3. Len(queue) <= Cardinality(Value) /\ Cardinality(Value) \in Nat
    BY <1>2, QueueFits
  <2> QED
    BY <1>2, <2>1, <2>2, <2>3, QueueAssumption
<1>4. Handed(s, v, M)
  BY <1>1, <1>3, UsersHanded DEF Shallow
<1>5. /\ s \in StateT /\ s.queue \in Queues /\ ToSet(s.queue) = ToSet(queue) \cup M
      /\ s.info \in [Value -> InfoT] /\ ToSet(s.queue) \subseteq Value
  <2>1. s \in StateT /\ ToSet(s.queue) = ToSet(queue) \cup M
    BY <1>4 DEF Handed
  <2>2. s.queue \in Queues
    BY <2>1 DEF StateT
  <2> QED
    BY <2>1, <2>2, Positions DEF StateT
<1>6. /\ Len(s.queue) \in Nat /\ Len(queue) <= Len(s.queue)
      /\ Len(queue) = Len(s.queue) => ToSet(queue) = ToSet(s.queue)
      /\ ToSet(queue) # ToSet(s.queue) => Len(queue) + 1 <= Len(s.queue)
  BY <1>2, <1>5, LargerQueue
<1>7. v \notin M
  BY <1>1, <1>2, ProgramAssumption
<1> HIDE DEF s, M
<1>8. ASSUME NEW x \in Value
      PROVE  /\ info[x].dist \in Nat /\ s.info[x].dist \in Nat
             /\ x \notin M => s.info[x] = info[x]
             /\ x \in M => Given(s, v, x)
             /\ x \in ToSet(queue) => s.info[x].dist <= info[x].dist
  <2>1. info[x].dist \in Nat /\ s.info[x].dist \in Nat
    <3>1. info[x] \in InfoT /\ s.info[x] \in InfoT
      BY <1>2, <1>5
    <3> QED
      BY <3>1, QueueAssumption DEF InfoT
  <2> QED
    BY <1>4, <2>1 DEF Handed, Given
<1>9. Shallow'
  <2>1. ASSUME NEW x \in ToSet(s.queue)
        PROVE  s.info[x].depth = 0 /\ s.info[x].dist < Len(s.queue)
    <3>0. x \in Value
      BY <1>5
    <3>1. CASE x \in ToSet(queue)
      <4>1. s.info[x].depth = 0
        BY <1>8, <3>0, <3>1 DEF Shallow, Given
      <4>2. s.info[x].dist <= info[x].dist /\ info[x].dist < Len(queue)
        BY <1>8, <3>0, <3>1 DEF Shallow
      <4> QED
        BY <1>2, <1>6, <1>8, <3>0, <4>1, <4>2
    <3>2. CASE x \notin ToSet(queue)
      <4>1. x \in M /\ Len(queue) + 1 <= Len(s.queue)
        BY <1>5, <1>6, <3>2
      <4>2. s.info[x].depth = 0 /\ s.info[x].dist = info[v].dist + 1
        BY <1>8, <3>0, <3>2, <4>1 DEF Given
      <4> QED
        BY <1>2, <1>3, <1>6, <4>1, <4>2
    <3> QED
      BY <3>1, <3>2
  <2>2. ASSUME NEW r \in Root PROVE r \in ToSet(s.queue) /\ s.info[r].dist = 0
    <3>1. r \in ToSet(queue) /\ info[r].dist = 0 /\ r \in Value
      BY QueueAssumption DEF Shallow
    <3> QED
      BY <1>5, <1>8, <3>1
  <2> QED
    BY <1>1, <2>1, <2>2 DEF Shallow
<1>10. OnLevels'
  <2> SUFFICES ASSUME NEW W \in [Nat -> SUBSET Value], Levels(Root, W)', NEW x \in ToSet(s.queue)
               PROVE  x \in W[s.info[x].dist]
    BY <1>1 DEF OnLevels
  <2>1. Levels(Root, W)
    BY <1>1 DEF Levels
  <2>2. \A y \in ToSet(queue) : y \in W[info[y].dist]
    BY <2>1 DEF OnLevels
  <2>3. x \in Value
    BY <1>5
  <2>4. CASE x \in ToSet(queue) /\ s.info[x].dist = info[x].dist
    BY <2>2, <2>4
  <2>5. CASE ~(x \in ToSet(queue) /\ s.info[x].dist = info[x].dist)
    <3>1. x \in M
      BY <1>5, <1>8, <2>3, <2>5
    <3>2. s.info[x].dist = info[v].dist + 1
      BY <1>8, <2>3, <2>5, <3>1 DEF Given
    <3>3. v \in W[info[v].dist]
      BY <1>1, <2>2
    <3>4. x \in W[info[v].dist + 1]
      BY <1>3, <2>1, <2>3, <3>1, <3>3 DEF Levels, M
    <3> QED
      BY <3>2, <3>4
  <2> QED
    BY <2>4, <2>5
<1>17. OnOwnLevels'
  <2> SUFFICES ASSUME prog.gep = {}, NEW x \in ToSet(s.queue)
               PROVE  /\ s.info[x].from \in Root
                      /\ \A W \in [Nat -> SUBSET Value] :
                            Levels({s.info[x].from}, W) => x \in W[s.info[x].dist]
    BY <1>1 DEF OnOwnLevels, Levels
  <2>1. x \in Value
    BY <1>5
  <2>3. CASE x \in ToSet(queue) /\ s.info[x].dist = info[x].dist /\ s.info[x].from = info[x].from
    BY <2>3 DEF OnOwnLevels
  <2>4. CASE ~(x \in ToSet(queue) /\ s.info[x].dist = info[x].dist /\ s.info[x].from = info[x].from)
    <3>1. x \in M
      BY <1>5, <1>8, <2>1, <2>4
    <3>2. s.info[x].dist = info[v].dist + 1 /\ s.info[x].from = info[v].from
      BY <1>8, <2>1, <2>4, <3>1 DEF Given, TakesFrom
    <3>3. /\ info[v].from \in Root
          /\ \A W \in [Nat -> SUBSET Value] : Levels({info[v].from}, W) => v \in W[info[v].dist]
      BY <1>1 DEF OnOwnLevels
    <3>4. ASSUME NEW W \in [Nat -> SUBSET Value], Levels({info[v].from}, W)
          PROVE  x \in W[info[v].dist + 1]
      BY <1>3, <2>1, <3>1, <3>3, <3>4 DEF Levels, M
    <3> QED
      BY <3>2, <3>3, <3>4
  <2> QED
    BY <2>3, <2>4
<1>11. ASSUME NEW x \in ToSet(s.queue), Passed(x)', x # v
       PROVE  x \in ToSet(queue) /\ x \notin M /\ Passed(x) /\ x \in Value /\ s.info[x] = info[x]
  <2>1. x \in ToSet(queue) /\ x \notin M /\ Passed(x)
    BY <1>1, <1>11, PassedBehind DEF M
  <2> QED
    BY <1>2, <1>8, <2>1
<1>12. ASSUME NEW x \in ToSet(s.queue), Passed(x)'
       PROVE  \A u \in ToSet(prog.users[x]) :
                  u \in ToSet(s.queue) /\ s.info[u].dist <= s.info[x].dist + 1
  <2> SUFFICES ASSUME NEW u \in ToSet(prog.users[x])
               PROVE  u \in ToSet(s.queue) /\ s.info[u].dist <= s.info[x].dist + 1
    OBVIOUS
  <2>1. CASE x = v
    <3>1. u \in M /\ u \in ToSet(s.queue) /\ u \in Value
      BY <1>5, <2>1 DEF M
    <3>2. s.info[v] = info[v]
      BY <1>1, <1>2, <1>7, <1>8
    <3> QED
      BY <1>8, <2>1, <3>1, <3>2 DEF Given
  <2>2. CASE x # v
    <3>1. x \in ToSet(queue) /\ Passed(x) /\ s.info[x] = info[x] /\ x \in Value
      BY <1>11, <1>12, <2>2
    <3>2. u \in ToSet(queue) /\ info[u].dist <= info[x].dist + 1
      BY <3>1 DEF RelaxedOnce, Relaxed
    <3>3. u \in Value /\ s.info[u].dist <= info[u].dist
      BY <1>2, <1>8, <3>2
    <3>4. info[u].dist \in Nat /\ s.info[u].dist \in Nat /\ info[x].dist \in Nat
      BY <1>8, <3>1, <3>3
    <3> QED
      BY <1>5, <3>1, <3>2, <3>3, <3>4
  <2> QED
    BY <2>1, <2>2
\* In a round that adds nothing no distance changes.
<1>13. ASSUME prevSize = Len(s.queue)
       PROVE  /\ prevSize = Len(queue) /\ ToSet(s.queue) = ToSet(queue) /\ Settled
              /\ \A x \in ToSet(queue) : s.info[x].dist = info[x].dist
  <2>1. prevSize = Len(queue) /\ ToSet(s.queue) = ToSet(queue)
    BY <1>2, <1>6, <1>13
  <2>2. Settled
    BY <2>1 DEF RelaxedOnce
  <2>3. ASSUME NEW x \in ToSet(queue) PROVE s.info[x].dist = info[x].dist
    <3>0. x \in Value
      BY <1>2
    <3>1. CASE x \in M
      <4>1. info[x].dist <= info[v].dist + 1
        BY <1>1, <2>2, <3>1 DEF Settled, M
      <4>2. s.info[x].dist = info[v].dist + 1 \/ s.info[x].dist = info[x].dist
        BY <1>8, <3>0, <3>1 DEF Given
      <4>3. s.info[x].dist <= info[x].dist
        BY <1>8, <3>0
      <4> QED
        BY <1>3, <1>8, <3>0, <4>1, <4>2, <4>3
    <3>2. CASE x \notin M
      BY <1>8, <3>0, <3>2
    <3> QED
      BY <3>1, <3>2
  <2> QED
    BY <2>1, <2>2, <2>3
<1>14. RelaxedOnce'
  <2>1. \A x \in ToSet(queue') : Passed(x)' => Relaxed(x)'
    BY <1>1, <1>12 DEF Relaxed
  <2>2. prevSize = Len(s.queue) =>
          \A x \in ToSet(s.queue) : \A u \in ToSet(prog.users[x]) \cap ToSet(s.queue) :
              s.info[u].dist <= s.info[x].dist + 1
    BY <1>13 DEF Settled
  <2>3. pass' # "done"
    BY <1>1
  <2> QED
    BY <1>1, <2>1, <2>2, <2>3 DEF RelaxedOnce, Settled
<1>15. ASSUME prog.gep = {}, prevSize = Len(s.queue), NEW x \in ToSet(s.queue), Passed(x)',
              NEW u \in ToSet(prog.users[x])
       PROVE  u \in ToSet(s.queue) /\ (s.info[x].enabled => s.info[u].enabled)
  <2>1. u \in ToSet(s.queue) /\ u \in Value /\ u \in ToSet(queue) /\ s.info[u].dist = info[u].dist
    BY <1>5, <1>12, <1>13, <1>15
  <2>2. info[u].enabled => s.info[u].enabled
    BY <1>8, <1>15, <2>1 DEF Given
  <2>3. CASE x = v
    <3>1. u \in M
      BY <2>3 DEF M
    <3>2. s.info[v] = info[v]
      BY <1>1, <1>2, <1>7, <1>8
    <3> QED
      BY <1>8, <1>15, <2>1, <2>3, <3>1, <3>2 DEF Given
  <2>4. CASE x # v
    <3>1. x \in ToSet(queue) /\ Passed(x) /\ s.info[x] = info[x]
      BY <1>11, <1>15, <2>4
    <3>2. info[x].enabled => info[u].enabled
      BY <1>13, <1>15, <3>1 DEF InheritedOnce, Inherits
    <3> QED
      BY <2>1, <2>2, <3>1, <3>2
  <2> QED
    BY <2>3, <2>4
<1>16. InheritedOnce'
  BY <1>1, <1>15 DEF InheritedOnce, Inherits
<1> QED
  BY <1>9, <1>10, <1>14, <1>16, <1>17

\* Every step keeps them.
LEMMA InheritingStep ==
    ASSUME QueueTyped, Inheriting, [Next]_vars
    PROVE  Inheriting'
<1>0. prog' = prog
  BY DEF Next, Step, vars, BeginRound, VisitUsers, BeginBacktracking, VisitOperands, EndRound
<1>1. Ordinary' => Ordinary
  BY <1>0 DEF Ordinary
<1> SUFFICES ASSUME Ordinary
             PROVE  Shallow' /\ OnLevels' /\ OnOwnLevels' /\ RelaxedOnce' /\ InheritedOnce'
  BY <1>1 DEF Inheriting
<1>2. Shallow /\ OnLevels /\ OnOwnLevels /\ RelaxedOnce /\ InheritedOnce
  BY DEF Inheriting
<1>3. CASE BeginRound
  <2>1. queue \in Queues /\ Len(queue) > 0
    BY <1>3 DEF BeginRound, QueueTyped, State, StateT
  <2>2. /\ queue \in Seq(Value) /\ Len(queue) \in Nat
        /\ \A i \in 1..Len(queue) : PosOf(queue, queue[i]) = i /\ queue[i] \in Value
        /\ \A x \in ToSet(queue) : PosOf(queue, x) \in 1..Len(queue)
    BY <2>1, Positions
  <2>3. Head(queue) = queue[1] /\ PosOf(queue, Head(queue)) = 1 /\ Head(queue) # EndIt
    BY <2>1, <2>2, QueueAssumption
  <2>4. \A x \in ToSet(queue) : ~Passed(x)'
    BY <1>3, <2>2, <2>3 DEF BeginRound, Passed
  <2>5. Shallow'
    BY <1>2, <1>3 DEF BeginRound, Shallow
  <2>6. OnLevels' /\ OnOwnLevels'
    <3>1. /\ \A W : Levels(Root, W)' = Levels(Root, W)
          /\ \A r, W : Levels({r}, W)' = Levels({r}, W)
      BY <1>0 DEF Levels
    <3> QED
      BY <1>2, <1>3, <3>1 DEF BeginRound, OnLevels, OnOwnLevels
  <2>7. RelaxedOnce'
    <3>1. Settled /\ queue' = queue /\ info' = info
      BY <1>2, <1>3 DEF BeginRound, RelaxedOnce
    <3>2. Settled'
      BY <1>0, <3>1 DEF Settled
    <3> QED
      BY <2>4, <3>1, <3>2 DEF RelaxedOnce
  <2>8. InheritedOnce'
    <3>1. queue' = queue
      BY <1>3 DEF BeginRound
    <3> QED
      BY <2>4, <3>1 DEF InheritedOnce
  <2> QED
    BY <2>5, <2>6, <2>7, <2>8
<1>4. CASE VisitUsers
  BY <1>2, <1>4, InheritingUsers
<1>5. ASSUME UNCHANGED <<prog, queue, info, prevSize>>,
             \A x \in ToSet(queue) : Passed(x)' => Passed(x),
             pass' = "done" /\ pass # "done" => \A x \in ToSet(queue) : Passed(x)
      PROVE  Shallow' /\ OnLevels' /\ OnOwnLevels' /\ RelaxedOnce' /\ InheritedOnce'
  <2>1. Shallow' /\ OnLevels' /\ OnOwnLevels' /\ Settled' = Settled
        /\ \A x : Relaxed(x)' = Relaxed(x) /\ Inherits(x)' = Inherits(x)
    BY <1>2, <1>5, LeftAsIs
  <2>2. (\A x \in ToSet(queue) : Relaxed(x)) => Settled
    BY DEF Relaxed, Settled
  <2>3. RelaxedOnce'
    BY <1>2, <1>5, <2>1, <2>2 DEF RelaxedOnce
  <2>4. InheritedOnce'
    BY <1>2, <1>5, <2>1 DEF InheritedOnce
  <2> QED
    BY <2>1, <2>3, <2>4
<1>6. CASE BeginBacktracking
  <2>1. UNCHANGED <<prog, queue, info, prevSize>> /\ pass' = "backward"
        /\ \A x \in ToSet(queue) : Passed(x)
    BY <1>6 DEF BeginBacktracking, Passed
  <2> QED
    BY <1>5, <2>1
<1>7. CASE VisitOperands
  <2>1. PICK v \in ToSet(queue) :
            /\ pass = "backward"
            /\ IF info[v].depth = 0 THEN queue' = queue /\ info' = info
               ELSE queue' = EnqueueOperands(v).queue /\ info' = EnqueueOperands(v).info
            /\ UNCHANGED <<prog, pass, prevSize>>
    BY <1>7, PassSteps
  <2>2. info[v].depth = 0
    BY <1>2 DEF Shallow
  <2>3. UNCHANGED <<prog, queue, info, prevSize, pass>> /\ \A x : Passed(x)
    BY <2>1, <2>2 DEF Passed
  <2> QED
    BY <1>5, <2>1, <2>3
<1>8. CASE EndRound
  <2>1. UNCHANGED <<prog, queue, info, prevSize>> /\ \A x : Passed(x)
    BY <1>8 DEF EndRound, Passed
  <2> QED
    BY <1>5, <2>1
<1>9. CASE UNCHANGED vars
  <2>1. UNCHANGED <<prog, queue, info, prevSize>> /\ pass' = pass
        /\ \A x \in ToSet(queue) : Passed(x)' => Passed(x)
    BY <1>9 DEF vars, Passed
  <2> QED
    BY <1>5, <2>1
<1> QED
  BY <1>3, <1>4, <1>6, <1>7, <1>8, <1>9 DEF Next, Step

\* The levels are what Within counts.
LEMMA WithinStep ==
    ASSUME NEW n \in Nat, NEW R \in SUBSET Value
    PROVE  \E f \in [0..n -> SUBSET Value] :
               /\ f[0] = R /\ \A i \in 1..n : f[i] = f[i - 1] \cup (UsersOf(f[i - 1]) \cap Value)
<1> DEFINE A == SUBSET Value
           G == [i \in 1..n |-> [S \in A |-> S \cup (UsersOf(S) \cap Value)]]
<1>1. R \in A /\ \A S \in A : S \cup (UsersOf(S) \cap Value) \in A
  BY QueueAssumption
<1> HIDE DEF A
<1>2. G \in [1..n -> [A -> A]]
  BY <1>1
<1>3. PICK f \in [0..n -> A] : f[0] = R /\ \A i \in 1..n : f[i] = G[i][f[i-1]]
  <2> HIDE DEF G
  <2>1. \E f \in [0..n -> A] : f[0] = R /\ \A i \in 1..n : f[i] = G[i][f[i-1]]
    BY <1>1, <1>2, IterationExists
  <2> QED
    BY <2>1
<1>4. \A i \in 1..n : f[i] = f[i - 1] \cup (UsersOf(f[i - 1]) \cap Value)
  <2> SUFFICES ASSUME NEW i \in 1..n PROVE f[i] = f[i - 1] \cup (UsersOf(f[i - 1]) \cap Value)
    OBVIOUS
  <2>1. i - 1 \in 0..n /\ f[i] = G[i][f[i - 1]]
    <3> HIDE DEF G
    <3> QED
      BY <1>3
  <2> QED
    BY <2>1
<1> QED
  BY <1>3, <1>4 DEF A

\* The users of a set of values.
LEMMA UsersOfFacts ==
    ASSUME prog \in Programs, NEW S \in SUBSET Value
    PROVE  /\ UsersOf(S) \in SUBSET Value
           /\ \A x : x \in UsersOf(S) <=> \E y \in S : x \in ToSet(prog.users[y])
<1>1. \A v \in Value : ToSet(prog.users[v]) \subseteq Value
  BY ProgramAssumption DEF ToSet
<1> QED
  BY <1>1 DEF UsersOf

\* Within(R, n), by any sequence of n steps.
LEMMA WithinIs ==
    ASSUME prog \in Programs, NEW R \in SUBSET Value, NEW n \in Nat, NEW f \in [0..n -> SUBSET Value], f[0] = R,
           \A i \in 1..n : f[i] = f[i - 1] \cup (UsersOf(f[i - 1]) \cap Value)
    PROVE  Within(R, n) = f[n]
<1> DEFINE Eq(g) == g = [i \in 0..n |-> IF i = 0 THEN R ELSE g[i - 1] \cup UsersOf(g[i - 1])]
           it == CHOOSE g : Eq(g)
<1>0. \A i \in 1..n : i - 1 \in 0..n /\ f[i] = f[i - 1] \cup UsersOf(f[i - 1])
  BY UsersOfFacts
<1>1. Eq(f)
  <2>1. \A i \in 0..n : f[i] = IF i = 0 THEN R ELSE f[i - 1] \cup UsersOf(f[i - 1])
    BY <1>0
  <2> QED
    BY <2>1
<1>2. Eq(it)
  <2> HIDE DEF Eq
  <2> QED
    BY <1>1, Zenon
<1>3. Within(R, n) = it[n]
  BY Zenon DEF Within
<1> HIDE DEF it
<1>4. \A i \in 0..n : it[i] = IF i = 0 THEN R ELSE it[i - 1] \cup UsersOf(it[i - 1])
  BY <1>2
<1> DEFINE S == {i \in 0..n : it[i] = f[i]}
<1>5. 0 \in S
  <2>1. 0 \in 0..n /\ n >= 0
    OBVIOUS
  <2>2. it[0] = R
    BY <1>4, <2>1
  <2> QED
    BY <2>1, <2>2
<1>6. ASSUME NEW i \in 0..n, i < n, i \in S PROVE i + 1 \in S
  <2>1. i + 1 \in 1..n /\ i + 1 \in 0..n /\ i + 1 # 0 /\ (i + 1) - 1 = i
    BY <1>6
  <2>2. it[i + 1] = it[i] \cup UsersOf(it[i])
    BY <1>4, <2>1
  <2>3. f[i + 1] = f[i] \cup UsersOf(f[i])
    BY <1>0, <2>1
  <2> QED
    BY <1>6, <2>1, <2>2, <2>3
<1>7. n \in S
  <2>1. \A i \in 0..n : i < n /\ i \in S => i + 1 \in S
    BY <1>6
  <2> HIDE DEF S
  <2>2. 0..n \subseteq S
    BY <1>5, <2>1, InductionUpTo
  <2> QED
    BY <2>2
<1> QED
  BY <1>3, <1>7

\* The sets Within(R, n) are levels.
LEMMA WithinLevels ==
    ASSUME prog \in Programs, NEW R \in SUBSET Value
    PROVE  LET W == [n \in Nat |-> Within(R, n)] IN W \in [Nat -> SUBSET Value] /\ Levels(R, W)
<1> DEFINE W == [n \in Nat |-> Within(R, n)]
<1>1. ASSUME NEW n \in Nat PROVE Within(R, n) \in SUBSET Value
  <2>1. PICK f \in [0..n -> SUBSET Value] :
               /\ f[0] = R /\ \A i \in 1..n : f[i] = f[i - 1] \cup (UsersOf(f[i - 1]) \cap Value)
    BY ZenonT(40), WithinStep
  <2>2. Within(R, n) = f[n]
    BY <2>1, WithinIs
  <2> QED
    BY <2>2
<1>2. Within(R, 0) = R
  <2>1. PICK f \in [0..0 -> SUBSET Value] :
               /\ f[0] = R /\ \A i \in 1..0 : f[i] = f[i - 1] \cup (UsersOf(f[i - 1]) \cap Value)
    <3>1. 0 \in Nat
      OBVIOUS
    <3> QED
      BY ZenonT(40), <3>1, WithinStep
  <2>2. Within(R, 0) = f[0]
    BY <2>1, WithinIs
  <2> QED
    BY <2>1, <2>2
<1>3. ASSUME NEW n \in Nat PROVE Within(R, n + 1) = Within(R, n) \cup UsersOf(Within(R, n))
  <2>1. PICK f \in [0..(n + 1) -> SUBSET Value] :
               /\ f[0] = R /\ \A i \in 1..(n + 1) : f[i] = f[i - 1] \cup (UsersOf(f[i - 1]) \cap Value)
    <3>1. n + 1 \in Nat
      OBVIOUS
    <3> QED
      BY ZenonT(40), <3>1, WithinStep
  <2>2. Within(R, n + 1) = f[n + 1]
    <3>1. n + 1 \in Nat
      OBVIOUS
    <3> QED
      BY <2>1, <3>1, WithinIs
  <2> DEFINE g == [i \in 0..n |-> f[i]]
  <2>3. g \in [0..n -> SUBSET Value] /\ g[0] = R /\ g[n] = f[n]
    BY <2>1
  <2>4. \A i \in 1..n : g[i] = g[i - 1] \cup (UsersOf(g[i - 1]) \cap Value)
    <3> SUFFICES ASSUME NEW i \in 1..n PROVE g[i] = g[i - 1] \cup (UsersOf(g[i - 1]) \cap Value)
      OBVIOUS
    <3>1. i \in 1..(n + 1) /\ i \in 0..n /\ i - 1 \in 0..n
      OBVIOUS
    <3>2. g[i] = f[i] /\ g[i - 1] = f[i - 1]
      BY <3>1
    <3> QED
      BY <2>1, <3>1, <3>2
  <2> HIDE DEF g
  <2>5. Within(R, n) = g[n]
    BY <2>3, <2>4, WithinIs
  <2>6. n + 1 \in 1..(n + 1) /\ (n + 1) - 1 = n /\ f[n] \in SUBSET Value
    BY <2>1
  <2>7. f[n + 1] = f[n] \cup UsersOf(f[n])
    BY <2>1, <2>6, UsersOfFacts
  <2> QED
    BY <2>2, <2>3, <2>5, <2>7
<1>4. W \in [Nat -> SUBSET Value] /\ W[0] = R
  BY <1>1, <1>2
<1>5. ASSUME NEW n \in Nat, NEW x \in Value
      PROVE  x \in W[n + 1] <=> x \in W[n] \/ \E y \in W[n] : x \in ToSet(prog.users[y])
  <2>1. W[n] = Within(R, n) /\ W[n + 1] = Within(R, n) \cup UsersOf(Within(R, n))
    <3>1. n + 1 \in Nat
      OBVIOUS
    <3> QED
      BY <1>3, <3>1
  <2>2. \A z : z \in UsersOf(Within(R, n)) <=> \E y \in Within(R, n) : z \in ToSet(prog.users[y])
    BY <1>1, UsersOfFacts
  <2> HIDE DEF W
  <2> QED
    BY <2>1, <2>2
<1> HIDE DEF W
<1>6. Levels(R, W)
  BY <1>4, <1>5 DEF Levels
<1> QED
  BY <1>4, <1>6 DEF W

\* When the queue is finished, every distance is that of the closest root and
\* every flag has been handed on.
LEMMA FinishedInherited ==
    ASSUME QueueTyped, Inheriting, Finished, Ordinary
    PROVE  /\ \A v \in ToSet(queue) :
                 /\ v \in Within(Root, info[v].dist)
                 /\ info[v].dist > 0 => v \notin Within(Root, info[v].dist - 1)
                 /\ prog.gep = {} =>
                       info[v].from \in Root /\ v \in Within({info[v].from}, info[v].dist)
           /\ prog.gep = {} => \A v \in ToSet(queue) : \A u \in ToSet(prog.users[v]) :
                                  info[v].enabled => info[u].enabled
<1>1. Shallow /\ OnLevels /\ OnOwnLevels /\ RelaxedOnce /\ InheritedOnce
  BY DEF Inheriting
<1>2. queue \in Queues /\ info \in [Value -> InfoT] /\ prog \in Programs
      /\ pass = "done" /\ prevSize = Len(queue) /\ Len(queue) \in Nat
      /\ ToSet(queue) \subseteq Value /\ ToSet(queue) = {queue[i] : i \in 1..Len(queue)}
  BY Positions DEF QueueTyped, State, StateT, Finished
<1>3. \A x \in ToSet(queue) : Passed(x)
  BY <1>2 DEF Passed
<1>4. \A x \in ToSet(queue) : Relaxed(x) /\ (prog.gep = {} => Inherits(x))
  BY <1>1, <1>2, <1>3 DEF RelaxedOnce, InheritedOnce
<1> DEFINE W == [n \in Nat |-> Within(Root, n)]
<1>5. W \in [Nat -> SUBSET Value] /\ Levels(Root, W) /\ \A n \in Nat : W[n] = Within(Root, n)
  BY <1>2, WithinLevels, QueueAssumption
<1> HIDE DEF W
<1>6. \A x \in ToSet(queue) : info[x].dist \in Nat /\ x \in W[info[x].dist]
  <2>1. \A x \in Value : info[x].dist \in Nat
    BY <1>2, QueueAssumption DEF InfoT
  <2> QED
    BY <1>1, <1>2, <1>5, <2>1 DEF OnLevels
<1> DEFINE S == {n \in Nat : \A x \in W[n] : x \in ToSet(queue) /\ info[x].dist <= n}
<1>7. 0 \in S
  <2>1. \A x \in W[0] : x \in ToSet(queue) /\ info[x].dist = 0
    BY <1>1, <1>5 DEF Levels, Shallow
  <2> QED
    BY <2>1
<1>8. ASSUME NEW n \in Nat, n \in S PROVE n + 1 \in S
  <2>1. ASSUME NEW x \in W[n + 1] PROVE x \in ToSet(queue) /\ info[x].dist <= n + 1
    <3>1. x \in Value
      BY <1>5
    <3>2. CASE x \in W[n]
      <4>1. x \in ToSet(queue) /\ info[x].dist <= n
        BY <1>8, <3>2
      <4> QED
        BY <1>6, <4>1
    <3>3. CASE x \notin W[n]
      <4>1. PICK y \in W[n] : x \in ToSet(prog.users[y])
        BY <1>5, <3>1, <3>3 DEF Levels
      <4>2. y \in ToSet(queue) /\ info[y].dist <= n
        BY <1>8
      <4>3. x \in ToSet(queue) /\ info[x].dist <= info[y].dist + 1
        BY <1>4, <4>1, <4>2 DEF Relaxed
      <4> QED
        BY <1>6, <4>2, <4>3
    <3> QED
      BY <3>2, <3>3
  <2> QED
    BY <2>1
<1>9. Nat \subseteq S
  <2> HIDE DEF S
  <2>1. \A n \in Nat : n \in S => n + 1 \in S
    BY <1>8
  <2> QED
    BY <1>7, <2>1, InductionOnSet
<1>10. ASSUME NEW v \in ToSet(queue)
       PROVE  /\ v \in Within(Root, info[v].dist)
              /\ info[v].dist > 0 => v \notin Within(Root, info[v].dist - 1)
  <2>1. v \in Within(Root, info[v].dist)
    BY <1>5, <1>6
  <2>2. ASSUME info[v].dist > 0 PROVE v \notin Within(Root, info[v].dist - 1)
    <3>1. PICK m \in Nat : m = info[v].dist - 1
      BY <1>6, <2>2
    <3>2. v \in W[m] => info[v].dist <= m
      BY <1>9
    <3>3. v \notin W[m]
      BY <1>6, <3>1, <3>2
    <3> QED
      BY <1>5, <3>1, <3>3
  <2> QED
    BY <2>1, <2>2
<1>11. prog.gep = {} => \A v \in ToSet(queue) : \A u \in ToSet(prog.users[v]) :
                                  info[v].enabled => info[u].enabled
  BY <1>4 DEF Inherits
<1>12. ASSUME prog.gep = {}, NEW v \in ToSet(queue)
       PROVE  info[v].from \in Root /\ v \in Within({info[v].from}, info[v].dist)
  <2>1. PICK r \in Root : r = info[v].from
    BY <1>1, <1>12 DEF OnOwnLevels
  <2> DEFINE X == [n \in Nat |-> Within({r}, n)]
  <2>2. {r} \in SUBSET Value
    BY QueueAssumption
  <2>3. X \in [Nat -> SUBSET Value] /\ Levels({r}, X)
    BY <1>2, <2>2, WithinLevels
  <2>4. X[info[v].dist] = Within({r}, info[v].dist)
    BY <1>6
  <2> HIDE DEF X
  <2>5. v \in X[info[v].dist]
    BY <1>1, <1>12, <2>1, <2>3 DEF OnOwnLevels
  <2> QED
    BY <2>1, <2>4, <2>5
<1> QED
  BY <1>10, <1>11, <1>12

(***************************************************************************)
(* Without phi nodes and backtracking every value ends up with the         *)
(* distance of a closest root and, without address computations, with the  *)
(* metadata of such a root and the conversion flag of what it uses.        *)
(***************************************************************************)
THEOREM ClosestRootsWin == Spec => []RootsInherited
<1>1. Init => Inheriting
  BY InheritingInit
<1>2. QueueTyped /\ Inheriting /\ [Next]_vars => Inheriting'
  BY InheritingStep
<1>3. QueueTyped /\ Inheriting => RootsInherited
  <2> SUFFICES ASSUME QueueTyped, Inheriting PROVE ClosestRoot /\ EnabledInherited
    BY DEF RootsInherited
  <2>1. ClosestRoot
    BY FinishedInherited DEF ClosestRoot
  <2>2. EnabledInherited
    BY FinishedInherited DEF EnabledInherited
  <2> QED
    BY <2>1, <2>2
<1> QED
  BY QueueWellFormed, <1>1, <1>2, <1>3, PTL DEF Spec
====
