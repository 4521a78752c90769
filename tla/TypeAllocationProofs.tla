------------------------- MODULE TypeAllocationProofs -------------------------
(***************************************************************************)
(* What the data type allocation does for every program and every choice   *)
(* of the sizes: it never takes from a value a bit in front of the point   *)
(* or the sign that its range asked for, its types hold the ranges, calls  *)
(* keep formal and actual arguments alike, and what it merges is sorted.   *)
(***************************************************************************)
EXTENDS TypeAllocation, Induction, SequenceTheorems

(***************************************************************************)
(* What a range needs in front of the point is a number of bits.           *)
(***************************************************************************)
LEMMA WholeBitsType ==
    ASSUME NEW m \in Int
    PROVE  WholeBits(m) \in Nat
<1>1. IsFiniteSet(0..MaxExponent)
  BY FS_Interval, BitsAssumption
<1> QED
  BY <1>1, FS_Subset, FS_CardinalityType DEF WholeBits

\* The bits behind the point that are always zero are a number, too.
LEMMA ZeroBitsType ==
    ASSUME NEW m \in Int, NEW z \in ZeroBits(m)
    PROVE  z \in Nat
<1>1. IsFiniteSet(0..MaxExponent)
  BY FS_Interval, BitsAssumption
<1>2. Cardinality({k \in 0..MaxExponent : m * 2^k < Unit}) \in Nat
  BY <1>1, FS_Subset, FS_CardinalityType
<1> QED
  BY <1>2, BitsAssumption DEF ZeroBits

\* The size a type is enlarged to is positive.
LEMMA SizeForType ==
    ASSUME NEW intBits \in Nat, NEW zeroBits \in Nat
    PROVE  SizeFor(intBits, zeroBits) \in Nat \ {0}
<1> DEFINE S == {n \in 1..MaxTotalBits : TooSmall(n * TotalBits, intBits, zeroBits)}
<1>1. IsFiniteSet(1..MaxTotalBits)
  BY FS_Interval, BitsAssumption
<1>2. Cardinality(S) \in Nat
  BY <1>1, FS_Subset, FS_CardinalityType
<1> HIDE DEF S
<1>3. TotalBits * (1 + Cardinality(S)) \in Nat \ {0}
  BY <1>2, BitsAssumption
<1> QED
  BY <1>3 DEF SizeFor, S

(***************************************************************************)
(* The type chosen for a range is one (fixedPointTypeFromRange).           *)
(***************************************************************************)
LEMMA TypeForType ==
    ASSUME NEW r \in RangeT, NEW t \in TypeFor(r)
    PROVE  t \in TypeT /\ IntBits(t) \in Nat
<1>1. r.lo \in Int /\ r.hi \in Int /\ Magnitude(r) \in Int
  BY DEF RangeT, Magnitude, Larger
<1> DEFINE signed == r.lo < 0
<1>0. signed \in BOOLEAN
  BY <1>1
<1>2. CASE ~r.finite
  <2>1. t = [width |-> TotalBits, frac |-> 0, signed |-> signed]
    BY <1>2 DEF TypeFor
  <2> HIDE DEF signed
  <2>2. t \in TypeT
    BY <2>1, <1>0, BitsAssumption DEF TypeT
  <2>3. IntBits(t) = TotalBits - 0 - SignBit(signed)
    BY <2>1 DEF IntBits
  <2> QED
    BY <2>2, <2>3, BitsAssumption DEF SignBit
<1>3. CASE r.finite
  <2> DEFINE whole == WholeBits(Magnitude(r))
             intBits == whole + SignBit(r.lo < 0)
  <2>1. whole \in Nat /\ intBits \in Nat /\ SignBit(r.lo < 0) \in {0, 1}
    BY <1>1, WholeBitsType DEF SignBit
  <2>2. PICK z \in ZeroBits(Magnitude(r)) :
           LET size == SizeFor(intBits, z)
           IN  t = [width |-> size,
                    frac |-> IF size - intBits < FracThreshold THEN 0 ELSE size - intBits,
                    signed |-> r.lo < 0]
    BY <1>3 DEF TypeFor
  <2> DEFINE size == SizeFor(intBits, z)
  <2>3. size \in Nat \ {0}
    BY <1>1, <2>1, ZeroBitsType, SizeForType
  <2>4. /\ t.width = size /\ t.signed = (r.lo < 0)
        /\ t.frac = IF size - intBits < FracThreshold THEN 0 ELSE size - intBits
        /\ t = [width |-> t.width, frac |-> t.frac, signed |-> t.signed]
    BY <2>2
  <2> HIDE DEF size, whole
  <2>5. t.frac \in Nat
    BY <2>1, <2>3, <2>4, BitsAssumption
  <2>6. t \in TypeT
    <3>1. t = [width |-> size, frac |-> t.frac, signed |-> signed]
      BY <2>4
    <3> HIDE DEF signed
    <3> QED
      BY <1>0, <2>3, <2>5, <3>1 DEF TypeT
  <2>7. IntBits(t) = size - t.frac - SignBit(r.lo < 0)
    BY <2>4 DEF IntBits
  <2>8. IntBits(t) \in Nat
    BY <2>1, <2>3, <2>4, <2>7, BitsAssumption
  <2> QED
    BY <2>6, <2>8
<1> QED
  BY <1>2, <1>3

\* The parts of a fixed point type.
LEMMA RecordFields ==
    ASSUME NEW t \in TypeT
    PROVE  /\ t.width \in Nat /\ t.frac \in Nat /\ t.signed \in BOOLEAN
           /\ SignBit(t.signed) \in {0, 1}
           /\ IntBits(t) \in Int
BY DEF TypeT, SignBit, IntBits

(***************************************************************************)
(* What two types are merged to is a type that has the bits in front of    *)
(* the point and the sign of both (merge).                                 *)
(***************************************************************************)
LEMMA MergeWidens ==
    ASSUME NEW t \in TypeT, NEW u \in TypeT, IntBits(t) >= 0, IntBits(u) >= 0,
           NEW m \in Merge(t, u)
    PROVE  m \in TypeT /\ IntBits(m) >= 0 /\ AsWide(m, t) /\ AsWide(m, u)
<1> DEFINE signed == t.signed \/ u.signed
           width == Larger(t.width, u.width)
           int == Larger(IntBits(t), IntBits(u))
           frac == width - int - SignBit(signed)
<1>1. signed \in BOOLEAN
  OBVIOUS
<1>2. width \in Nat
  BY RecordFields DEF Larger
<1>3. int \in Nat /\ int >= IntBits(t) /\ int >= IntBits(u)
  BY RecordFields DEF Larger
<1>4. m = [width |-> width, frac |-> frac, signed |-> signed] /\ m.frac >= 0
  BY DEF Merge
<1>5. (t.signed => signed) /\ (u.signed => signed)
  OBVIOUS
<1> HIDE DEF signed, width, int
<1>6. SignBit(signed) \in {0, 1}
  BY DEF SignBit
<1>7. frac \in Nat
  BY <1>2, <1>3, <1>4, <1>6
<1>8. m \in TypeT
  BY <1>1, <1>2, <1>4, <1>7 DEF TypeT
<1>9. IntBits(m) = int
  BY <1>2, <1>3, <1>4, <1>6, <1>7 DEF IntBits
<1>10. m.signed = signed
  BY <1>4
<1> QED
  BY <1>3, <1>5, <1>8, <1>9, <1>10 DEF AsWide

\* To be as wide is a preorder.
LEMMA AsWideOrder ==
    ASSUME NEW t \in TypeT, NEW u \in TypeT, NEW w \in TypeT
    PROVE  AsWide(t, t) /\ (AsWide(t, u) /\ AsWide(u, w) => AsWide(t, w))
BY RecordFields DEF AsWide

\* Taking the last element of the search's stack.
LEMMA SeqPop ==
    ASSUME NEW S, NEW s \in Seq(S), s # <<>>
    PROVE  Front(s) \in Seq(S) /\ s[Len(s)] \in S
BY DEF Front

\* Turning the queue of finished values around.
LEMMA SeqReverse ==
    ASSUME NEW S, NEW s \in Seq(S)
    PROVE  Reverse(s) \in Seq(S)
<1>1. \A i \in 1..Len(s) : s[(Len(s) - i) + 1] \in S
  OBVIOUS
<1>2. Reverse(s) \in [1..Len(s) -> S]
  BY <1>1 DEF Reverse
<1> QED
  BY <1>2, SeqDef, LenProperties

(***************************************************************************)
(* The inductive invariant.  Until the merging begins the types are the    *)
(* initial ones.                                                           *)
(***************************************************************************)
SameType(v) == IF HasInfo(v) THEN type[v] = initial[v] ELSE initial[v] = NoType
Unmerged ==
    pc \in {"associate", "sort", "push"} =>
        \A v \in Value : SameType(v)

Typing == TypeOK /\ prog \in Programs

\* The type and initial type that a value gets before merging.
LEMMA GivenTyping ==
    ASSUME Typing, NEW v \in Value, NEW t \in Typed, t \in TypeT => IntBits(t) >= 0,
           type' = [type EXCEPT ![v] = t],
           initial' = [initial EXCEPT ![v] = t]
    PROVE  /\ type' \in [Value -> Typed \cup {NoInfo}] /\ IntBitsCounted(type')
           /\ initial' \in [Value -> Typed] /\ IntBitsCounted(initial')
           /\ Informed \subseteq Informed' /\ v \in Informed'
           /\ (\A w \in Value : SameType(w)) =>
                 \A w \in Value : SameType(w)'
<1>0. t # NoInfo
  BY NothingAssumption DEF Typed
<1>1. type \in [Value -> Typed \cup {NoInfo}] /\ initial \in [Value -> Typed]
  BY DEF Typing, TypeOK
<1>2. type' \in [Value -> Typed \cup {NoInfo}] /\ initial' \in [Value -> Typed]
  BY <1>1
<1>3. \A w \in Value : type'[w] = (IF w = v THEN t ELSE type[w])
                    /\ initial'[w] = (IF w = v THEN t ELSE initial[w])
  BY <1>1
<1>4. IntBitsCounted(type') /\ IntBitsCounted(initial')
  BY <1>3 DEF Typing, TypeOK, IntBitsCounted
<1>5. Informed \subseteq Informed' /\ v \in Informed'
  BY <1>0, <1>3 DEF Informed, HasInfo
<1>6. (\A w \in Value : SameType(w)) => \A w \in Value : SameType(w)'
  BY <1>0, <1>3 DEF SameType, HasInfo
<1> QED
  BY <1>2, <1>4, <1>5, <1>6

\* Nothing but the types depends on the types.
LEMMA InformedGrows ==
    ASSUME Typing, Informed \subseteq Informed'
    PROVE  /\ vals \in Seq(Informed') /\ stack \in Seq(Informed')
           /\ revQueue \in Seq(Informed')
           /\ pc = "push" => cur \in Informed'
BY SeqMonotonic DEF Typing, TypeOK

\* What the sequences of a program hold.
LEMMA ProgramTyping ==
    ASSUME Typing
    PROVE  /\ prog.order \in Seq(Value)
           /\ \A v \in Value : prog.users[v] \in Seq(Value)
           /\ \A v \in Value : prog.range[v] \in RangeT \cup {NoRange}
BY ProgramAssumption DEF Typing

\* The loops count upwards from 1.
LEMMA CountersPositive == Typing => next + 1 \in Nat \ {0} /\ use + 1 \in Nat \ {0} /\ 1 \in Nat \ {0}
BY DEF Typing, TypeOK

\* A value gets the type of its range.
LEMMA AssociateTyping ==
    ASSUME Typing, Unmerged, Associate
    PROVE  Typing' /\ Unmerged'
<1> DEFINE v == prog.order[next]
<1>1. v \in Value
  <2>1. next \in 1..Len(prog.order)
    BY DEF Associate, Typing, TypeOK
  <2> QED
    BY <2>1, ProgramTyping
<1>2. CASE prog.range[v] = NoRange
  <2>1. UNCHANGED <<prog, mode, pc, type, initial, vals, use, search, merged>> /\ next' = next + 1
    BY <1>2 DEF Associate
  <2> QED
    BY <2>1, CountersPositive DEF Typing, TypeOK, Unmerged, SameType, Informed, HasInfo, search
<1>3. CASE prog.range[v] # NoRange
  <2>1. PICK t \in IF prog.kind[v] = "struct" THEN {NoType} ELSE TypeFor(prog.range[v]) :
            /\ type' = [type EXCEPT ![v] = t]
            /\ initial' = [initial EXCEPT ![v] = t]
            /\ vals' = Append(vals, v)
    BY <1>3 DEF Associate
  <2>2. prog.range[v] \in RangeT
    BY <1>1, <1>3, ProgramTyping
  <2>3. t \in Typed /\ (t \in TypeT => IntBits(t) >= 0)
    BY <2>1, <2>2, TypeForType, NothingAssumption DEF Typed
  <2>4. /\ type' \in [Value -> Typed \cup {NoInfo}] /\ IntBitsCounted(type')
        /\ initial' \in [Value -> Typed] /\ IntBitsCounted(initial')
        /\ Informed \subseteq Informed' /\ v \in Informed'
        /\ (\A w \in Value : SameType(w)) =>
                 \A w \in Value : SameType(w)'
    BY <1>1, <2>1, <2>3, GivenTyping
  <2>5. vals \in Seq(Informed') /\ stack' \in Seq(Informed') /\ revQueue' \in Seq(Informed')
    BY <2>4, InformedGrows DEF Associate, search
  <2>6. vals' \in Seq(Informed')
    BY <2>1, <2>4, <2>5
  <2>7. UNCHANGED <<prog, mode, pc, use, vstates, merged>> /\ next' = next + 1
        /\ pc = "associate"
    BY DEF Associate, search
  <2> QED
    BY <2>4, <2>5, <2>6, <2>7, CountersPositive DEF Typing, TypeOK, Unmerged
<1> QED
  BY <1>2, <1>3

\* The steps of the search that leave the types alone.
LEMMA SortTyping ==
    ASSUME Typing, Unmerged, NextRoot \/ Visit \/ EndUsers \/ Leave \/ BeginSorting
    PROVE  Typing' /\ Unmerged'
<1>1. UNCHANGED <<prog, mode, type, initial, vals, merged>>
  BY DEF NextRoot, Visit, EndUsers, Leave, BeginSorting, search, loops
<1>2. Informed' = Informed /\ Unmerged'
  BY <1>1 DEF Informed, HasInfo, Unmerged, SameType, NextRoot, Visit, EndUsers, Leave, BeginSorting
<1>3. CASE NextRoot
  <2>1. next \in 1..Len(vals) /\ vals[next] \in Informed
    BY <1>3 DEF NextRoot, Typing, TypeOK
  <2>2. stack' \in Seq(Informed)
    BY <1>3, <2>1 DEF NextRoot
  <2> QED
    BY <1>1, <1>2, <1>3, <2>2, CountersPositive DEF NextRoot, Typing, TypeOK
<1>4. CASE Visit
  <2>1. Top \in Informed
    BY <1>4, SeqPop DEF Visit, Top, Typing, TypeOK
  <2> QED
    BY <1>1, <1>2, <1>4, <2>1, CountersPositive DEF Visit, Typing, TypeOK
<1>5. CASE EndUsers
  BY <1>1, <1>2, <1>5 DEF EndUsers, Typing, TypeOK, search, loops
<1>6. CASE Leave
  <2>1. Top \in Informed /\ Front(stack) \in Seq(Informed)
    BY <1>6, SeqPop DEF Leave, Top, Typing, TypeOK
  <2>2. revQueue' \in Seq(Informed)
    BY <1>6, <2>1 DEF Leave, Typing, TypeOK
  <2>3. vstates' \in [Value -> {"none", "visiting", "visited"}]
    BY <1>6 DEF Leave, Typing, TypeOK
  <2> QED
    BY <1>1, <1>2, <1>6, <2>1, <2>2, <2>3 DEF Leave, Typing, TypeOK, loops
<1>7. CASE BeginSorting
  BY <1>1, <1>2, <1>7, CountersPositive DEF BeginSorting, Typing, TypeOK, search
<1> QED
  BY <1>3, <1>4, <1>5, <1>6, <1>7

\* A user without info gets the type of the value it uses.
LEMMA PushTyping ==
    ASSUME Typing, Unmerged, PushUser
    PROVE  Typing' /\ Unmerged'
<1> DEFINE u == prog.users[cur][use]
           t == Inherited(u, cur)
<1>1. cur \in Value /\ HasInfo(cur)
  BY DEF PushUser, Typing, TypeOK, Informed
<1>2. u \in Value
  <2>1. use \in 1..Len(prog.users[cur])
    BY DEF PushUser, Typing, TypeOK
  <2> QED
    BY <1>1, <2>1, ProgramTyping
<1>3. UNCHANGED <<prog, mode, pc, vals, next, cur, vstates, revQueue, merged>>
      /\ use' = use + 1 /\ pc = "push"
  BY DEF PushUser
<1>4. CASE u \in prog.enabled /\ ~HasInfo(u)
  <2>1. type' = [type EXCEPT ![u] = t] /\ initial' = [initial EXCEPT ![u] = t]
        /\ stack' = Append(stack, u)
    BY <1>4 DEF PushUser
  <2>2. t \in Typed /\ (t \in TypeT => IntBits(t) >= 0)
    BY <1>1, NothingAssumption DEF Inherited, Typing, TypeOK, Typed, HasInfo, IntBitsCounted
  <2> HIDE DEF t
  <2>3. /\ type' \in [Value -> Typed \cup {NoInfo}] /\ IntBitsCounted(type')
        /\ initial' \in [Value -> Typed] /\ IntBitsCounted(initial')
        /\ Informed \subseteq Informed' /\ u \in Informed'
        /\ (\A w \in Value : SameType(w)) =>
                 \A w \in Value : SameType(w)'
    BY <1>2, <2>1, <2>2, GivenTyping
  <2>4. vals' \in Seq(Informed') /\ stack \in Seq(Informed') /\ revQueue' \in Seq(Informed')
        /\ cur' \in Informed'
    BY <1>3, <2>3, InformedGrows
  <2>5. stack' \in Seq(Informed')
    BY <2>1, <2>3, <2>4
  <2> QED
    BY <1>3, <2>3, <2>4, <2>5, CountersPositive DEF Typing, TypeOK, Unmerged
<1>5. CASE ~(u \in prog.enabled /\ ~HasInfo(u))
  <2>1. /\ UNCHANGED <<type, initial>> /\ Informed' = Informed
        /\ \A w \in Value : SameType(w)' = SameType(w)
    BY <1>5 DEF PushUser, Informed, HasInfo, SameType
  <2>2. stack' \in Seq(Informed)
    <3>1. CASE u \in prog.enabled
      <4>1. u \in Informed /\ stack' = Append(stack, u)
        BY <1>2, <1>5, <3>1 DEF PushUser, Informed
      <4> QED
        BY <4>1 DEF Typing, TypeOK
    <3>2. CASE u \notin prog.enabled
      BY <3>2 DEF PushUser, Typing, TypeOK
    <3> QED
      BY <3>1, <3>2
  <2> QED
    BY <1>3, <2>1, <2>2, CountersPositive DEF Typing, TypeOK, Unmerged
<1> QED
  BY <1>4, <1>5

\* The queue is replaced by the sorted one.
LEMMA EndSortingTyping ==
    ASSUME Typing, EndSorting
    PROVE  Typing'
<1>1. Informed' = Informed
  BY DEF EndSorting, Informed, HasInfo
<1>2. vals' \in Seq(Informed)
  BY SeqReverse DEF EndSorting, Typing, TypeOK
<1> QED
  BY <1>1, <1>2, CountersPositive DEF EndSorting, Typing, TypeOK, search

(***************************************************************************)
(* What one merge does to the types: those of the pair and of the values   *)
(* kept in step with it become the merged one.                             *)
(***************************************************************************)
LEMMA MergePairTypes ==
    ASSUME Typing, MergePair, type' # type
    PROVE  \E v, u \in Value : \E t \in Merge(Base(v), Base(u)) :
              /\ {type[v], type[u], Base(v), Base(u)} \subseteq TypeT
              /\ \A w \in Value : type'[w] # type[w] =>
                    type'[w] = t /\ HasInfo(w) /\ w \in InStep(v) \cup InStep(u)
              /\ DOMAIN type' = Value
              /\ type' = [w \in Value |-> type'[w]]
<1> DEFINE v == vals[next]
           u == prog.users[v][use]
<1>1. v \in Value /\ u \in Value /\ HasInfo(v) /\ u \in ToSet(vals)
  <2>1. next \in 1..Len(vals) /\ vals \in Seq(Informed)
    BY DEF MergePair, Typing, TypeOK
  <2>2. v \in Informed
    BY <2>1
  <2>3. use \in 1..Len(prog.users[v])
    BY DEF MergePair, Typing, TypeOK
  <2>4. u \in Value
    BY <2>2, <2>3, ProgramTyping DEF Informed
  <2> QED
    BY <2>2, <2>4 DEF MergePair, Informed
<1>2. HasInfo(u)
  BY <1>1 DEF ToSet, Typing, TypeOK, Informed
<1>3. PICK t \in Merged(v, u) :
         type' = Restore(Restore([type EXCEPT ![v] = t, ![u] = t], v), u)
  BY <1>1 DEF MergePair
<1>4. t \in Merge(Base(v), Base(u)) /\ NoType \notin {type[v], type[u], Base(v), Base(u)}
  BY <1>3 DEF Merged
<1>5. {type[v], type[u], Base(v), Base(u)} \subseteq TypeT
  BY <1>1, <1>2, <1>4 DEF Base, Typing, TypeOK, Typed, HasInfo
<1>6. \A w \in Value : type'[w] # type[w] =>
         type'[w] = t /\ HasInfo(w) /\ w \in InStep(v) \cup InStep(u)
  <2> DEFINE f == [type EXCEPT ![v] = t, ![u] = t]
             g == Restore(f, v)
  <2>1. \A w \in Value : f[w] = IF w \in {v, u} THEN t ELSE type[w]
    BY <1>1 DEF Typing, TypeOK
  <2>0. type' = Restore(g, u)
    BY <1>3
  <2> HIDE DEF f
  <2>2. \A w \in Value : g[w] = IF w \in Restored(v) /\ HasInfo(w) THEN t ELSE f[w]
    BY <1>1, <2>1 DEF Restore
  <2> HIDE DEF g
  <2>3. g[u] = t
    BY <1>1, <2>1, <2>2
  <2>4. \A w \in Value : type'[w] = IF w \in Restored(u) /\ HasInfo(w) THEN t ELSE g[w]
    BY <1>1, <2>0, <2>3 DEF Restore
  <2>5. \A w \in Value : Restored(w) \subseteq InStep(w) /\ w \in InStep(w)
    BY DEF Restored, InStep
  <2> QED
    BY <1>1, <1>2, <2>1, <2>2, <2>4, <2>5
<1>7. DOMAIN type' = Value /\ type' = [w \in Value |-> type'[w]]
  <2>1. PICK f : type' = Restore(f, u)
    BY <1>3
  <2> QED
    BY <2>1 DEF Restore
<1> QED
  BY <1>1, <1>4, <1>5, <1>6, <1>7

\* The steps of the merging.
LEMMA MergeTyping ==
    ASSUME Typing, MergePair \/ NextValue \/ EndRound
    PROVE  Typing'
<1>1. CASE type' = type
  <2>1. Informed' = Informed
    BY SMTT(30), <1>1 DEF Informed, HasInfo
  <2>2. CASE MergePair
    <3>1. merged' \in BOOLEAN
      BY <2>2 DEF MergePair, Typing, TypeOK
    <3> QED
      BY SMTT(30), <1>1, <2>1, <2>2, <3>1, CountersPositive DEF MergePair, Typing, TypeOK, search
  <2>3. CASE NextValue
    BY <1>1, <2>1, <2>3, CountersPositive DEF NextValue, Typing, TypeOK, search
  <2>4. CASE EndRound
    <3>1. next' \in Nat \ {0} /\ pc' \in {"merge", "done"}
      BY <2>4 DEF EndRound, Typing, TypeOK
    <3> QED
      BY <1>1, <2>1, <2>4, <3>1 DEF EndRound, Typing, TypeOK, search
  <2> QED
    BY <2>2, <2>3, <2>4
<1>2. CASE type' # type
  <2>1. MergePair
    BY <1>2 DEF NextValue, EndRound
  <2>2. PICK v \in Value, u \in Value : \E t \in Merge(Base(v), Base(u)) :
              /\ {type[v], type[u], Base(v), Base(u)} \subseteq TypeT
              /\ \A w \in Value : type'[w] # type[w] =>
                    type'[w] = t /\ HasInfo(w) /\ w \in InStep(v) \cup InStep(u)
              /\ DOMAIN type' = Value
              /\ type' = [w \in Value |-> type'[w]]
    BY <1>2, <2>1, MergePairTypes
  <2>3. PICK t \in Merge(Base(v), Base(u)) :
              /\ {type[v], type[u], Base(v), Base(u)} \subseteq TypeT
              /\ \A w \in Value : type'[w] # type[w] => type'[w] = t /\ HasInfo(w)
              /\ type' = [w \in Value |-> type'[w]]
    BY <2>2
  <2>4. IntBits(Base(v)) >= 0 /\ IntBits(Base(u)) >= 0
    BY <2>3 DEF Base, Typing, TypeOK, IntBitsCounted
  <2>5. t \in TypeT /\ IntBits(t) >= 0
    BY <2>3, <2>4, MergeWidens
  <2>6. type' \in [Value -> Typed \cup {NoInfo}] /\ IntBitsCounted(type')
    BY <2>3, <2>5 DEF Typing, TypeOK, IntBitsCounted, Typed
  <2>7. Informed \subseteq Informed'
    BY <2>3, <2>5, NothingAssumption DEF Informed, HasInfo
  <2>8. vals \in Seq(Informed') /\ stack \in Seq(Informed') /\ revQueue \in Seq(Informed')
    BY <2>7, InformedGrows
  <2>9. UNCHANGED <<prog, mode, pc, initial, vals, next, stack, cur, vstates, revQueue>>
        /\ use' = use + 1 /\ merged' \in BOOLEAN /\ pc = "merge"
    BY <2>1 DEF MergePair, search, Typing, TypeOK
  <2> QED
    BY <2>6, <2>8, <2>9, CountersPositive DEF Typing, TypeOK
<1> QED
  BY <1>1, <1>2

(***************************************************************************)
(* Every step keeps the types of the variables.                            *)
(***************************************************************************)
\* The state the pass begins in.
LEMMA InitTyping ==
    ASSUME Init
    PROVE  Typing /\ Unmerged
<1>1. type = [v \in Value |-> NoInfo] /\ initial = [v \in Value |-> NoType]
  BY DEF Init
<1>2. type \in [Value -> Typed \cup {NoInfo}] /\ initial \in [Value -> Typed]
  BY <1>1 DEF Typed
<1>3. IntBitsCounted(type) /\ IntBitsCounted(initial)
  BY <1>1, NothingAssumption DEF IntBitsCounted
<1>4. vals = <<>> /\ stack = <<>> /\ revQueue = <<>> /\ <<>> \in Seq(Informed)
  BY DEF Init
<1>5. vstates \in [Value -> {"none", "visiting", "visited"}]
  BY DEF Init
<1>6. Unmerged
  BY <1>1, NothingAssumption DEF Unmerged, SameType, HasInfo
<1>7. pc = "associate" /\ next = 1 /\ use = 1
  BY DEF Init
<1>8. mode \in Mode /\ prog \in Programs /\ merged = FALSE
  BY Zenon DEF Init
<1>9. vals \in Seq(Informed) /\ stack \in Seq(Informed) /\ revQueue \in Seq(Informed)
  BY <1>4
<1>10. merged \in BOOLEAN
  BY <1>8
<1>11. /\ pc \in {"associate", "sort", "push", "merge", "done"} /\ pc # "push"
       /\ next \in Nat \ {0} /\ use \in Nat \ {0}
  BY <1>7
<1>12. TypeOK
  BY <1>2, <1>3, <1>5, <1>8, <1>9, <1>10, <1>11, Zenon DEF TypeOK
<1> QED
  BY <1>6, <1>8, <1>12 DEF Typing

\* Steps of nothing.
LEMMA StutterTyping ==
    ASSUME Typing, Unmerged, UNCHANGED vars
    PROVE  Typing' /\ Unmerged'
BY DEF vars, loops, search, Typing, TypeOK, Unmerged, SameType, Informed, HasInfo

LEMMA StepTyping ==
    ASSUME Typing, Unmerged, [Next]_vars
    PROVE  Typing' /\ Unmerged'
<1>1. CASE Associate
  BY <1>1, AssociateTyping
<1>2. CASE NextRoot \/ Visit \/ EndUsers \/ Leave \/ BeginSorting
  BY <1>2, SortTyping
<1>3. CASE PushUser
  BY <1>3, PushTyping
<1>4. CASE EndSorting
  BY <1>4, EndSortingTyping DEF EndSorting, Unmerged
<1>5. CASE MergePair \/ NextValue \/ EndRound
  <2>1. Unmerged'
    BY <1>5 DEF MergePair, NextValue, EndRound, Unmerged
  <2> QED
    BY <1>5, <2>1, MergeTyping
<1>6. CASE UNCHANGED vars
  BY <1>6, StutterTyping
<1> QED
  BY <1>1, <1>2, <1>3, <1>4, <1>5, <1>6 DEF Next, Step

(***************************************************************************)
(* The state of the pass keeps its types, and every type it assigns has a  *)
(* number of bits in front of the point that is not negative, for every    *)
(* set of programs and every size.                                         *)
(***************************************************************************)
THEOREM AllocationTypeCorrect == Spec => []TypeOK
<1>1. Init => Typing /\ Unmerged
  BY InitTyping
<1>2. Typing /\ Unmerged /\ [Next]_vars => Typing' /\ Unmerged'
  BY StepTyping
<1>3. Typing => TypeOK
  BY DEF Typing
<1> QED
  BY <1>1, <1>2, <1>3, PTL DEF Spec

(***************************************************************************)
(* Merging only adds bits in front of the point.                           *)
(***************************************************************************)
LEMMA UnmergedWidth ==
    Typing /\ (\A v \in Value : SameType(v)) => OnlyWidened
<1> SUFFICES ASSUME \A v \in Value : SameType(v),
                    NEW v \in Value, initial[v] \in TypeT
             PROVE  type[v] \in TypeT /\ AsWide(type[v], initial[v])
  BY DEF OnlyWidened, Covers
<1>1. type[v] = initial[v]
  BY NothingAssumption DEF SameType
<1> QED
  BY <1>1, AsWideOrder

\* A merge only widens: the types it gives are as wide as the ones it merges,
\* and those are as wide as what was asked for.
LEMMA MergeKeepsWidth ==
    ASSUME Typing, OnlyWidened, MergePair, type' # type
    PROVE  OnlyWidened'
<1>1. initial' = initial /\ prog' = prog
  BY DEF MergePair
<1>2. ArgumentsAlike' = ArgumentsAlike
  BY <1>1 DEF ArgumentsAlike, InStep, FormalsOf, Actuals, Covers
<1> SUFFICES ASSUME ArgumentsAlike, NEW w \in Value, initial[w] \in TypeT
             PROVE  type'[w] \in TypeT /\ AsWide(type'[w], initial[w])
  BY <1>1, <1>2 DEF OnlyWidened, Covers
<1>3. \A x \in Value : Covers(type[x], initial[x])
  BY DEF OnlyWidened
<1>4. PICK v \in Value, u \in Value : \E t \in Merge(Base(v), Base(u)) :
              /\ {type[v], type[u], Base(v), Base(u)} \subseteq TypeT
              /\ \A x \in Value : type'[x] # type[x] =>
                    type'[x] = t /\ HasInfo(x) /\ x \in InStep(v) \cup InStep(u)
              /\ DOMAIN type' = Value
              /\ type' = [x \in Value |-> type'[x]]
  BY MergePairTypes
<1>5. PICK t \in Merge(Base(v), Base(u)) :
              /\ {type[v], type[u], Base(v), Base(u)} \subseteq TypeT
              /\ \A x \in Value : type'[x] # type[x] =>
                    type'[x] = t /\ HasInfo(x) /\ x \in InStep(v) \cup InStep(u)
  BY <1>4
<1>6. CASE type'[w] = type[w]
  BY <1>3, <1>6 DEF Covers
<1>7. CASE type'[w] # type[w]
  <2>1. type'[w] = t /\ w \in InStep(v) \cup InStep(u)
    BY <1>5, <1>7
  <2>2. IntBits(Base(v)) >= 0 /\ IntBits(Base(u)) >= 0
    BY <1>5 DEF Base, Typing, TypeOK, IntBitsCounted
  <2>3. t \in TypeT /\ AsWide(t, Base(v)) /\ AsWide(t, Base(u))
    BY <1>5, <2>2, MergeWidens
  <2>4. ASSUME NEW x \in {v, u}, w \in InStep(x)
        PROVE  AsWide(t, initial[w])
    <3>1. initial[x] \in TypeT /\ AsWide(initial[x], initial[w])
      BY <2>4 DEF ArgumentsAlike, Covers
    <3>2. AsWide(Base(x), initial[x])
      BY <1>3, <3>1, AsWideOrder DEF Base, Covers
    <3>3. AsWide(t, initial[x])
      BY <1>5, <2>3, <2>4, <3>1, <3>2, AsWideOrder
    <3> QED
      BY <2>3, <3>1, <3>3, AsWideOrder
  <2> QED
    BY <2>1, <2>3, <2>4
<1> QED
  BY <1>6, <1>7

(***************************************************************************)
(* No value loses a bit in front of the point or the sign that its range   *)
(* asked for, unless a call keeps it in step with one that asked for less. *)
(***************************************************************************)
THEOREM TypesOnlyWiden == Spec => []OnlyWidened
<1> DEFINE IInv == Typing /\ Unmerged /\ OnlyWidened
<1>1. Init => IInv
  BY InitTyping, UnmergedWidth DEF Init, Unmerged
<1>2. ASSUME IInv, [Next]_vars PROVE IInv'
  <2>1. Typing' /\ Unmerged'
    BY <1>2, StepTyping
  <2>2. CASE pc' \in {"associate", "sort", "push"}
    <3>1. (\A v \in Value : SameType(v))'
      BY <2>1, <2>2 DEF Unmerged
    <3>2. (Typing /\ (\A v \in Value : SameType(v)) => OnlyWidened)'
      BY UnmergedWidth, PTL
    <3> QED
      BY <2>1, <3>1, <3>2
  <2>3. CASE pc' \notin {"associate", "sort", "push"} /\ type' = type
    <3>1. initial' = initial /\ prog' = prog
      BY <1>2, <2>3 DEF Next, Step, Associate, BeginSorting, NextRoot, Visit, PushUser,
            EndUsers, Leave, EndSorting, MergePair, NextValue, EndRound, vars
    <3> QED
      BY <1>2, <2>1, <2>3, <3>1 DEF OnlyWidened, ArgumentsAlike, InStep, FormalsOf, Actuals, Covers
  <2>4. CASE pc' \notin {"associate", "sort", "push"} /\ type' # type
    <3>1. MergePair
      BY <1>2, <2>4 DEF Next, Step, Associate, BeginSorting, NextRoot, Visit, PushUser,
            EndUsers, Leave, EndSorting, NextValue, EndRound, vars
    <3> QED
      BY <1>2, <2>1, <2>4, <3>1, MergeKeepsWidth
  <2> QED
    BY <2>1, <2>2, <2>3, <2>4
<1>3. IInv => OnlyWidened
  OBVIOUS
<1> QED
  BY <1>1, <1>2, <1>3, PTL DEF Spec


-----------------------------------------------------------------------------

(***************************************************************************)
(* The bits in front of the point are enough: 2^WholeBits(m) is larger     *)
(* than m.                                                                 *)
(***************************************************************************)
LEMMA WholeBitsEnough ==
    ASSUME NEW m \in Int, m < 2^MaxExponent * Unit
    PROVE  m + Unit <= 2^WholeBits(m) * Unit
<1> DEFINE S == {k \in 0..MaxExponent : 2^k * Unit < m + Unit}
           w == WholeBits(m)
<1>1. S \in SUBSET (0..MaxExponent) /\ w = Cardinality(S)
  BY DEF WholeBits
<1>2. ASSUME NEW i \in S, NEW j \in 0..MaxExponent, j < i
      PROVE  j \in S
  <2>1. 2^j <= 2^i /\ 2^j \in Nat /\ 2^i \in Nat
    BY <1>2, PowerGrows, PowerOfTwo
  <2>2. 2^j * Unit <= 2^i * Unit
    BY <2>1, BitsAssumption
  <2> QED
    BY <2>1, <2>2, BitsAssumption
<1> HIDE DEF w
<1>3. w \in 0..(MaxExponent + 1) /\ S = 0..(w - 1)
  <2>1. \A i \in S : \A j \in 0..MaxExponent : j < i => j \in S
    BY <1>2
  <2> HIDE DEF S
  <2> QED
    BY <1>1, <2>1, SegmentFromZero, BitsAssumption
<1>4. CASE w <= MaxExponent
  <2>1. w \notin S /\ w \in 0..MaxExponent
    <3> HIDE DEF S
    <3> QED
      BY <1>3, <1>4, BitsAssumption
  <2>2. ~(2^w * Unit < m + Unit) /\ 2^w \in Nat
    BY <2>1, PowerOfTwo
  <2> QED
    BY <2>2, BitsAssumption DEF w
<1>5. CASE w = MaxExponent + 1
  <2> DEFINE p == 2^MaxExponent
  <2>1. 2^w = 2 * p /\ p \in Nat \ {0}
    BY <1>5, PowerOfTwo, BitsAssumption
  <2> HIDE DEF p
  <2>2. m < p * Unit
    BY DEF p
  <2>3. Unit <= p * Unit /\ p * Unit \in Nat /\ (2 * p) * Unit = p * Unit + p * Unit
    BY <2>1, BitsAssumption
  <2>4. m + Unit <= (2 * p) * Unit
    BY <2>2, <2>3, BitsAssumption
  <2> QED
    BY <2>1, <2>4 DEF w
<1> QED
  BY <1>3, <1>4, <1>5, BitsAssumption

(***************************************************************************)
(* A type is enlarged until its bits in front of the point have room, if   *)
(* the largest size has it.                                                *)
(***************************************************************************)
LEMMA SizeForEnough ==
    ASSUME NEW intBits \in Nat, NEW zeroBits \in Nat, intBits <= MaxTotalBits
    PROVE  SizeFor(intBits, zeroBits) >= intBits
<1> DEFINE S == {n \in 1..MaxTotalBits : TooSmall(n * TotalBits, intBits, zeroBits)}
           c == Cardinality(S)
<1>1. c \in 0..MaxTotalBits /\ S = 1..c
  <2>1. ASSUME NEW i \in S, NEW j \in 1..MaxTotalBits, j < i
        PROVE  j \in S
    <3>1. j * TotalBits < i * TotalBits
      BY <2>1, BitsAssumption
    <3> QED
      BY <3>1, BitsAssumption DEF TooSmall
  <2>2. \A i \in S : \A j \in 1..MaxTotalBits : j < i => j \in S
    BY <2>1
  <2>3. S \in SUBSET (1..MaxTotalBits)
    OBVIOUS
  <2> HIDE DEF S
  <2> QED
    BY <2>2, <2>3, InitialSegment, BitsAssumption
<1> DEFINE size == TotalBits * (1 + c)
<1>2. SizeFor(intBits, zeroBits) = size
  BY DEF SizeFor
<1> HIDE DEF c
<1>3. size \in Nat /\ size = (c + 1) * TotalBits /\ size >= c + 1
  BY <1>1, BitsAssumption
<1>4. CASE c < MaxTotalBits
  <2>1. c + 1 \in 1..MaxTotalBits /\ c + 1 \notin S
    <3> HIDE DEF S
    <3> QED
      BY <1>1, <1>4, BitsAssumption
  <2>2. ~TooSmall(size, intBits, zeroBits)
    BY <2>1, <1>3
  <2> QED
    BY <1>2, <1>3, <2>2, BitsAssumption DEF TooSmall
<1>5. CASE c = MaxTotalBits
  BY <1>2, <1>3, <1>5, BitsAssumption
<1> QED
  BY <1>1, <1>4, <1>5, BitsAssumption

(***************************************************************************)
(* What an invariant can say of a type that holds a range: it has the sign *)
(* and enough bits in front of the point, wherever the point is.           *)
(***************************************************************************)
Fits(t, r) ==
    (r.lo < 0 => t.signed) /\ Magnitude(r) + Unit <= 2^IntBits(t) * Unit

Holdable(r) == r.finite /\ WholeBits(Magnitude(r)) + SignBit(r.lo < 0) <= MaxTotalBits

LEMMA RangeFields ==
    ASSUME NEW r \in RangeT
    PROVE  r.lo \in Int /\ r.hi \in Int /\ Magnitude(r) \in Int
           /\ -r.lo <= Magnitude(r) /\ r.hi <= Magnitude(r)
           /\ SignBit(r.lo < 0) \in {0, 1}
BY DEF RangeT, Magnitude, Larger, SignBit

\* A type that fits holds the range: what is cut off is less than a unit of
\* the last bit.
LEMMA FitsHolds ==
    ASSUME NEW r \in RangeT, NEW t \in TypeT, IntBits(t) >= 0, Fits(t, r)
    PROVE  Holds(t, r)
<1> DEFINE i == IntBits(t)
           f == t.frac
<1>1. i \in Nat /\ f \in Nat
  BY RecordFields
<1>2. 2^(i + f) = 2^i * 2^f /\ 2^i \in Nat /\ 2^f \in Nat \ {0}
  BY <1>1, PowerOfSum, PowerOfTwo
<1>3. ASSUME NEW a \in Nat, NEW b \in Nat \ {0}, NEW h \in Int, NEW u \in Nat \ {0},
             h + u <= a * u
      PROVE  h * b <= (a * b - 1) * u
  <2>1. (h + u) * b <= (a * u) * b
    <3>1. a * u \in Int
      OBVIOUS
    <3>2. ASSUME NEW x \in Int, NEW y \in Int, x <= y
          PROVE  x * b <= y * b
      BY <3>2
    <3> QED
      BY <1>3, <3>1, <3>2
  <2>2. (h + u) * b = h * b + u * b /\ (a * u) * b = (a * b) * u
    OBVIOUS
  <2>3. u <= u * b /\ (a * b - 1) * u = (a * b) * u - u
    OBVIOUS
  <2>4. h * b \in Int /\ u * b \in Int /\ (a * b) * u \in Int
    OBVIOUS
  <2> QED
    BY <2>1, <2>2, <2>3, <2>4
<1>4. Magnitude(r) + Unit <= 2^i * Unit
  BY DEF Fits
<1> HIDE DEF i, f
<1>5. r.hi + Unit <= 2^i * Unit /\ -r.lo <= 2^i * Unit
  <2>1. 2^i * Unit \in Int
    BY <1>2, BitsAssumption
  <2> QED
    BY <1>4, <2>1, RangeFields, BitsAssumption
<1>6. r.hi * 2^f <= (2^i * 2^f - 1) * Unit
  BY <1>2, <1>3, <1>5, RangeFields, BitsAssumption
<1> QED
  BY <1>2, <1>5, <1>6 DEF Holds, Fits, i, f

\* What is as wide as a type that fits does so too.
LEMMA FitsWider ==
    ASSUME NEW r \in RangeT, NEW t \in TypeT, NEW u \in TypeT,
           IntBits(u) >= 0, Fits(u, r), AsWide(t, u)
    PROVE  Fits(t, r)
<1>1. IntBits(u) \in Nat /\ IntBits(t) \in Nat /\ IntBits(u) <= IntBits(t)
  BY RecordFields DEF AsWide
<1>2. 2^IntBits(u) <= 2^IntBits(t) /\ 2^IntBits(u) \in Nat /\ 2^IntBits(t) \in Nat
  BY <1>1, PowerGrows, PowerOfTwo
<1>3. 2^IntBits(u) * Unit <= 2^IntBits(t) * Unit
  BY <1>2, BitsAssumption
<1>4. Magnitude(r) + Unit <= 2^IntBits(t) * Unit
  <2>1. 2^IntBits(u) * Unit \in Int /\ 2^IntBits(t) * Unit \in Int
    BY <1>2, BitsAssumption
  <2> QED
    BY <1>3, <2>1, RangeFields, BitsAssumption DEF Fits
<1> QED
  BY <1>4 DEF Fits, AsWide

(***************************************************************************)
(* fixedPointTypeFromRange chooses a type that fits, where there is one.   *)
(***************************************************************************)
LEMMA TypeForFits ==
    ASSUME NEW r \in RangeT, NEW t \in TypeFor(r), Holdable(r),
           Magnitude(r) < 2^MaxExponent * Unit
    PROVE  Fits(t, r)
<1> DEFINE whole == WholeBits(Magnitude(r))
           sign == SignBit(r.lo < 0)
           intBits == whole + sign
<1>1. whole \in Nat /\ sign \in {0, 1} /\ intBits \in Nat /\ intBits <= MaxTotalBits
  BY WholeBitsType, RangeFields DEF Holdable
<1>2. PICK z \in ZeroBits(Magnitude(r)) :
         LET size == SizeFor(intBits, z)
         IN  t = [width |-> size,
                  frac |-> IF size - intBits < FracThreshold THEN 0 ELSE size - intBits,
                  signed |-> r.lo < 0]
  BY DEF TypeFor, Holdable
<1> DEFINE size == SizeFor(intBits, z)
<1>3. size \in Nat \ {0} /\ size >= intBits
  BY <1>1, RangeFields, ZeroBitsType, SizeForType, SizeForEnough
<1>4. /\ t.width = size /\ t.signed = (r.lo < 0)
      /\ t.frac = IF size - intBits < FracThreshold THEN 0 ELSE size - intBits
  BY <1>2
<1>5. Magnitude(r) + Unit <= 2^whole * Unit
  BY WholeBitsEnough, RangeFields
<1> HIDE DEF size, whole
<1>6. IntBits(t) = size - t.frac - sign
  BY <1>4 DEF IntBits
<1> HIDE DEF sign
<1>7. IntBits(t) \in Nat /\ whole <= IntBits(t)
  BY <1>1, <1>3, <1>4, <1>6, BitsAssumption
<1>8. 2^whole <= 2^IntBits(t) /\ 2^whole \in Nat /\ 2^IntBits(t) \in Nat
  BY <1>1, <1>7, PowerGrows, PowerOfTwo
<1>9. 2^whole * Unit <= 2^IntBits(t) * Unit /\ 2^whole * Unit \in Int
      /\ 2^IntBits(t) * Unit \in Int
  BY <1>8, BitsAssumption
<1>10. Magnitude(r) + Unit <= 2^IntBits(t) * Unit
  BY <1>5, <1>9, RangeFields, BitsAssumption
<1> QED
  BY <1>4, <1>10 DEF Fits

(***************************************************************************)
(* The inductive invariant: the type of a value fits its range, the one it *)
(* began with too; a value with a range has a type as soon as the values   *)
(* in front of it have been met.                                           *)
(***************************************************************************)
HoldableRange(v) == prog.range[v] # NoRange /\ Holdable(prog.range[v])
Fitting(f) == \A v \in Value : HoldableRange(v) /\ f[v] \in TypeT => Fits(f[v], prog.range[v])
Associated ==
    IF pc = "associate"
    THEN \A i \in 1..Len(prog.order) :
            i < next /\ prog.range[prog.order[i]] # NoRange => HasInfo(prog.order[i])
    ELSE \A v \in Value : prog.range[v] # NoRange => HasInfo(v)
RangesFit == CallsCloned(prog) => Fitting(type) /\ Fitting(initial)

\* The types fit, so they hold the ranges.
LEMMA RangesFitHold ==
    ASSUME Typing, RangesFit
    PROVE  RangesHeld
<1> SUFFICES ASSUME CallsCloned(prog), NEW v \in Value,
                    prog.range[v] # NoRange, type[v] \notin {NoInfo, NoType},
                    Holdable(prog.range[v])
             PROVE  Holds(type[v], prog.range[v])
  BY DEF RangesHeld, Holdable
<1>1. type[v] \in TypeT /\ IntBits(type[v]) >= 0
  BY DEF Typing, TypeOK, Typed, IntBitsCounted
<1>2. prog.range[v] \in RangeT
  BY ProgramTyping
<1>3. Fits(type[v], prog.range[v])
  BY <1>1 DEF RangesFit, Fitting, HoldableRange
<1> QED
  BY <1>1, <1>2, <1>3, FitsHolds

\* A value that is associated with its type.
LEMMA AssociateFits ==
    ASSUME Typing, RangesFit, Associated, Associate
    PROVE  RangesFit' /\ Associated'
<1> DEFINE v == prog.order[next]
<1>1. v \in Value /\ next \in 1..Len(prog.order) /\ next' = next + 1
      /\ pc = "associate" /\ pc' = pc /\ prog' = prog
  <2>1. next \in 1..Len(prog.order)
    BY DEF Associate, Typing, TypeOK
  <2> QED
    BY <2>1, ProgramTyping DEF Associate
<1>2. ASSUME \A w \in Value : type[w] # NoInfo => type'[w] # NoInfo,
             prog.range[v] # NoRange => type'[v] # NoInfo
      PROVE  Associated'
  <2> SUFFICES ASSUME NEW i \in 1..Len(prog.order), i < next + 1,
                      prog.range[prog.order[i]] # NoRange
               PROVE  type'[prog.order[i]] # NoInfo
    BY <1>1 DEF Associated, HasInfo
  <2>1. prog.order[i] \in Value
    BY ProgramTyping
  <2>2. CASE i < next
    BY <1>1, <1>2, <2>1, <2>2 DEF Associated, HasInfo
  <2>3. CASE i = next
    BY <1>2, <2>3
  <2> QED
    BY <1>1, <2>2, <2>3
<1>3. CASE prog.range[v] = NoRange
  <2>1. UNCHANGED <<type, initial>>
    BY <1>3 DEF Associate
  <2> QED
    BY <1>1, <1>2, <1>3, <2>1 DEF HasInfo, RangesFit, Fitting, HoldableRange, CallsCloned
<1>4. CASE prog.range[v] # NoRange
  <2>1. PICK t \in IF prog.kind[v] = "struct" THEN {NoType} ELSE TypeFor(prog.range[v]) :
            /\ type' = [type EXCEPT ![v] = t]
            /\ initial' = [initial EXCEPT ![v] = t]
    BY <1>4 DEF Associate
  <2>2. prog.range[v] \in RangeT
    BY <1>1, <1>4, ProgramTyping
  <2>3. t \in Typed /\ t # NoInfo
    BY <2>1, <2>2, TypeForType, NothingAssumption DEF Typed
  <2>4. \A w \in Value : /\ type'[w] = (IF w = v THEN t ELSE type[w])
                         /\ initial'[w] = (IF w = v THEN t ELSE initial[w])
    BY <1>1, <2>1 DEF Typing, TypeOK
  <2>5. HoldableRange(v) /\ t \in TypeT => Fits(t, prog.range[v])
    <3> SUFFICES ASSUME HoldableRange(v), t \in TypeT
                 PROVE  Fits(t, prog.range[v])
      OBVIOUS
    <3>1. t \in TypeFor(prog.range[v])
      BY <2>1, NothingAssumption
    <3>2. Magnitude(prog.range[v]) < 2^MaxExponent * Unit
      BY <1>1, <1>4, ProgramAssumption DEF Typing, HoldableRange, Holdable
    <3> QED
      BY <2>2, <3>1, <3>2, TypeForFits DEF HoldableRange
  <2>6. RangesFit'
    BY <1>1, <2>4, <2>5 DEF RangesFit, Fitting, HoldableRange, CallsCloned
  <2>7. \A w \in Value : type[w] # NoInfo => type'[w] # NoInfo
    BY <2>3, <2>4
  <2>8. type'[v] # NoInfo
    BY <1>1, <2>3, <2>4
  <2>9. Associated'
    BY <1>2, <2>7, <2>8
  <2> QED
    BY <2>6, <2>9
<1> QED
  BY <1>3, <1>4

\* All values have been met.
LEMMA BeginSortingFits ==
    ASSUME Typing, Associated, BeginSorting
    PROVE  Associated'
<1> SUFFICES ASSUME NEW v \in Value, prog.range[v] # NoRange
             PROVE  HasInfo(v)
  BY DEF BeginSorting, Associated, HasInfo
<1>1. v \in ToSet(prog.order)
  BY ProgramAssumption DEF Typing
<1>2. PICK i \in 1..Len(prog.order) : prog.order[i] = v
  BY <1>1, ProgramTyping DEF ToSet
<1>3. i < next
  BY ProgramTyping DEF BeginSorting, Typing, TypeOK
<1> QED
  BY <1>2, <1>3 DEF Associated, BeginSorting

\* A value without a range is given a type.
LEMMA PushFits ==
    ASSUME Typing, RangesFit, Associated, PushUser
    PROVE  RangesFit' /\ Associated'
<1> DEFINE u == prog.users[cur][use]
           t == Inherited(u, cur)
<1>1. cur \in Value /\ HasInfo(cur)
  BY DEF PushUser, Typing, TypeOK, Informed
<1>2. u \in Value
  <2>1. use \in 1..Len(prog.users[cur])
    BY DEF PushUser, Typing, TypeOK
  <2> QED
    BY <1>1, <2>1, ProgramTyping
<1>3. prog' = prog /\ pc = "push" /\ pc' = "push"
  BY DEF PushUser
<1>4. CASE u \in prog.enabled /\ ~HasInfo(u)
  <2>1. type' = [type EXCEPT ![u] = t] /\ initial' = [initial EXCEPT ![u] = t]
    BY <1>4 DEF PushUser
  <2>2. \A w \in Value : w # u => type'[w] = type[w] /\ initial'[w] = initial[w]
    BY <2>1 DEF Typing, TypeOK
  <2>3. prog.range[u] = NoRange
    BY <1>2, <1>3, <1>4 DEF Associated
  <2>4. RangesFit'
    BY <1>3, <2>2, <2>3 DEF RangesFit, Fitting, HoldableRange, CallsCloned
  <2>5. Associated'
    BY <1>3, <2>2, <2>3 DEF Associated, HasInfo
  <2> QED
    BY <2>4, <2>5
<1>5. CASE ~(u \in prog.enabled /\ ~HasInfo(u))
  <2>1. UNCHANGED <<type, initial>>
    BY <1>5 DEF PushUser
  <2> QED
    BY <1>3, <2>1 DEF RangesFit, Fitting, HoldableRange, CallsCloned, Associated, HasInfo
<1> QED
  BY <1>4, <1>5

\* What a merge gives to a pair and to the values kept in step with it fits
\* their ranges, because it is as wide as what fitted.
LEMMA MergeFits ==
    ASSUME Typing, RangesFit, MergePair, type' # type
    PROVE  RangesFit'
<1>1. initial' = initial /\ prog' = prog
  BY DEF MergePair
<1> SUFFICES ASSUME CallsCloned(prog), NEW w \in Value, HoldableRange(w), type'[w] \in TypeT
             PROVE  Fits(type'[w], prog.range[w])
  BY <1>1 DEF RangesFit, Fitting, HoldableRange, CallsCloned
<1>2. Fitting(type) /\ Fitting(initial)
  BY DEF RangesFit
<1>3. prog.range[w] \in RangeT
  BY ProgramTyping DEF HoldableRange
<1>4. PICK v \in Value, u \in Value : \E t \in Merge(Base(v), Base(u)) :
              /\ {type[v], type[u], Base(v), Base(u)} \subseteq TypeT
              /\ \A x \in Value : type'[x] # type[x] =>
                    type'[x] = t /\ HasInfo(x) /\ x \in InStep(v) \cup InStep(u)
              /\ DOMAIN type' = Value
              /\ type' = [x \in Value |-> type'[x]]
  BY MergePairTypes
<1>5. PICK t \in Merge(Base(v), Base(u)) :
              /\ {type[v], type[u], Base(v), Base(u)} \subseteq TypeT
              /\ \A x \in Value : type'[x] # type[x] =>
                    type'[x] = t /\ HasInfo(x) /\ x \in InStep(v) \cup InStep(u)
  BY <1>4
<1>6. CASE type'[w] = type[w]
  BY <1>2, <1>6 DEF Fitting
<1>7. CASE type'[w] # type[w]
  <2>1. type'[w] = t /\ w \in InStep(v) \cup InStep(u)
    BY <1>5, <1>7
  <2>2. IntBits(Base(v)) >= 0 /\ IntBits(Base(u)) >= 0
    BY <1>5 DEF Base, Typing, TypeOK, IntBitsCounted
  <2>3. t \in TypeT /\ AsWide(t, Base(v)) /\ AsWide(t, Base(u))
    BY <1>5, <2>2, MergeWidens
  <2>4. ASSUME NEW x \in {v, u}, w \in InStep(x)
        PROVE  Fits(t, prog.range[w])
    <3>1. prog.range[x] = prog.range[w]
      BY <2>4 DEF CallsCloned, InStep, FormalsOf, Actuals
    <3>2. HoldableRange(x) /\ Base(x) \in TypeT /\ IntBits(Base(x)) >= 0 /\ AsWide(t, Base(x))
      BY <1>5, <2>2, <2>3, <3>1 DEF HoldableRange
    <3>3. Fits(Base(x), prog.range[x])
      BY <1>2, <3>2 DEF Fitting, Base
    <3> QED
      BY <1>3, <2>3, <3>1, <3>2, <3>3, FitsWider
  <2> QED
    BY <2>1, <2>4
<1> QED
  BY <1>6, <1>7

(***************************************************************************)
(* Every type chosen for a range, merged or restored holds the range, for  *)
(* every program, where calls keep in step what has the same range.        *)
(***************************************************************************)
THEOREM RangesStayHeld == Spec => []RangesHeld
<1> DEFINE IInv == Typing /\ Unmerged /\ RangesFit /\ Associated
<1>1. Init => IInv
  <2> SUFFICES ASSUME Init PROVE IInv
    OBVIOUS
  <2>1. Typing /\ Unmerged
    BY InitTyping
  <2>2. \A v \in Value : type[v] \notin TypeT /\ initial[v] \notin TypeT
    BY NothingAssumption DEF Init
  <2>3. RangesFit
    BY <2>2 DEF RangesFit, Fitting
  <2>4. pc = "associate" /\ next = 1
    BY DEF Init
  <2>5. Associated
    BY <2>4 DEF Associated
  <2> QED
    BY <2>1, <2>3, <2>5
<1>2. ASSUME IInv, [Next]_vars PROVE IInv'
  <2>1. Typing' /\ Unmerged'
    BY <1>2, StepTyping
  <2>2. CASE Associate
    BY <1>2, <2>1, <2>2, AssociateFits
  <2>3. CASE PushUser
    BY <1>2, <2>1, <2>3, PushFits
  <2>4. CASE BeginSorting
    <3>1. UNCHANGED <<prog, type, initial>>
      BY <2>4 DEF BeginSorting
    <3>2. RangesFit'
      BY <1>2, <3>1 DEF RangesFit, Fitting, HoldableRange, CallsCloned
    <3> QED
      BY <1>2, <2>1, <2>4, <3>2, BeginSortingFits
  <2>5. CASE MergePair /\ type' # type
    <3>1. RangesFit'
      BY <1>2, <2>5, MergeFits
    <3>2. pc = "merge" /\ pc' = "merge" /\ prog' = prog
      BY <2>5 DEF MergePair
    <3>3. \A v \in Value : HasInfo(v) => HasInfo(v)'
      <4>1. \A v \in Value : type'[v] # type[v] => type'[v] \in TypeT
        <5>1. \A v \in Value : type'[v] \in Typed \cup {NoInfo}
          BY <2>1 DEF Typing, TypeOK
        <5>2. PICK v \in Value, u \in Value : \E t \in Merge(Base(v), Base(u)) :
              /\ {type[v], type[u], Base(v), Base(u)} \subseteq TypeT
              /\ \A w \in Value : type'[w] # type[w] =>
                    type'[w] = t /\ HasInfo(w) /\ w \in InStep(v) \cup InStep(u)
          BY <1>2, <2>5, MergePairTypes
        <5>3. IntBits(Base(v)) >= 0 /\ IntBits(Base(u)) >= 0
          BY <1>2, <5>2 DEF Base, Typing, TypeOK, IntBitsCounted
        <5> QED
          BY <5>2, <5>3, MergeWidens
      <4> QED
        BY <4>1, NothingAssumption DEF HasInfo
    <3>4. Associated'
      BY <1>2, <3>2, <3>3 DEF Associated
    <3> QED
      BY <2>1, <3>1, <3>4
  <2>6. CASE \/ NextRoot \/ Visit \/ EndUsers \/ Leave \/ EndSorting
             \/ (MergePair /\ type' = type) \/ NextValue \/ EndRound \/ UNCHANGED vars
    <3>1. UNCHANGED <<prog, type, initial>>
      BY <2>6 DEF NextRoot, Visit, EndUsers, Leave, EndSorting, MergePair, NextValue,
                  EndRound, vars
    <3>2. pc' = "associate" <=> pc = "associate"
      BY <2>6 DEF NextRoot, Visit, EndUsers, Leave, EndSorting, MergePair, NextValue,
                  EndRound, vars
    <3>3. pc = "associate" => next' = next
      BY <2>6 DEF NextRoot, Visit, EndUsers, Leave, EndSorting, MergePair, NextValue,
                  EndRound, vars, loops
    <3>4. RangesFit'
      BY <1>2, <3>1 DEF RangesFit, Fitting, HoldableRange, CallsCloned
    <3>5. Associated'
      BY <1>2, <3>1, <3>2, <3>3 DEF Associated, HasInfo
    <3> QED
      BY <2>1, <3>4, <3>5
  <2> QED
    BY <1>2, <2>2, <2>3, <2>4, <2>5, <2>6 DEF Next, Step
<1>3. IInv => RangesHeld
  BY RangesFitHold
<1> QED
  BY <1>1, <1>2, <1>3, PTL DEF Spec

-----------------------------------------------------------------------------

(***************************************************************************)
(* A formal argument that ArgumentsAgree speaks of, with the values passed *)
(* for it: what is restored for one of them is all of them, and nothing    *)
(* else is restored to any of them.                                        *)
(***************************************************************************)
Passing(x) == {x} \cup Actuals(x)

LEMMA PassingClosed ==
    ASSUME Typing, NEW x \in Value, PassedOnce(x), NEW w \in Value
    PROVE  /\ Passing(x) \subseteq Value
           /\ w \in Passing(x) => Passing(x) \subseteq Restored(w) \cup {w}
           /\ w \notin Passing(x) => Restored(w) \cap Passing(x) = {}
<1>1. prog.calls \subseteq Value \X prog.args /\ prog.args \subseteq Value
  BY ProgramAssumption DEF Typing
<1>2. Passing(x) \subseteq Value
  BY <1>1 DEF Passing, Actuals
<1>3. \A a, y : a \in Actuals(y) <=> y \in FormalsOf(a)
  BY <1>1 DEF Actuals, FormalsOf
<1>4. CASE w = x
  <2>1. Restored(w) = Actuals(x)
    BY <1>4 DEF Restored, PassedOnce
  <2> QED
    BY <1>2, <1>4, <2>1 DEF Passing
<1>5. CASE w \in Actuals(x)
  <2>1. ~IsFormal(w) /\ {y \in FormalsOf(w) : HasInfo(y)} = {x}
    BY <1>5 DEF PassedOnce
  <2>2. Restored(w) = {x} \cup Actuals(x)
    BY <2>1 DEF Restored
  <2> QED
    BY <1>2, <1>5, <2>2 DEF Passing
<1>6. CASE w \notin Passing(x)
  <2> SUFFICES ASSUME NEW a \in Passing(x), a \in Restored(w)
               PROVE  FALSE
    BY <1>2, <1>6
  <2>1. x \notin FormalsOf(w) /\ w # x
    BY <1>3, <1>6 DEF Passing
  <2>2. \A y : a \in Actuals(y) => y = x
    BY <1>3 DEF Passing, PassedOnce
  <2>3. CASE IsFormal(w)
    BY <2>1, <2>2, <2>3 DEF Restored
  <2>4. CASE ~IsFormal(w)
    <3>1. PICK y \in FormalsOf(w) : a = y \/ a \in Actuals(y)
      BY <2>4 DEF Restored
    <3>2. w \in Actuals(y)
      BY <1>3, <3>1
    <3>3. a # y
      <4>1. IsFormal(y)
        BY <1>1 DEF FormalsOf, IsFormal
      <4> QED
        BY <2>1, <3>1, <4>1 DEF Passing, PassedOnce
    <3> QED
      BY <2>1, <2>2, <3>1, <3>3
  <2> QED
    BY <2>3, <2>4
<1> QED
  BY <1>4, <1>5, <1>6 DEF Passing

\* A merge gives the same type to a formal argument and all that is passed
\* for it, or leaves them alone.
LEMMA MergeAgrees ==
    ASSUME Typing, ArgumentsAgree, MergePair, type' # type
    PROVE  ArgumentsAgree'
<1> DEFINE v == vals[next]
           u == prog.users[v][use]
<1>1. v \in Value /\ u \in Value
  <2>1. next \in 1..Len(vals) /\ vals \in Seq(Informed)
    BY DEF MergePair, Typing, TypeOK
  <2>2. v \in Informed
    BY <2>1
  <2>3. use \in 1..Len(prog.users[v])
    BY DEF MergePair, Typing, TypeOK
  <2> QED
    BY <2>2, <2>3, ProgramTyping DEF Informed
<1>2. PICK t \in Merged(v, u) :
         type' = Restore(Restore([type EXCEPT ![v] = t, ![u] = t], v), u)
  BY DEF MergePair
<1> DEFINE f == [type EXCEPT ![v] = t, ![u] = t]
           g == Restore(f, v)
<1>3. \A w \in Value : f[w] = IF w \in {v, u} THEN t ELSE type[w]
  BY <1>1 DEF Typing, TypeOK
<1>4. type' = Restore(g, u)
  BY <1>2
<1>5. UNCHANGED <<prog, pc, initial>> /\ pc = "merge"
  BY DEF MergePair
<1> HIDE DEF f, v, u
<1>6. \A w \in Value : g[w] = IF w \in Restored(v) /\ HasInfo(w) THEN t ELSE f[w]
  BY <1>1, <1>3 DEF Restore
<1> HIDE DEF g
<1>7. g[u] = t
  BY <1>1, <1>3, <1>6
<1>8. \A w \in Value : type'[w] = IF w \in Restored(u) /\ HasInfo(w) THEN t ELSE g[w]
  BY <1>1, <1>4, <1>7 DEF Restore
<1>9. \A w \in Value : ~HasInfo(w) /\ w \notin {v, u} => type'[w] = type[w]
  BY <1>3, <1>6, <1>8
<1>10. HasInfo(v) /\ HasInfo(u)
  <2>1. next \in 1..Len(vals) /\ vals \in Seq(Informed)
    BY DEF MergePair, Typing, TypeOK
  <2>2. v \in Informed
    BY <2>1 DEF v
  <2>3. u \in ToSet(vals)
    BY <1>2, <1>4, <1>1 DEF MergePair, v, u
  <2> QED
    BY <2>1, <2>2, <2>3 DEF ToSet, Informed
<1>11. SUFFICES ASSUME NEW x \in Value, PassedOnce(x)', NEW a \in Actuals(x)
                PROVE  type'[a] = type'[x]
  BY <1>5 DEF ArgumentsAgree, PassedOnce, Actuals
<1>12. PassedOnce(x)
  <2>1. \A w \in Value : HasInfo(w)' => HasInfo(w)
    BY <1>9, <1>10 DEF HasInfo
  <2>2. Actuals(x) \subseteq Value
    BY ProgramAssumption DEF Typing, Actuals
  <2> QED
    BY <1>5, <1>11, <2>1, <2>2 DEF PassedOnce, IsFormal, FormalsOf, Actuals
<1>13. x \in Passing(x) /\ a \in Passing(x) /\ a \in Value /\ HasInfo(a) /\ HasInfo(x)
  BY <1>11, <1>12, PassingClosed DEF Passing, PassedOnce
<1>14. type[a] = type[x]
  BY <1>5, <1>11, <1>12 DEF ArgumentsAgree, PassedOnce
<1>15. CASE u \in Passing(x)
  <2>1. Passing(x) \subseteq Restored(u) \cup {u}
    BY <1>1, <1>12, <1>15, PassingClosed
  <2>2. type'[u] = t
    BY <1>1, <1>7, <1>8
  <2> QED
    BY <1>8, <1>13, <2>1, <2>2
<1>16. CASE u \notin Passing(x) /\ v \in Passing(x)
  <2>1. Passing(x) \subseteq Restored(v) \cup {v} /\ Restored(u) \cap Passing(x) = {}
    BY <1>1, <1>12, <1>16, PassingClosed
  <2>2. g[v] = t
    BY <1>1, <1>3, <1>6
  <2> QED
    BY <1>6, <1>8, <1>13, <2>1, <2>2
<1>17. CASE u \notin Passing(x) /\ v \notin Passing(x)
  <2>1. Restored(v) \cap Passing(x) = {} /\ Restored(u) \cap Passing(x) = {}
    BY <1>1, <1>12, <1>17, PassingClosed
  <2> QED
    BY <1>3, <1>6, <1>8, <1>13, <1>14, <1>17, <2>1
<1> QED
  BY <1>15, <1>16, <1>17

(***************************************************************************)
(* Whatever is merged, a formal argument keeps the type of the values that *)
(* are passed for it, if they began with the same.                         *)
(***************************************************************************)
THEOREM ArgumentsStayAlike == Spec => []ArgumentsAgree
<1> DEFINE IInv == Typing /\ Unmerged /\ ArgumentsAgree
<1>1. Init => IInv
  BY InitTyping DEF Init, ArgumentsAgree
<1>2. ASSUME IInv, [Next]_vars PROVE IInv'
  <2>1. Typing' /\ Unmerged'
    BY <1>2, StepTyping
  <2>2. CASE Associate \/ BeginSorting \/ NextRoot \/ Visit \/ PushUser \/ EndUsers \/ Leave
    BY <2>1, <2>2 DEF Associate, BeginSorting, NextRoot, Visit, PushUser, EndUsers, Leave,
                      ArgumentsAgree
  <2>3. CASE EndSorting
    <3>1. \A v \in Value : SameType(v)
      BY <1>2, <2>3 DEF EndSorting, Unmerged
    <3>2. UNCHANGED <<prog, type, initial>>
      BY <2>3 DEF EndSorting
    <3>3. \A x \in Value : Actuals(x) \subseteq Value
      BY <1>2, ProgramAssumption DEF Typing, Actuals
    <3>4. \A v \in Value : HasInfo(v) => type[v] = initial[v]
      BY <3>1 DEF SameType
    <3>5. \A x \in Value : PassedOnce(x) => \A a \in Actuals(x) : type[a] = type[x]
      BY <3>3, <3>4 DEF PassedOnce
    <3>6. \A x \in Value : PassedOnce(x)' = PassedOnce(x) /\ Actuals(x)' = Actuals(x)
      BY <3>2 DEF PassedOnce, IsFormal, FormalsOf, Actuals, HasInfo
    <3>7. ArgumentsAgree'
      BY <3>2, <3>5, <3>6 DEF ArgumentsAgree
    <3> QED
      BY <2>1, <3>7
  <2>4. CASE MergePair /\ type' # type
    BY <1>2, <2>1, <2>4, MergeAgrees
  <2>5. CASE (MergePair /\ type' = type) \/ NextValue \/ EndRound \/ UNCHANGED vars
    <3>1. UNCHANGED <<prog, type, initial>>
      BY <2>5 DEF MergePair, NextValue, EndRound, vars
    <3>2. pc' \in {"merge", "done"} => pc \in {"merge", "done"}
      BY <2>5 DEF MergePair, NextValue, EndRound, vars
    <3>3. ArgumentsAgree'
      BY <1>2, <3>1, <3>2 DEF ArgumentsAgree, PassedOnce, IsFormal, FormalsOf, Actuals, HasInfo
    <3> QED
      BY <2>1, <3>3
  <2> QED
    BY <1>2, <2>2, <2>3, <2>4, <2>5 DEF Next, Step
<1>3. IInv => ArgumentsAgree
  OBVIOUS
<1> QED
  BY <1>1, <1>2, <1>3, PTL DEF Spec

-----------------------------------------------------------------------------

(***************************************************************************)
(* ReachedFrom(p, V) is the least set with V that is closed under users.   *)
(***************************************************************************)
ClosedIn(p, S) == \A v \in S : Users(p, v) \subseteq S

LEMMA UsersAreValues ==
    ASSUME NEW p \in Programs, NEW v \in Value
    PROVE  Users(p, v) \subseteq Value
<1>1. p.users[v] \in Seq(Value)
  BY ProgramAssumption
<1> QED
  BY <1>1 DEF Users, ToSet

\* One more step of the search in a set of values.
Further(p, S) == S \cup UNION {Users(p, v) : v \in S}

LEMMA FurtherFacts ==
    ASSUME NEW p \in Programs, NEW S \in SUBSET Value
    PROVE  /\ Further(p, S) \in SUBSET Value /\ S \subseteq Further(p, S)
           /\ Further(p, S) = S <=> ClosedIn(p, S)
           /\ \A T : S \subseteq T /\ ClosedIn(p, T) => Further(p, S) \subseteq T
BY UsersAreValues DEF Further, ClosedIn

\* The recursion in ReachedFrom has a value.
LEMMA ReachedByRounds ==
    ASSUME NEW p \in Programs, NEW V \in SUBSET Value
    PROVE  \E reach : /\ reach[0] = V
                      /\ \A n \in 1..Cardinality(Value) : reach[n] = Further(p, reach[n - 1])
                      /\ ReachedFrom(p, V) = reach[Cardinality(Value)]
<1> DEFINE K == Cardinality(Value)
           Eq(f) == f = [n \in 0..K |-> IF n = 0 THEN V ELSE Further(p, f[n - 1])]
           G == [n \in 1..K |-> [S \in SUBSET Value |-> Further(p, S)]]
           reach == CHOOSE f : Eq(f)
<1>1. K \in Nat
  BY ValueAssumption, FS_CardinalityType
<1>2. G \in [1..K -> [SUBSET Value -> SUBSET Value]]
  BY FurtherFacts
<1> HIDE DEF K
<1>3. PICK f \in [0..K -> SUBSET Value] : f[0] = V /\ \A i \in 1..K : f[i] = G[i][f[i-1]]
  <2> DEFINE A == SUBSET Value
  <2>1. V \in A /\ K \in Nat /\ G \in [1..K -> [A -> A]]
    BY <1>1, <1>2
  <2> HIDE DEF G, A
  <2>2. \E f \in [0..K -> A] : f[0] = V /\ \A i \in 1..K : f[i] = G[i][f[i-1]]
    BY <2>1, IterationExists
  <2> QED
    BY <2>2 DEF A
<1>4. Eq(f)
  <2>1. \A n \in 1..K : f[n] = Further(p, f[n - 1])
    <3> SUFFICES ASSUME NEW n \in 1..K
                 PROVE  f[n] = Further(p, f[n - 1])
      OBVIOUS
    <3>1. n - 1 \in 0..K /\ f[n - 1] \in SUBSET Value /\ f[n] = G[n][f[n - 1]]
      <4> HIDE DEF G
      <4> QED
        BY <1>1, <1>3
    <3> QED
      BY <3>1
  <2>2. \A n \in 0..K : f[n] = IF n = 0 THEN V ELSE Further(p, f[n - 1])
    BY <1>1, <1>3, <2>1
  <2> QED
    BY <1>3, <2>2
<1>5. Eq(reach)
  <2> HIDE DEF Eq
  <2> QED
    BY <1>4, Zenon
<1>6. ReachedFrom(p, V) = reach[K]
  BY Zenon DEF ReachedFrom, Further, K
<1> HIDE DEF reach
<1>7. reach[0] = V /\ \A n \in 1..K : reach[n] = Further(p, reach[n - 1])
  BY <1>1, <1>5
<1> QED
  BY <1>6, <1>7 DEF K

LEMMA ReachedLeast ==
    ASSUME NEW p \in Programs, NEW V \in SUBSET Value
    PROVE  /\ V \subseteq ReachedFrom(p, V) /\ ReachedFrom(p, V) \subseteq Value
           /\ ClosedIn(p, ReachedFrom(p, V))
           /\ \A T : V \subseteq T /\ ClosedIn(p, T) => ReachedFrom(p, V) \subseteq T
<1> DEFINE K == Cardinality(Value)
<1>0. K \in Nat
  BY ValueAssumption, FS_CardinalityType
<1>1. PICK reach : /\ reach[0] = V
                   /\ \A n \in 1..K : reach[n] = Further(p, reach[n - 1])
                   /\ ReachedFrom(p, V) = reach[K]
  BY ReachedByRounds
<1> HIDE DEF K
<1> DEFINE S == {n \in 0..K : /\ V \subseteq reach[n] /\ reach[n] \in SUBSET Value
                              /\ ClosedIn(p, reach[n]) \/ Cardinality(reach[n]) > n}
<1>2. 0 \in S
  <2>1. ClosedIn(p, V) \/ V # {}
    BY DEF ClosedIn
  <2>2. IsFiniteSet(V) /\ Cardinality(V) \in Nat
    BY ValueAssumption, FS_Subset, FS_CardinalityType
  <2>3. V # {} => Cardinality(V) > 0
    BY <2>2, FS_EmptySet
  <2> QED
    BY <1>0, <1>1, <2>1, <2>3
<1>3. ASSUME NEW n \in 0..K, n < K, n \in S
      PROVE  n + 1 \in S
  <2>1. reach[n + 1] = Further(p, reach[n])
    <3>1. n + 1 \in 1..K /\ (n + 1) - 1 = n
      BY <1>0, <1>3
    <3> QED
      BY <1>1, <3>1
  <2> DEFINE X == reach[n]
             Y == reach[n + 1]
  <2>2. X \in SUBSET Value /\ V \subseteq X
    BY <1>3
  <2>3. Y \in SUBSET Value /\ X \subseteq Y /\ (Y = X <=> ClosedIn(p, X))
    BY <2>1, <2>2, FurtherFacts
  <2>4. CASE ClosedIn(p, X)
    <3>1. Y = X
      BY <2>3, <2>4
    <3> QED
      BY <1>0, <1>3, <2>2, <2>4, <3>1
  <2>5. CASE ~ClosedIn(p, X)
    <3>1. Cardinality(X) > n
      BY <1>3, <2>5
    <3>2. IsFiniteSet(Y) /\ Cardinality(Y) \in Nat
      BY <2>3, ValueAssumption, FS_Subset, FS_CardinalityType
    <3>3. Cardinality(X) \in Nat /\ Cardinality(X) < Cardinality(Y)
      <4>1. IsFiniteSet(X) /\ Cardinality(X) <= Cardinality(Y) /\ (Cardinality(X) = Cardinality(Y) => X = Y)
        BY <2>3, <3>2, FS_Subset
      <4>2. Cardinality(X) \in Nat
        BY <4>1, FS_CardinalityType
      <4> QED
        BY <2>3, <2>5, <3>2, <4>1, <4>2
    <3>4. Cardinality(Y) > n + 1
      BY <1>0, <3>1, <3>2, <3>3
    <3> QED
      BY <1>0, <1>3, <2>2, <2>3, <3>4
  <2> QED
    BY <2>4, <2>5
<1>4. K \in S
  <2>1. \A n \in 0..K : n < K /\ n \in S => n + 1 \in S
    BY <1>3
  <2> HIDE DEF S
  <2>2. 0..K \subseteq S
    BY <1>0, <1>2, <2>1, InductionUpTo
  <2> QED
    BY <1>0, <2>2
<1>5. ClosedIn(p, reach[K])
  <2>1. IsFiniteSet(reach[K]) /\ Cardinality(reach[K]) <= K
    BY <1>4, ValueAssumption, FS_Subset DEF K
  <2>2. Cardinality(reach[K]) \in Nat
    BY <2>1, FS_CardinalityType
  <2> QED
    BY <1>0, <1>4, <2>1, <2>2
<1>6. ASSUME NEW T, V \subseteq T, ClosedIn(p, T)
      PROVE  reach[K] \subseteq T
  <2> DEFINE Q == {n \in 0..K : reach[n] \in SUBSET Value /\ reach[n] \subseteq T}
  <2>1. 0 \in Q
    BY <1>0, <1>1, <1>6
  <2>2. ASSUME NEW n \in 0..K, n < K, n \in Q
        PROVE  n + 1 \in Q
    <3>1. reach[n + 1] = Further(p, reach[n])
      <4>1. n + 1 \in 1..K /\ (n + 1) - 1 = n
        BY <1>0, <2>2
      <4> QED
        BY <1>1, <4>1
    <3>2. reach[n] \in SUBSET Value /\ reach[n] \subseteq T
      BY <2>2
    <3>3. reach[n + 1] \in SUBSET Value /\ reach[n + 1] \subseteq T
      BY <1>6, <3>1, <3>2, FurtherFacts
    <3> QED
      BY <1>0, <2>2, <3>3
  <2>3. \A n \in 0..K : n < K /\ n \in Q => n + 1 \in Q
    BY <2>2
  <2>4. K \in Q
    <3> HIDE DEF Q
    <3>1. 0..K \subseteq Q
      BY <1>0, <2>1, <2>3, InductionUpTo
    <3> QED
      BY <1>0, <3>1
  <2> QED
    BY <2>4
<1> QED
  BY <1>1, <1>4, <1>5, <1>6

(***************************************************************************)
(* The search of sortQueue.  Each user of a value that has been met is     *)
(* finished, waits on the stack, or is still to be pushed; those of a      *)
(* value at work wait above it.                                            *)
(***************************************************************************)
Waits(u, j) == \E k \in DOMAIN stack : k > j /\ stack[k] = u
Pending(v, u) ==
    /\ pc = "push" /\ v = cur
    /\ \E k \in DOMAIN prog.users[v] : k >= use /\ prog.users[v][k] = u
UsersMet(v, j) ==
    \A u \in Users(prog, v) : vstates[u] = "visited" \/ Waits(u, j) \/ Pending(v, u)

Finished == {v \in Value : vstates[v] = "visited"}
QueueFinished == IsInjective(revQueue) /\ ToSet(revQueue) = Finished
AtWork(v, j) ==
    /\ stack[j] = v /\ UsersMet(v, j)
    /\ \A k \in DOMAIN stack : k > j => stack[k] \in ReachedFrom(prog, Users(prog, v))
VisitingAtWork ==
    \A v \in Value : vstates[v] = "visiting" => \E j \in DOMAIN stack : AtWork(v, j)
VisitedMet == \A v \in Finished : UsersMet(v, 0)
RootsMet == \A i \in DOMAIN vals : i < next => vstates[vals[i]] # "none" \/ Waits(vals[i], 0)
OnlyReached ==
    \A v \in Value : v \in ToSet(stack) \/ vstates[v] # "none" => v \in ReachedFrom(prog, Ranged(prog))
UsersFirst ==
    \A i \in DOMAIN revQueue :
        \/ OnLoop(prog, revQueue[i])
        \/ \A u \in Users(prog, revQueue[i]) : \E k \in DOMAIN revQueue : k < i /\ revQueue[k] = u
CurAtWork ==
    pc = "push" =>
        /\ vstates[cur] = "visiting"
        /\ \A v \in Value : vstates[v] = "visiting" =>
              v = cur \/ cur \in ReachedFrom(prog, Users(prog, v))

Searching ==
    /\ ToSet(vals) = Ranged(prog)
    /\ QueueFinished /\ VisitingAtWork /\ VisitedMet /\ RootsMet
    /\ OnlyReached /\ UsersFirst /\ CurAtWork
Collecting ==
    /\ ToSet(vals) = {v \in Ranged(prog) : \E i \in DOMAIN prog.order : i < next /\ prog.order[i] = v}
    /\ stack = <<>> /\ revQueue = <<>> /\ vstates = [v \in Value |-> "none"]
\* What is reached from the users of a value, and from the values with a range.
LEMMA ReachedFacts ==
    ASSUME Typing
    PROVE  /\ \A v \in Value :
                 /\ Users(prog, v) \subseteq ReachedFrom(prog, Users(prog, v))
                 /\ ReachedFrom(prog, Users(prog, v)) \subseteq Value
                 /\ ClosedIn(prog, ReachedFrom(prog, Users(prog, v)))
           /\ Ranged(prog) \subseteq ReachedFrom(prog, Ranged(prog))
           /\ ReachedFrom(prog, Ranged(prog)) \subseteq Value
           /\ ClosedIn(prog, ReachedFrom(prog, Ranged(prog)))
           /\ \A T : Ranged(prog) \subseteq T /\ ClosedIn(prog, T) =>
                        ReachedFrom(prog, Ranged(prog)) \subseteq T
<1>1. prog \in Programs
  BY DEF Typing
<1>2. Ranged(prog) \in SUBSET Value
  BY ProgramTyping DEF Ranged, ToSet
<1>3. \A v \in Value : Users(prog, v) \in SUBSET Value
  BY <1>1, UsersAreValues
<1> QED
  BY <1>1, <1>2, <1>3, ReachedLeast

\* A value is appended to the queue that is collected, or not.
LEMMA AssociateCollects ==
    ASSUME Typing, Collecting, Associate
    PROVE  Collecting'
<1> DEFINE v == prog.order[next]
<1>1. next \in 1..Len(prog.order) /\ v \in Value /\ v \in ToSet(prog.order)
      /\ prog.order \in Seq(Value)
  <2>1. next \in 1..Len(prog.order)
    BY DEF Associate, Typing, TypeOK
  <2> QED
    BY <2>1, ProgramTyping DEF ToSet
<1>2. UNCHANGED <<prog, stack, revQueue, vstates>> /\ next' = next + 1
  BY DEF Associate, search
<1>3. ToSet(vals') = IF prog.range[v] = NoRange THEN ToSet(vals) ELSE ToSet(vals) \cup {v}
  <2>1. CASE prog.range[v] = NoRange
    BY <2>1 DEF Associate
  <2>2. CASE prog.range[v] # NoRange
    <3>1. vals' = Append(vals, v) /\ vals \in Seq(Informed)
      BY <2>2 DEF Associate, Typing, TypeOK
    <3> QED
      BY <2>2, <3>1 DEF ToSet
  <2> QED
    BY <2>1, <2>2
<1>4. \A w : (\E i \in DOMAIN prog.order : i < next + 1 /\ prog.order[i] = w)
             <=> (\E i \in DOMAIN prog.order : i < next /\ prog.order[i] = w) \/ w = v
  BY <1>1
<1>5. v \in Ranged(prog) <=> prog.range[v] # NoRange
  BY <1>1 DEF Ranged
<1> HIDE DEF v
<1>6. ToSet(vals') = {w \in Ranged(prog) : \E i \in DOMAIN prog.order : i < next + 1 /\ prog.order[i] = w}
  BY <1>3, <1>4, <1>5 DEF Collecting
<1> QED
  BY <1>2, <1>6 DEF Collecting

\* The search begins with nothing met.
LEMMA SearchBegins ==
    ASSUME Typing, Collecting, BeginSorting
    PROVE  Searching'
<1>1. UNCHANGED <<prog, vals, stack, revQueue, vstates>> /\ next' = 1 /\ pc' = "sort"
  BY DEF BeginSorting, search
<1>2. stack = <<>> /\ revQueue = <<>> /\ vstates = [v \in Value |-> "none"]
      /\ DOMAIN stack = {} /\ DOMAIN revQueue = {}
  BY DEF Collecting
<1>3. ToSet(vals) = Ranged(prog)
  <2>1. \A v \in Ranged(prog) : \E i \in DOMAIN prog.order : i < next /\ prog.order[i] = v
    BY ProgramTyping DEF BeginSorting, Ranged, ToSet, Typing, TypeOK
  <2> QED
    BY <2>1 DEF Collecting
<1>4. QueueFinished'
  BY <1>1, <1>2 DEF QueueFinished, Finished, IsInjective, ToSet
<1>5. VisitingAtWork' /\ VisitedMet' /\ CurAtWork'
  BY <1>1, <1>2 DEF VisitingAtWork, VisitedMet, Finished, CurAtWork
<1>6. RootsMet'
  BY <1>1 DEF RootsMet, Typing, TypeOK
<1>7. OnlyReached' /\ UsersFirst'
  BY <1>1, <1>2 DEF OnlyReached, UsersFirst, ToSet
<1> QED
  BY <1>1, <1>3, <1>4, <1>5, <1>6, <1>7 DEF Searching

\* A root is pushed when nothing is at work.
LEMMA NextRootSearches ==
    ASSUME Typing, Searching, NextRoot
    PROVE  Searching'
<1> DEFINE r == vals[next]
<1>1. UNCHANGED <<prog, pc, vals, vstates, revQueue, cur>> /\ next' = next + 1
      /\ pc = "sort" /\ stack = <<>> /\ DOMAIN stack = {}
      /\ stack' = IF vstates[r] = "none" THEN <<r>> ELSE <<>>
  BY DEF NextRoot
<1>2. next \in 1..Len(vals) /\ r \in ToSet(vals)
  BY DEF NextRoot, Typing, TypeOK, ToSet
<1>3. \A u, j : ~Waits(u, j) /\ ~Pending(u, j)
  BY <1>1 DEF Waits, Pending
<1>4. \A v \in Value : vstates[v] # "visiting"
  BY <1>1 DEF Searching, VisitingAtWork
<1>5. \A v \in Finished : \A u \in Users(prog, v) : vstates[u] = "visited"
  BY <1>3 DEF Searching, VisitedMet, UsersMet
<1>6. VisitedMet' /\ VisitingAtWork' /\ CurAtWork' /\ QueueFinished' /\ UsersFirst'
  <2>1. VisitedMet'
    BY <1>1, <1>5 DEF VisitedMet, UsersMet, Finished
  <2>2. VisitingAtWork' /\ CurAtWork'
    BY <1>1, <1>4 DEF VisitingAtWork, CurAtWork
  <2>3. QueueFinished' /\ UsersFirst'
    BY <1>1 DEF Searching, QueueFinished, UsersFirst, Finished
  <2> QED
    BY <2>1, <2>2, <2>3
<1>7. RootsMet'
  <2> SUFFICES ASSUME NEW i \in DOMAIN vals, i < next + 1
               PROVE  vstates[vals[i]] # "none" \/ \E k \in DOMAIN stack' : k > 0 /\ stack'[k] = vals[i]
    BY <1>1 DEF RootsMet, Waits
  <2>1. CASE i < next
    BY <1>3, <2>1 DEF Searching, RootsMet
  <2>2. CASE i = next
    BY <1>1, <2>2
  <2>3. i \in Int /\ next \in Int
    BY DEF Typing, TypeOK
  <2> QED
    BY <2>1, <2>2, <2>3
<1>8. OnlyReached'
  <2>1. ToSet(stack') \subseteq {r}
    BY <1>1 DEF ToSet
  <2>2. r \in ReachedFrom(prog, Ranged(prog))
    BY <1>2, ReachedFacts DEF Searching
  <2> QED
    BY <1>1, <2>1, <2>2 DEF Searching, OnlyReached
<1> QED
  BY <1>1, <1>6, <1>7, <1>8 DEF Searching

\* The last element of the stack.
LEMMA TopOfStack ==
    ASSUME Typing, stack # <<>>
    PROVE  \E top \in Value, n \in DOMAIN stack :
               /\ n = Len(stack) /\ n \in Nat \ {0}
               /\ top = Top /\ stack[n] = top /\ \A k \in DOMAIN stack : k \in 1..n
<1>1. stack \in Seq(Value)
  BY SeqMonotonic DEF Typing, TypeOK, Informed
<1>2. Len(stack) \in DOMAIN stack /\ stack[Len(stack)] \in Value
      /\ Len(stack) \in Nat \ {0} /\ \A k \in DOMAIN stack : k \in 1..Len(stack)
  BY <1>1
<1> QED
  BY <1>2 DEF Top

\* A value is met for the first time: its users are all still to be pushed.
LEMMA VisitSearches ==
    ASSUME Typing, Searching, Visit
    PROVE  Searching'
<1>0. PICK top \in Value, n \in DOMAIN stack :
         top = Top /\ stack[n] = top /\ \A k \in DOMAIN stack : k \in 1..n
  <2>1. stack # <<>>
    BY DEF Visit
  <2> QED
    BY <2>1, TopOfStack
<1>1. /\ UNCHANGED <<prog, vals, next, stack, revQueue>>
      /\ pc = "sort" /\ pc' = "push" /\ cur' = top /\ use' = 1
      /\ vstates' = [vstates EXCEPT ![top] = "visiting"] /\ vstates[top] = "none"
  BY <1>0 DEF Visit
<1>3. \A v \in Value : vstates'[v] = IF v = top THEN "visiting" ELSE vstates[v]
  BY <1>1, <1>0 DEF Typing, TypeOK
<1>4. Finished' = Finished
  BY <1>1, <1>3 DEF Finished
<1>5. \A u, j : Waits(u, j)' = Waits(u, j)
  BY <1>1 DEF Waits
<1>6. \A v \in Value : \A j : UsersMet(v, j) => UsersMet(v, j)'
  <2> SUFFICES ASSUME NEW v \in Value, NEW j, UsersMet(v, j), NEW u \in Users(prog, v)
               PROVE  vstates'[u] = "visited" \/ Waits(u, j)'
    BY <1>1 DEF UsersMet
  <2>1. vstates[u] = "visited" \/ Waits(u, j)
    BY <1>1 DEF UsersMet, Pending
  <2>2. u \in Value
    BY UsersAreValues DEF Typing
  <2> QED
    BY <1>1, <1>3, <1>5, <2>1, <2>2
<1>7. UsersMet(top, n)'
  <2> SUFFICES ASSUME NEW u \in Users(prog, top)
               PROVE  Pending(top, u)'
    BY <1>1 DEF UsersMet
  <2>1. PICK k \in DOMAIN prog.users[top] : prog.users[top][k] = u
    BY <1>0, ProgramTyping DEF Users, ToSet
  <2>2. k >= 1
    BY <1>0, <2>1, ProgramTyping
  <2> QED
    BY <1>1, <2>1, <2>2 DEF Pending
<1>8. VisitingAtWork'
  <2> SUFFICES ASSUME NEW v \in Value, vstates'[v] = "visiting"
               PROVE  \E j \in DOMAIN stack : AtWork(v, j)'
    BY <1>1 DEF VisitingAtWork
  <2>1. CASE v = top
    <3>1. \A k \in DOMAIN stack : ~(k > n)
      BY <1>0
    <3> QED
      BY <1>1, <1>0, <1>7, <2>1, <3>1 DEF AtWork
  <2>2. CASE v # top
    BY <1>1, <1>3, <1>6, <2>2 DEF Searching, VisitingAtWork, AtWork
  <2> QED
    BY <2>1, <2>2
<1>9. VisitedMet'
  BY <1>4, <1>6 DEF Searching, VisitedMet, Finished
<1>10. RootsMet'
  <2>1. \A i \in DOMAIN vals : vals[i] \in Value
    BY DEF Typing, TypeOK, Informed
  <2> QED
    BY <1>1, <1>3, <1>5, <2>1 DEF Searching, RootsMet
<1>11. OnlyReached' /\ QueueFinished' /\ UsersFirst'
  <2>1. top \in ToSet(stack)
    BY <1>0 DEF ToSet
  <2>2. OnlyReached'
    BY <1>1, <1>3, <2>1 DEF Searching, OnlyReached
  <2> QED
    BY <1>1, <1>4, <2>2 DEF Searching, QueueFinished, UsersFirst
<1>12. CurAtWork'
  <2> SUFFICES ASSUME NEW v \in Value, vstates'[v] = "visiting", v # top
               PROVE  top \in ReachedFrom(prog, Users(prog, v))
    BY <1>1, <1>0, <1>3 DEF CurAtWork
  <2>1. PICK j \in DOMAIN stack : AtWork(v, j)
    BY <1>3 DEF Searching, VisitingAtWork
  <2>2. j # n /\ n > j
    BY <1>0, <2>1 DEF AtWork
  <2> QED
    BY <1>0, <2>1, <2>2 DEF AtWork
<1> QED
  BY <1>1, <1>8, <1>9, <1>10, <1>11, <1>12 DEF Searching

\* A user is pushed above the value at work.
LEMMA PushSearches ==
    ASSUME Typing, Searching, PushUser
    PROVE  Searching'
<1>1. PICK c \in Value, u \in Value, n \in Nat :
         /\ c = cur /\ use \in DOMAIN prog.users[c] /\ u = prog.users[c][use]
         /\ n = Len(stack) /\ stack \in Seq(Value)
         /\ \A k : k \in DOMAIN stack <=> k \in 1..n
  <2>1. cur \in Value
    BY DEF PushUser, Typing, TypeOK, Informed
  <2>2. use \in DOMAIN prog.users[cur] /\ prog.users[cur][use] \in Value
    BY <2>1, ProgramTyping DEF PushUser, Typing, TypeOK
  <2>3. stack \in Seq(Value) /\ Len(stack) \in Nat
    BY SeqMonotonic DEF Typing, TypeOK, Informed
  <2> QED
    BY <2>1, <2>2, <2>3
<1>2. /\ UNCHANGED <<prog, pc, vals, next, cur, vstates, revQueue>>
      /\ pc = "push" /\ use' = use + 1 /\ use \in Nat
      /\ stack' = IF u \in prog.enabled THEN Append(stack, u) ELSE stack
  BY <1>1 DEF PushUser, Typing, TypeOK
<1>3. /\ DOMAIN stack \subseteq DOMAIN stack'
      /\ \A k \in DOMAIN stack : stack'[k] = stack[k]
      /\ u \in prog.enabled => n + 1 \in DOMAIN stack' /\ stack'[n + 1] = u
      /\ \A k \in DOMAIN stack' : k \in DOMAIN stack \/ (k = n + 1 /\ u \in prog.enabled)
  BY <1>1, <1>2
<1>4. \A x \in Value : \A j : Waits(x, j) => Waits(x, j)'
  BY <1>3 DEF Waits
<1>5. ASSUME NEW v \in Value, NEW j \in 0..n, UsersMet(v, j)
      PROVE  UsersMet(v, j)'
  <2> SUFFICES ASSUME NEW x \in Users(prog, v), ~(vstates[x] = "visited" \/ Waits(x, j))
               PROVE  Waits(x, j)' \/ Pending(v, x)'
    BY <1>2, <1>4, UsersAreValues DEF UsersMet, Typing
  <2>1. Pending(v, x)
    BY <1>5 DEF UsersMet
  <2>2. PICK k \in DOMAIN prog.users[v] : k >= use /\ prog.users[v][k] = x
    BY <2>1 DEF Pending
  <2>3. v = c /\ k \in Nat
    BY <1>1, <2>1, <2>2, ProgramTyping DEF Pending
  <2>4. CASE k = use
    <3>1. x = u /\ u \in prog.enabled
      BY <1>1, <2>2, <2>3, <2>4 DEF Users
    <3>2. n + 1 > j
      OBVIOUS
    <3> QED
      BY <1>3, <3>1, <3>2 DEF Waits
  <2>5. CASE k >= use + 1
    BY <1>1, <1>2, <2>2, <2>3, <2>5 DEF Pending
  <2> QED
    BY <1>2, <2>2, <2>3, <2>4, <2>5
<1>6. VisitingAtWork'
  <2> SUFFICES ASSUME NEW v \in Value, vstates[v] = "visiting"
               PROVE  \E j \in DOMAIN stack' : AtWork(v, j)'
    BY <1>2 DEF VisitingAtWork
  <2>1. PICK j \in DOMAIN stack : AtWork(v, j)
    BY DEF Searching, VisitingAtWork
  <2>2. UsersMet(v, j)'
    BY <1>1, <1>5, <2>1 DEF AtWork
  <2>3. u \in prog.enabled => u \in ReachedFrom(prog, Users(prog, v))
    <3> SUFFICES ASSUME u \in prog.enabled
                 PROVE  u \in ReachedFrom(prog, Users(prog, v))
      OBVIOUS
    <3>1. u \in Users(prog, c)
      BY <1>1 DEF Users, ToSet
    <3>2. v = c \/ c \in ReachedFrom(prog, Users(prog, v))
      BY <1>1, <1>2 DEF Searching, CurAtWork
    <3> QED
      BY <3>1, <3>2, ReachedFacts DEF ClosedIn
  <2>4. \A k \in DOMAIN stack' : k > j => stack'[k] \in ReachedFrom(prog, Users(prog, v))
    BY <1>3, <2>1, <2>3 DEF AtWork
  <2> QED
    BY <1>2, <1>3, <2>1, <2>2, <2>4 DEF AtWork
<1>7. VisitedMet'
  <2>1. Finished' = Finished /\ 0 \in 0..n
    BY <1>2 DEF Finished
  <2> QED
    BY <1>5, <2>1 DEF Searching, VisitedMet, Finished
<1>8. RootsMet'
  <2>1. \A i \in DOMAIN vals : vals[i] \in Value
    BY DEF Typing, TypeOK, Informed
  <2> QED
    BY <1>2, <1>4, <2>1 DEF Searching, RootsMet
<1>9. OnlyReached'
  <2>1. c \in ReachedFrom(prog, Ranged(prog))
    BY <1>1, <1>2 DEF Searching, OnlyReached, CurAtWork
  <2>2. u \in prog.enabled => u \in ReachedFrom(prog, Ranged(prog))
    BY <1>1, <2>1, ReachedFacts DEF ClosedIn, Users, ToSet
  <2>3. ToSet(stack') \subseteq ToSet(stack) \cup {x \in {u} : u \in prog.enabled}
    BY <1>3 DEF ToSet
  <2> QED
    BY <1>2, <2>2, <2>3 DEF Searching, OnlyReached
<1>10. QueueFinished' /\ UsersFirst' /\ CurAtWork'
  BY <1>2 DEF Searching, QueueFinished, UsersFirst, CurAtWork, Finished
<1> QED
  BY <1>2, <1>6, <1>7, <1>8, <1>9, <1>10 DEF Searching

\* When all users are pushed nothing is pending.
LEMMA EndUsersSearches ==
    ASSUME Typing, Searching, EndUsers
    PROVE  Searching'
<1>1. UNCHANGED <<prog, vals, next, use, stack, cur, vstates, revQueue>> /\ pc' = "sort"
  BY DEF EndUsers, loops, search
<1>2. \A v \in Value : \A u : ~Pending(v, u)
  BY ProgramTyping DEF EndUsers, Pending, Typing, TypeOK
<1>3. \A v \in Value : \A j : UsersMet(v, j) => UsersMet(v, j)'
  BY <1>1, <1>2 DEF UsersMet, Waits
<1>4. VisitingAtWork' /\ VisitedMet'
  BY <1>1, <1>3 DEF Searching, VisitingAtWork, AtWork, VisitedMet, Finished
<1>5. RootsMet' /\ OnlyReached' /\ QueueFinished' /\ UsersFirst' /\ CurAtWork'
  BY <1>1 DEF Searching, RootsMet, Waits, OnlyReached, QueueFinished, Finished, UsersFirst, CurAtWork
<1> QED
  BY <1>1, <1>4, <1>5 DEF Searching

(***************************************************************************)
(* A value is finished.  If it is on no loop, nothing waits above its own  *)
(* place on the stack, so that all its users are finished, too.            *)
(***************************************************************************)
LEMMA LeaveSearches ==
    ASSUME Typing, Searching, Leave
    PROVE  Searching'
<1>0. PICK top \in Value, n \in DOMAIN stack :
         /\ n = Len(stack) /\ n \in Nat \ {0}
         /\ top = Top /\ stack[n] = top /\ \A k \in DOMAIN stack : k \in 1..n
  <2>1. stack # <<>>
    BY DEF Leave
  <2> QED
    BY <2>1, TopOfStack
<1>1. /\ UNCHANGED <<prog, pc, vals, next, use, cur>>
      /\ pc = "sort" /\ vstates[top] # "none"
      /\ stack' = Front(stack)
      /\ vstates' = [vstates EXCEPT ![top] = "visited"]
      /\ revQueue' = IF vstates[top] = "visiting" THEN Append(revQueue, top) ELSE revQueue
  BY <1>0 DEF Leave, loops
<1>2. \A k : k \in DOMAIN stack' <=> k \in DOMAIN stack /\ k # n
  BY <1>0, <1>1 DEF Front, Typing, TypeOK
<1>3. \A k \in DOMAIN stack' : stack'[k] = stack[k]
  BY <1>0, <1>1 DEF Front, Typing, TypeOK
<1>4. \A v \in Value : vstates'[v] = IF v = top THEN "visited" ELSE vstates[v]
  BY <1>1 DEF Typing, TypeOK
<1>5. ASSUME NEW v \in Value, NEW j, UsersMet(v, j)
      PROVE  UsersMet(v, j)'
  <2> SUFFICES ASSUME NEW u \in Users(prog, v)
               PROVE  vstates'[u] = "visited" \/ \E k \in DOMAIN stack' : k > j /\ stack'[k] = u
    BY <1>1 DEF UsersMet, Waits
  <2>1. u \in Value
    BY UsersAreValues DEF Typing
  <2>2. vstates[u] = "visited" \/ Waits(u, j)
    BY <1>1, <1>5 DEF UsersMet, Pending
  <2> QED
    BY <1>0, <1>2, <1>3, <1>4, <2>1, <2>2 DEF Waits
<1>6. VisitingAtWork'
  <2> SUFFICES ASSUME NEW v \in Value, v # top, vstates[v] = "visiting"
               PROVE  \E j \in DOMAIN stack' : AtWork(v, j)'
    BY <1>4 DEF VisitingAtWork
  <2>1. PICK j \in DOMAIN stack : AtWork(v, j)
    BY DEF Searching, VisitingAtWork
  <2>2. j \in DOMAIN stack' /\ UsersMet(v, j)'
    BY <1>0, <1>2, <1>5, <2>1 DEF AtWork
  <2> QED
    BY <1>1, <1>2, <1>3, <2>1, <2>2 DEF AtWork
<1>7. Finished' = Finished \cup {top}
  BY <1>4 DEF Finished
<1>8. vstates[top] = "visiting" => \E j \in DOMAIN stack : AtWork(top, j)
  BY DEF Searching, VisitingAtWork
<1>9. VisitedMet'
  <2>1. UsersMet(top, 0)
    <3>1. CASE top \in Finished
      BY <3>1 DEF Searching, VisitedMet
    <3>2. CASE vstates[top] = "visiting"
      <4>1. PICK j \in DOMAIN stack : AtWork(top, j)
        BY <1>8, <3>2
      <4>2. \A k \in DOMAIN stack : k > j => k > 0
        BY <1>0
      <4> QED
        BY <4>1, <4>2 DEF AtWork, UsersMet, Waits
    <3> QED
      BY <1>1, <3>1, <3>2 DEF Finished, Typing, TypeOK
  <2>2. \A v \in Finished : UsersMet(v, 0) /\ v \in Value
    BY DEF Searching, VisitedMet, Finished
  <2> QED
    BY <1>5, <1>7, <2>1, <2>2 DEF VisitedMet
<1>10. RootsMet'
  <2> SUFFICES ASSUME NEW i \in DOMAIN vals, i < next
               PROVE  vstates'[vals[i]] # "none" \/ \E k \in DOMAIN stack' : k > 0 /\ stack'[k] = vals[i]
    BY <1>1 DEF RootsMet, Waits
  <2>1. vals[i] \in Value
    BY DEF Typing, TypeOK, Informed
  <2> QED
    BY <1>0, <1>2, <1>3, <1>4, <2>1 DEF Searching, RootsMet, Waits
<1>11. OnlyReached'
  <2>1. ToSet(stack') \subseteq ToSet(stack) /\ top \in ToSet(stack)
    BY <1>0, <1>2, <1>3 DEF ToSet
  <2> QED
    BY <1>1, <1>4, <2>1 DEF Searching, OnlyReached
<1>12. CASE vstates[top] = "visited"
  <2>1. revQueue' = revQueue /\ Finished' = Finished
    BY <1>1, <1>7, <1>12 DEF Finished
  <2>2. QueueFinished' /\ UsersFirst'
    BY <1>1, <2>1 DEF Searching, QueueFinished, UsersFirst
  <2> QED
    BY <1>1, <1>6, <1>9, <1>10, <1>11, <2>2 DEF Searching, CurAtWork
<1>13. CASE vstates[top] = "visiting"
  <2>1. PICK m \in Nat : m = Len(revQueue) /\ revQueue \in Seq(Value)
                         /\ \A k : k \in DOMAIN revQueue <=> k \in 1..m
    <3>1. revQueue \in Seq(Value)
      BY SeqMonotonic DEF Typing, TypeOK, Informed
    <3> QED
      BY <3>1
  <2>2. revQueue' = Append(revQueue, top)
    BY <1>1, <1>13
  <2>3. /\ \A k : k \in DOMAIN revQueue' <=> k \in DOMAIN revQueue \/ k = m + 1
        /\ \A k \in DOMAIN revQueue : revQueue'[k] = revQueue[k]
        /\ revQueue'[m + 1] = top
    BY <2>1, <2>2
  <2>4. top \notin ToSet(revQueue)
    BY <1>13 DEF Searching, QueueFinished, Finished
  <2>5. QueueFinished'
    <3>1. ToSet(revQueue') = ToSet(revQueue) \cup {top}
      BY <2>3 DEF ToSet
    <3>2. IsInjective(revQueue')
      BY <2>3, <2>4 DEF Searching, QueueFinished, IsInjective, ToSet
    <3> QED
      BY <1>7, <3>1, <3>2 DEF Searching, QueueFinished
  <2>6. OnLoop(prog, top) \/ \A u \in Users(prog, top) : \E k \in DOMAIN revQueue : revQueue[k] = u
    <3>1. PICK j \in DOMAIN stack : AtWork(top, j)
      BY <1>8, <1>13
    <3>2. CASE j = n
      <4>1. \A u : ~Waits(u, j) /\ ~Pending(top, u)
        BY <1>0, <1>1, <3>2 DEF Waits, Pending
      <4>2. \A u \in Users(prog, top) : u \in Finished
        BY <3>1, <4>1, UsersAreValues DEF AtWork, UsersMet, Finished, Typing
      <4> QED
        BY <4>2 DEF Searching, QueueFinished, ToSet
    <3>3. CASE j # n
      BY <1>0, <3>1, <3>3 DEF AtWork, OnLoop
    <3> QED
      BY <3>2, <3>3
  <2>7. UsersFirst'
    <3> SUFFICES ASSUME NEW i \in DOMAIN revQueue'
                 PROVE  \/ OnLoop(prog, revQueue'[i])
                        \/ \A u \in Users(prog, revQueue'[i]) :
                              \E k \in DOMAIN revQueue' : k < i /\ revQueue'[k] = u
      BY <1>1 DEF UsersFirst
    <3>1. CASE i \in DOMAIN revQueue
      BY <2>3, <3>1 DEF Searching, UsersFirst
    <3>2. CASE i = m + 1
      <4>1. \A k \in DOMAIN revQueue : k < i
        BY <2>1, <3>2
      <4> QED
        BY <2>3, <2>6, <3>2, <4>1
    <3> QED
      BY <2>3, <3>1, <3>2
  <2> QED
    BY <1>1, <1>6, <1>9, <1>10, <1>11, <2>5, <2>7 DEF Searching, CurAtWork
<1> QED
  BY <1>1, <1>12, <1>13 DEF Typing, TypeOK

(***************************************************************************)
(* The queue that is merged is that of the finished values, turned around. *)
(***************************************************************************)
LEMMA EndSortingSorts ==
    ASSUME Typing, Searching, EndSorting
    PROVE  QueueSorted'
<1>1. /\ prog' = prog /\ pc = "sort" /\ stack = <<>> /\ DOMAIN stack = {}
      /\ vals' = Reverse(revQueue) /\ next > Len(vals)
  BY DEF EndSorting
<1>2. \A v \in Value : vstates[v] # "visiting"
  BY <1>1 DEF Searching, VisitingAtWork
<1>3. ToSet(revQueue) = ReachedFrom(prog, Ranged(prog))
  <2>1. \A v \in Finished : Users(prog, v) \subseteq Finished
    BY <1>1, UsersAreValues DEF Searching, VisitedMet, UsersMet, Waits, Pending, Finished, Typing
  <2>2. Ranged(prog) \subseteq Finished
    <3> SUFFICES ASSUME NEW v \in Ranged(prog)
                 PROVE  v \in Finished
      OBVIOUS
    <3>1. PICK i \in DOMAIN vals : vals[i] = v
      BY DEF Searching, ToSet
    <3>2. i < next /\ v \in Value
      BY <1>1, <3>1 DEF Typing, TypeOK, Informed
    <3>3. vstates[v] # "none"
      BY <1>1, <3>1, <3>2 DEF Searching, RootsMet, Waits
    <3> QED
      BY <1>2, <3>2, <3>3 DEF Finished, Typing, TypeOK
  <2>3. ReachedFrom(prog, Ranged(prog)) \subseteq Finished
    BY <2>1, <2>2, ReachedFacts DEF ClosedIn
  <2>4. Finished \subseteq ReachedFrom(prog, Ranged(prog))
    BY DEF Finished, Searching, OnlyReached
  <2> QED
    BY <2>3, <2>4 DEF Searching, QueueFinished
<1>4. PICK m \in Nat : m = Len(revQueue) /\ DOMAIN revQueue = 1..m
  BY DEF Typing, TypeOK
<1>5. /\ DOMAIN vals' = 1..m
      /\ \A i \in 1..m : vals'[i] = revQueue[(m - i) + 1] /\ (m - i) + 1 \in 1..m
  BY <1>1, <1>4 DEF Reverse
<1>6. \A a, b \in 1..m : revQueue[a] = revQueue[b] => a = b
  BY <1>4 DEF Searching, QueueFinished, IsInjective
<1>7. IsInjective(vals')
  <2> SUFFICES ASSUME NEW i \in 1..m, NEW j \in 1..m, vals'[i] = vals'[j]
               PROVE  i = j
    BY <1>5 DEF IsInjective
  <2>1. (m - i) + 1 = (m - j) + 1
    BY <1>5, <1>6
  <2> QED
    BY <2>1
<1>8. ToSet(vals') = ToSet(revQueue)
  <2>1. \A k \in 1..m : (m - k) + 1 \in 1..m /\ (m - ((m - k) + 1)) + 1 = k
    OBVIOUS
  <2>2. \A k \in 1..m : vals'[(m - k) + 1] = revQueue[k]
    BY <1>5, <2>1
  <2> QED
    BY <1>4, <1>5, <2>1, <2>2 DEF ToSet
<1>9. ASSUME NEW i \in 1..m, NEW j \in 1..m, vals'[j] \in Users(prog, vals'[i]),
             ~OnLoop(prog, vals'[i])
      PROVE  i < j
  <2> DEFINE l == (m - i) + 1
  <2>0. l \in DOMAIN revQueue /\ vals'[i] = revQueue[l]
    BY <1>4, <1>5
  <2> HIDE DEF l
  <2>3. \A u \in Users(prog, revQueue[l]) : \E k \in DOMAIN revQueue : k < l /\ revQueue[k] = u
    BY <1>9, <2>0 DEF Searching, UsersFirst
  <2>4. PICK k \in DOMAIN revQueue : k < l /\ revQueue[k] = vals'[j]
    BY <1>9, <2>0, <2>3
  <2>1. k \in 1..m /\ k < (m - i) + 1 /\ revQueue[k] = vals'[j]
    BY <1>4, <2>4 DEF l
  <2>2. k = (m - j) + 1
    BY <1>5, <1>6, <2>1
  <2> QED
    BY <2>1, <2>2
<1> QED
  BY <1>1, <1>3, <1>5, <1>7, <1>8, <1>9 DEF QueueSorted

\* What the search has done, phase by phase.
SearchInv ==
    /\ pc = "associate" => Collecting
    /\ pc \in {"sort", "push"} => Searching
    /\ QueueSorted

(***************************************************************************)
(* For every program, the queue that is merged has each value that is to   *)
(* be merged once, and those on no loop in front of their users.           *)
(***************************************************************************)
THEOREM QueueStaysSorted == Spec => []QueueSorted
<1> DEFINE IInv == Typing /\ Unmerged /\ SearchInv
<1>1. Init => IInv
  <2> SUFFICES ASSUME Init PROVE IInv
    OBVIOUS
  <2>1. Typing /\ Unmerged
    BY InitTyping
  <2>2. pc = "associate" /\ next = 1 /\ vals = <<>> /\ stack = <<>> /\ revQueue = <<>>
        /\ vstates = [v \in Value |-> "none"]
    BY DEF Init
  <2>3. ToSet(vals) = {} /\ \A i \in DOMAIN prog.order : ~(i < 1)
    BY <2>1, <2>2, ProgramTyping DEF ToSet
  <2>4. Collecting
    BY <2>2, <2>3 DEF Collecting
  <2> QED
    BY <2>1, <2>2, <2>4 DEF SearchInv, QueueSorted
<1>2. ASSUME IInv, [Next]_vars PROVE IInv'
  <2>1. Typing' /\ Unmerged'
    BY <1>2, StepTyping
  <2>2. CASE Associate
    <3>1. Collecting'
      BY <1>2, <2>2, AssociateCollects DEF Associate, SearchInv
    <3> QED
      BY <2>1, <2>2, <3>1 DEF Associate, SearchInv, QueueSorted
  <2>3. CASE BeginSorting
    <3>1. Searching'
      BY <1>2, <2>3, SearchBegins DEF BeginSorting, SearchInv
    <3> QED
      BY <2>1, <2>3, <3>1 DEF BeginSorting, SearchInv, QueueSorted
  <2>4. CASE NextRoot \/ Visit \/ PushUser \/ EndUsers \/ Leave
    <3>1. pc \in {"sort", "push"} /\ pc' \in {"sort", "push"}
      BY <2>4 DEF NextRoot, Visit, PushUser, EndUsers, Leave
    <3>2. Searching'
      BY <1>2, <2>4, <3>1, NextRootSearches, VisitSearches, PushSearches, EndUsersSearches,
         LeaveSearches DEF SearchInv
    <3> QED
      BY <2>1, <3>1, <3>2 DEF SearchInv, QueueSorted
  <2>5. CASE EndSorting
    <3>1. QueueSorted'
      BY <1>2, <2>5, EndSortingSorts DEF EndSorting, SearchInv
    <3>2. pc' \in {"merge", "done"}
      BY <2>5 DEF EndSorting
    <3> QED
      BY <2>1, <3>1, <3>2 DEF SearchInv
  <2>6. CASE MergePair \/ NextValue \/ EndRound
    <3>1. prog' = prog /\ vals' = vals /\ pc = "merge" /\ pc' \in {"merge", "done"}
      BY <2>6 DEF MergePair, NextValue, EndRound
    <3> QED
      BY <1>2, <2>1, <3>1 DEF SearchInv, QueueSorted
  <2>7. CASE UNCHANGED vars
    <3>1. UNCHANGED <<prog, pc, vals, next, use, stack, cur, vstates, revQueue>>
      BY <2>7 DEF vars, loops, search
    <3>2. Collecting' = Collecting /\ QueueSorted' = QueueSorted
      BY <3>1 DEF Collecting, QueueSorted
    <3>3. \A v \in Value : \A j : UsersMet(v, j)' = UsersMet(v, j)
      BY <3>1 DEF UsersMet, Waits, Pending
    <3>4. Searching => Searching'
      BY <3>1, <3>3 DEF Searching, QueueFinished, VisitingAtWork, AtWork, VisitedMet, RootsMet,
                        Waits, OnlyReached, UsersFirst, CurAtWork, Finished
    <3> QED
      BY <1>2, <2>1, <3>1, <3>2, <3>4 DEF SearchInv
  <2> QED
    BY <1>2, <2>2, <2>3, <2>4, <2>5, <2>6, <2>7 DEF Next, Step
<1>3. IInv => QueueSorted
  BY DEF SearchInv
<1> QED
  BY <1>1, <1>2, <1>3, PTL DEF Spec
=============================================================================
