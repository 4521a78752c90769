------------------------ MODULE MultiValueMapIterators ------------------------
(***************************************************************************)
(* The read-only side of MultiValueMap: the iterator's moves and           *)
(* comparisons and getAssociatedValues, as functions of the map m and of   *)
(* list positions, and what they must satisfy in every map the operations  *)
(* can produce.  Tags are skipped lazily, so two positions, the tag and    *)
(* the first item of its group, stand for the same element.                *)
(***************************************************************************)
EXTENDS MultiValueMap

Positions(m) == 1..End(m)

SkipTagBack(m, p) == IF p # 1 /\ IsTag(m, p) THEN p - 1 ELSE p

\* Variants with a plausible bug, as in MultiValueMap.
Dec_NoSkip(m, p) == p - 1
\* operator++, not on end().
Inc(m, p) == SkipTagForward(m, SkipTagForward(m, p) + 1)

\* operator--, not on begin().
Dec(m, p) == SkipTagBack(m, p - 1)

\* skip(): over the rest of the group.
Skip(m, p0) ==
    LET p == SkipTagForward(m, p0)
    IN  SkipTagForward(m, CHOOSE q \in Positions(m) : NextTag(m, p, q))

\* The position of the tag that the cell at p points at.
TagPos(m, p) == CHOOSE t \in 1..Len(m.list) : m.list[t] = At(m, p).TagIt

\* reverseSkip(), not on end(): to the start of the group in front, or of
\* the same group when it is the first.
ReverseSkip(m, p0) ==
    LET t == TagPos(m, SkipTagForward(m, p0))
    IN  SkipTagForward(m, IF t = 1 THEN 1 ELSE TagPos(m, t - 1))

\* operator==, operator<= and the operators made of them.  operator<= moves
\* its left operand off a tag, and reads the right one where it is.
Equal(m, p, q) == SkipTagForward(m, p) = SkipTagForward(m, q)
LessEq(m, p0, q) ==
    LET p == SkipTagForward(m, p0)
    IN  p = q \/ At(m, p).OrderIdx <= At(m, q).OrderIdx
Less(m, p, q) == ~LessEq(m, q, p)

\* getAssociatedValues(K): the items from behind the tag of K on.
AssociatedValues(m, k) ==
    LET t == TagPos(m, Find(m, k))
        e == CHOOSE q \in Positions(m) : NextTag(m, t + 1, q)
    IN  [i \in 1..(e - t - 1) |-> At(m, t + i).Key]

-----------------------------------------------------------------------------

Items(m) == {p \in 1..Len(m.list) : ~IsTag(m, p)}
PresentKeys == {k \in Key : Index[k] # Null}

\* The keys met by for (I = begin(); I != end(); ++I) from position p on.
Traversal(m) ==
    LET from[p \in Positions(m)] ==
            IF Equal(m, p, End(m)) THEN <<>>
            ELSE <<At(m, SkipTagForward(m, p)).Key>> \o from[Inc(m, p)]
    IN  from[1]

(***************************************************************************)
(* A forward traversal meets every key of the index exactly once, in list  *)
(* order, although tags are interleaved and skipped lazily.                *)
(***************************************************************************)
TraversalComplete ==
    LET t == Traversal(Map)
    IN  /\ ToSet(t) = PresentKeys
        /\ \A i, j \in DOMAIN t :
              i < j => t[i] # t[j] /\ Find(Map, t[i]) < Find(Map, t[j])

(***************************************************************************)
(* ++ and -- are inverse (the LazyIterator tests walk a few lists), and so *)
(* are skip and reverseSkip up to the start of the group.                  *)
(***************************************************************************)
MovesInverse ==
    \A p \in Positions(Map) \ {End(Map)} :
        /\ Equal(Map, Dec(Map, Inc(Map, p)), p)
        /\ Skip(Map, p) # End(Map) =>
              /\ At(Map, Skip(Map, p)).TagIt # At(Map, p).TagIt
              /\ Equal(Map, ReverseSkip(Map, Skip(Map, p)), TagPos(Map, p))

(***************************************************************************)
(* getAssociatedValues returns exactly the keys that share K's value, once *)
(* each and in list order.                                                 *)
(***************************************************************************)
AssociatedExact ==
    \A k \in PresentKeys :
        LET a == AssociatedValues(Map, k)
        IN  /\ ToSet(a) = {l \in PresentKeys :
                             Item[Index[l]].TagIt = Item[Index[k]].TagIt}
            /\ \A i, j \in DOMAIN a : i < j => Find(Map, a[i]) < Find(Map, a[j])

(***************************************************************************)
(* Comparing two iterators on items never contradicts the list: the one    *)
(* that is strictly less is in front, and == excludes <.                   *)
(***************************************************************************)
CompareSound ==
    \A p, q \in Items(Map) : Less(Map, p, q) => p < q

(***************************************************************************)
(* What a client sees of the map through its iterators is the map.         *)
(***************************************************************************)
IteratorsExact ==
    TraversalComplete /\ MovesInverse /\ AssociatedExact /\ CompareSound
=============================================================================
