---------------------------- MODULE MultiValueMap ----------------------------
(***************************************************************************)
(* The ordered multi-key map of src/lib/TaffoUtils/MultiValueMap.h.        *)
(*                                                                         *)
(* KeyList is one doubly linked list that holds, for every group of keys,  *)
(* a TAG cell (which owns the mapped value) followed by one cell per key   *)
(* (an ITEM, whose TagIt points back at the tag).  Index maps a key to its *)
(* item.  Cells are identified by an address from Node, so that an         *)
(* iterator kept by the code (TagIt, the values of Index) survives         *)
(* insertions and erasures elsewhere, exactly as std::list promises.       *)
(* A list position p in 1..Len(KeyList)+1 stands for an iterator argument; *)
(* Len(KeyList)+1 is end().                                                *)
(***************************************************************************)
EXTENDS Integers, Sequences, SequencesExt

CONSTANTS
    Key,        \* the llvm::Value* keys
    Val,        \* the mapped data
    Node,       \* addresses of list cells
    Null,       \* the null unique_ptr, the absent key, the absent iterator
    Spacing,    \* OrderIdxSpacing (0x100000 in the code)
    MaxOrd      \* bound on |OrderIdx| (the code: the range of long long)

ASSUME ConstAssumption ==
    /\ Null \notin Key
    /\ Null \notin Val
    /\ Null \notin Node
    /\ Spacing \in Nat
    /\ MaxOrd \in Nat

VARIABLES
    KeyList,    \* the addresses of the cells, in list order
    Item,       \* the contents of the cell at each address
    Index       \* key -> address of its item, or Null

vars == <<KeyList, Item, Index>>

CellT == [Value : Val \cup {Null}, Key : Key \cup {Null},
          TagIt : Node \cup {Null}, OrderIdx : Int]

FreeCell == [Value |-> Null, Key |-> Null, TagIt |-> Null, OrderIdx |-> 0]

(***************************************************************************)
(* The operations are functions on the record m of the three variables,    *)
(* because onRAUW is a composition of others.                              *)
(***************************************************************************)
Map == [list |-> KeyList, item |-> Item, index |-> Index]

Become(m) == KeyList' = m.list /\ Item' = m.item /\ Index' = m.index

\* The order indices stay in range.
InRange(m) ==
    \A p \in 1..Len(m.list) : m.item[m.list[p]].OrderIdx \in -MaxOrd..MaxOrd

\* The step to the map m, when it stays within the bound.
BecomeInRange(m) == \E r \in {m} : InRange(r) /\ Become(r)

End(m) == Len(m.list) + 1
At(m, p) == m.item[m.list[p]]
IsTag(m, p) == p # End(m) /\ At(m, p).Value # Null
Live(m) == {m.list[i] : i \in 1..Len(m.list)}
NewNode(m) == CHOOSE n \in Node : n \notin Live(m)

\* find(): the position of the item the index points at, or end().
Find(m, k) ==
    IF m.index[k] = Null THEN End(m)
    ELSE CHOOSE p \in 1..Len(m.list) : m.list[p] = m.index[k]

SkipTagForward(m, p) == IF IsTag(m, p) THEN p + 1 ELSE p

\* q is the first position from p on that holds a tag, or end().
NextTag(m, p, q) ==
    /\ q >= p
    /\ q = End(m) \/ IsTag(m, q)
    /\ \A r \in p..(q-1) : ~IsTag(m, r)

(***************************************************************************)
(* insertionPointerForNewList: in front of the tag when the iterator is on *)
(* the first item of a group, otherwise in front of the next tag.          *)
(***************************************************************************)
NewListPos(m, p, q) ==
    IF p = 1 \/ p = End(m) THEN q = p
    ELSE IF IsTag(m, p-1) THEN q = p - 1
    ELSE NextTag(m, p, q)

\* C++ division of a long long by two: towards zero.
Half(x) == IF x >= 0 THEN x \div 2 ELSE -((-x) \div 2)

\* Variants named <operator>_<bug> are the operator with a plausible bug, for
\* checking that a property notices it; the specification never uses them.
OrderIdxForNewElem_Left(m, p) ==
    IF p = 1
    THEN IF End(m) = 1 THEN 0 ELSE At(m, 1).OrderIdx - Spacing
    ELSE At(m, p-1).OrderIdx + Spacing

\* orderIdxForNewElem: one spacing beyond either end, else the midpoint.
OrderIdxForNewElem(m, p) ==
    IF p = 1
    THEN IF End(m) = 1 THEN 0 ELSE At(m, 1).OrderIdx - Spacing
    ELSE IF p = End(m) THEN At(m, p-1).OrderIdx + Spacing
    ELSE Half(At(m, p-1).OrderIdx + At(m, p).OrderIdx)

\* KeyList.insert and KeyList.erase on one cell.
LinkCell(m, p, n, c) ==
    [list  |-> InsertAt(m.list, p, n),
     item  |-> [m.item EXCEPT ![n] = c],
     index |-> m.index]
UnlinkCell(m, p) ==
    [list  |-> RemoveAt(m.list, p),
     item  |-> [m.item EXCEPT ![m.list[p]] = FreeCell],
     index |-> m.index]
SetIndex(m, k, n) ==
    [list |-> m.list, item |-> m.item, index |-> [m.index EXCEPT ![k] = n]]

NewItem_Swapped(m, p, k, t) ==
    [Value |-> Null, Key |-> t, TagIt |-> k,
     OrderIdx |-> OrderIdxForNewElem(m, p)]
NewItem(m, p, k, t) ==
    [Value |-> Null, Key |-> k, TagIt |-> t,
     OrderIdx |-> OrderIdxForNewElem(m, p)]
NewTag(m, p, v, n) ==
    [Value |-> v, Key |-> Null, TagIt |-> n,
     OrderIdx |-> OrderIdxForNewElem(m, p)]

\* Adds an item for k in front of p to the group of tag t, and indexes it.
LinkItem(m, p, k, t) ==
    LET n == NewNode(m)
    IN  SetIndex(LinkCell(m, p, n, NewItem(m, p, k, t)), k, n)

\* Adds a tag that owns the new value v; it is its own TagIt.
LinkTag(m, p, v) ==
    LET n == NewNode(m) IN LinkCell(m, p, n, NewTag(m, p, v, n))

\* insert(P, K, V) once the position q is known: a tag, then its only item.
InsertGroup(m, q, k, v) ==
    LET m1 == LinkTag(m, q, v) IN LinkItem(m1, q + 1, k, m1.list[q])

\* Inserting in front of an item that begins a group joins its group.
InsertRightAt(m, p, k) ==
    LET q == SkipTagForward(m, p) IN LinkItem(m, q, k, At(m, q).TagIt)

InsertLeftAt_Right(m, p, k) == LinkItem(m, p, k, At(m, p-1).TagIt)
\* leftInsertionPointer: at the front of a group that is not the first one
\* the key goes in front of the tag, to the group on the left.
InsertLeftAt(m, p, k) ==
    IF IsTag(m, p-1) /\ p - 1 # 1
    THEN LinkItem(m, p - 1, k, At(m, p-2).TagIt)
    ELSE LinkItem(m, p, k, At(m, p-1).TagIt)

(***************************************************************************)
(* erase(I) reads isTag() of the list's end sentinel after erasing the     *)
(* last cell.  libstdc++ and libc++ keep the size of the list where a cell *)
(* keeps Value, and the tag is still linked, so the read yields true.      *)
(***************************************************************************)
TagOrSentinel(m, p) == p = End(m) \/ IsTag(m, p)

Erase_KeepTag(m, p0) ==
    LET p == SkipTagForward(m, p0)
    IN  SetIndex(UnlinkCell(m, p), At(m, p).Key, Null)
\* erase(I): unlink the item, and its tag when the group became empty.
Erase(m, p0) ==
    LET p  == SkipTagForward(m, p0)
        m1 == SetIndex(UnlinkCell(m, p), At(m, p).Key, Null)
    IN  IF TagOrSentinel(m1, p) /\ m1.list[p-1] = At(m, p).TagIt
        THEN UnlinkCell(m1, p - 1)
        ELSE m1

\* s without the elements from a up to b.
Cut(s, a, b) == SubSeq(s, 1, a-1) \o SubSeq(s, b, Len(s))

EraseGroup_StaleIndex(m, a, b) ==
    LET Gone == {m.list[i] : i \in a..(b-1)}
    IN  [list  |-> Cut(m.list, a, b),
         item  |-> [n \in Node |-> IF n \in Gone THEN FreeCell ELSE m.item[n]],
         index |-> m.index]

\* eraseAll(I): unlink the tag at a and the items behind it, up to b.
EraseGroup(m, a, b) ==
    LET Gone == {m.list[i] : i \in a..(b-1)}
    IN  [list  |-> Cut(m.list, a, b),
         item  |-> [n \in Node |-> IF n \in Gone THEN FreeCell ELSE m.item[n]],
         index |-> [k \in Key |-> IF \E i \in (a+1)..(b-1) : At(m, i).Key = k
                                  THEN Null ELSE m.index[k]]]

ReplaceKey_KeepNew(m, old, new) ==
    LET m1 == InsertRightAt(m, Find(m, old), new)
    IN  Erase(m1, Find(m1, old))
\* onRAUW: drop the new key, give its place next to the old one, drop the old.
ReplaceKey(m, old, new) ==
    LET m1 == IF m.index[new] = Null THEN m ELSE Erase(m, Find(m, new))
        m2 == InsertRightAt(m1, Find(m1, old), new)
    IN  Erase(m2, Find(m2, old))

-----------------------------------------------------------------------------
(* The bound on the heap: addresses for the cells an operation links.      *)

Room(m) == \E n \in Node : n \notin Live(m)
Room2(m) == \E n1, n2 \in Node : n1 # n2 /\ {n1, n2} \cap Live(m) = {}

Init ==
    /\ KeyList = <<>>
    /\ Item = [n \in Node |-> FreeCell]
    /\ Index = [k \in Key |-> Null]

\* insert(P, K, V): nothing happens when the key is in the map already.
Insert(p, k, v) ==
    /\ Index[k] = Null
    /\ Room2(Map)
    /\ \E q \in 1..End(Map) :
          /\ NewListPos(Map, p, q)
          /\ BecomeInRange(InsertGroup(Map, q, k, v))

\* insertRight(P, K): not at the end of the collection.
InsertRight(p, k) ==
    /\ p # End(Map)
    /\ Index[k] = Null
    /\ Room(Map)
    /\ BecomeInRange(InsertRightAt(Map, p, k))

\* insertLeft(P, K): not at the beginning; the comparison with begin() moves
\* an iterator off a tag first.
InsertLeft(p0, k) ==
    LET p == SkipTagForward(Map, p0) IN
    /\ p # SkipTagForward(Map, 1)
    /\ Index[k] = Null
    /\ Room(Map)
    /\ BecomeInRange(InsertLeftAt(Map, p, k))

EraseAt(p) ==
    /\ p # End(Map)
    /\ Become(Erase(Map, p))

\* eraseAll(I) on any iterator of the group but end().
EraseAll(p) ==
    /\ p # End(Map)
    /\ \E a \in 1..Len(KeyList), b \in 1..End(Map) :
          /\ KeyList[a] = At(Map, p).TagIt
          /\ NextTag(Map, a + 1, b)
          /\ Become(EraseGroup(Map, a, b))

\* operator[](K) = V: writes the value the tag of K's group owns.
Assign(k, v) ==
    /\ Index[k] # Null
    /\ Item' = [Item EXCEPT ![Item[Index[k]].TagIt].Value = v]
    /\ UNCHANGED <<KeyList, Index>>

\* LLVM replaces the value old by new everywhere: the index's onRAUW.
Rauw(old, new) ==
    /\ old # new
    /\ Index[old] # Null
    /\ Room(Map)
    /\ BecomeInRange(ReplaceKey(Map, old, new))

\* LLVM destroys the value k: the index's onDelete.
Delete(k) ==
    /\ Index[k] # Null
    /\ Become(Erase(Map, Find(Map, k)))

Clear ==
    /\ KeyList # <<>>
    /\ KeyList' = <<>>
    /\ Item' = [n \in Node |-> FreeCell]
    /\ Index' = [k \in Key |-> Null]

Next ==
    \/ \E p \in 1..End(Map) :
          \/ \E k \in Key : \/ \E v \in Val : Insert(p, k, v)
                            \/ InsertRight(p, k)
                            \/ InsertLeft(p, k)
          \/ EraseAt(p)
          \/ EraseAll(p)
    \/ \E k \in Key : \/ \E v \in Val : Assign(k, v)
                      \/ Delete(k)
                      \/ \E new \in Key : Rauw(k, new)
    \/ Clear

Spec == Init /\ [][Next]_vars

-----------------------------------------------------------------------------
(* Properties.                                                             *)

\* The cells linked are distinct, their contents and the index well typed.
MapTypeOK(m) ==
    /\ m \in [list : Seq(Node), item : [Node -> CellT],
              index : [Key -> Node \cup {Null}]]
    /\ \A i, j \in 1..Len(m.list) : m.list[i] = m.list[j] => i = j

TypeOK == MapTypeOK(Map)

(***************************************************************************)
(* The TagIt of a cell, which operator*, lookup and eraseAll follow, leads *)
(* to the nearest tag at or in front of it: that of the group the cell is  *)
(* in.  And a tag is followed by an item: an erasure leaves no empty group *)
(* behind.                                                                 *)
(***************************************************************************)
MapLinked(m) ==
    \A i \in 1..Len(m.list) :
        \E t \in 1..i : /\ IsTag(m, t)
                        /\ At(m, i).TagIt = m.list[t]
                        /\ \A x \in (t+1)..i : ~IsTag(m, x)

MapNonEmpty(m) ==
    \A i \in 1..Len(m.list) :
        IsTag(m, i) => i # Len(m.list) /\ ~IsTag(m, i+1)

MapGrouped(m) == MapLinked(m) /\ MapNonEmpty(m)

Grouped == MapGrouped(Map)

(***************************************************************************)
(* The index and the list agree: a key is in exactly one item, the one the *)
(* index points at, whatever RAUW and deletion callbacks did in between.   *)
(***************************************************************************)
MapIndexed(m) ==
    /\ \A i \in 1..Len(m.list) :
          ~IsTag(m, i) => /\ At(m, i).Key \in Key
                          /\ m.index[At(m, i).Key] = m.list[i]
    /\ \A k \in Key : m.index[k] # Null =>
          \E i \in 1..Len(m.list) :
              m.list[i] = m.index[k] /\ ~IsTag(m, i) /\ At(m, i).Key = k

Indexed == MapIndexed(Map)

(***************************************************************************)
(* The order indices, by which the iterators are compared, never decrease  *)
(* along the list, in spite of insertions in any position.                 *)
(***************************************************************************)
MapOrdered(m) ==
    \A i, j \in 1..Len(m.list) :
        i < j => At(m, i).OrderIdx <= At(m, j).OrderIdx

Ordered == MapOrdered(Map)

(***************************************************************************)
(* No operation disturbs a pair that it leaves in the map: a key whose     *)
(* item stays keeps its group, and with it the address of its mapped value *)
(* ("the mapped values will never change allocation address"), its order   *)
(* index, and its place relative to every other such key.  The new key of  *)
(* a RAUW gets an item of its own, be it at a recycled address.            *)
(***************************************************************************)
Before(k, l) ==
    \E i, j \in 1..Len(KeyList) :
        i < j /\ KeyList[i] = Index[k] /\ KeyList[j] = Index[l]

Stays(k) ==
    /\ Index[k] # Null
    /\ Index'[k] = Index[k]
    /\ \A old \in Key : Index[old] # Null /\ Index'[old] = Null => ~Rauw(old, k)

PairsStay ==
    \A k \in Key : Stays(k) =>
        /\ Item'[Index[k]].TagIt = Item[Index[k]].TagIt
        /\ Item'[Index[k]].OrderIdx = Item[Index[k]].OrderIdx
        /\ \A l \in Key : Stays(l) /\ Before(k, l) => Before(k, l)'

PairsStayProp == [][PairsStay]_vars

(***************************************************************************)
(* The list of tags and items implements a sequence of groups of keys,     *)
(* each with one value at one address (module OrderedGroups).              *)
(***************************************************************************)
\* The groups gs and the cell c at the address n behind them: a tag begins a
\* group, an item joins the last one.
WithCell(gs, n, c) ==
    IF c.Value # Null
    THEN Append(gs, [addr |-> n, val |-> c.Value, keys |-> <<>>])
    ELSE [gs EXCEPT ![Len(gs)].keys = Append(@, c.Key)]

GroupsOf(m) ==
    LET upTo[p \in 0..Len(m.list)] ==
            IF p = 0 THEN <<>> ELSE WithCell(upTo[p-1], m.list[p], At(m, p))
    IN  upTo[Len(m.list)]

Groups == GroupsOf(Map)

Abs == INSTANCE OrderedGroups WITH groups <- Groups, Addr <- Node

\* The place of the collection that the iterator p stands for: on a tag it is
\* moved to the first key of the group when it is used.
PlaceOf(p) ==
    LET q == SkipTagForward(Map, p)
    IN  IF q = End(Map) THEN Abs!End
        ELSE CHOOSE P \in Abs!Places : Abs!KeyAt(P) = At(Map, q).Key

(***************************************************************************)
(* Each operation has the effect its comment in the header promises, at    *)
(* the place and for the key it is called with: insert() makes a group of  *)
(* its own at that place, between two groups insertRight() joins the right *)
(* one and insertLeft() the left one, an erasure takes the key it points   *)
(* at and a group goes with its last key, the new key of a RAUW takes the  *)
(* place of the old one.  The other keys and groups stay as they are.      *)
(***************************************************************************)
EachAsPromised ==
    /\ \A p \in 1..End(Map), k \in Key :
          /\ \A v \in Val : Insert(p, k, v) => Abs!InsertGroup(PlaceOf(p), k, v)
          /\ InsertRight(p, k) => Abs!InsertRight(PlaceOf(p), k)
          /\ InsertLeft(p, k) => Abs!InsertLeft(PlaceOf(p), k)
    /\ \A p \in 1..Len(KeyList) :
          /\ EraseAt(p) => Abs!RemoveKey(Abs!KeyAt(PlaceOf(p)))
          /\ EraseAll(p) => Abs!RemoveGroup(PlaceOf(p))
    /\ \A k \in Key :
          /\ \A v \in Val : Assign(k, v) => Abs!Assign(k, v)
          /\ Delete(k) => Abs!RemoveKey(k)
          /\ \A new \in Key : Rauw(k, new) => Abs!Replace(k, new)
    /\ Clear => Abs!Clear

\* The map implements the collection, operation for operation; so each of its
\* steps is one of Abs!Next.
ImplementsOrderedGroups == Abs!Init /\ [][EachAsPromised]_vars
=============================================================================
