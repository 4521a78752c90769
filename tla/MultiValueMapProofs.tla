------------------------- MODULE MultiValueMapProofs -------------------------
(***************************************************************************)
(* The structural invariants of MultiValueMap, what its iterators show,    *)
(* and that it implements OrderedGroups, hold for any sets of keys, values *)
(* and addresses, any spacing and any history of operations.               *)
(***************************************************************************)
EXTENDS MultiValueMapIterators, SequenceTheorems, Induction, TLAPS

(***************************************************************************)
(* Sequences: what insertion and removal do to the elements.               *)
(***************************************************************************)
\* InsertAt shifts the elements from position i on by one.
LEMMA InsertAtElements ==
    ASSUME NEW S, NEW s \in Seq(S), NEW i \in 1..(Len(s) + 1), NEW e \in S
    PROVE  /\ InsertAt(s, i, e) \in Seq(S)
           /\ Len(InsertAt(s, i, e)) = Len(s) + 1
           /\ \A j \in 1..(Len(s)+1) : InsertAt(s, i, e)[j] =
                 IF j < i THEN s[j] ELSE IF j = i THEN e ELSE s[j-1]
<1> DEFINE l == SubSeq(s, 1, i-1)
           r == SubSeq(s, i, Len(s))
<1>1. /\ l \in Seq(S) /\ Len(l) = i - 1
      /\ \A j \in 1..(i-1) : l[j] = s[j]
  BY SubSeqProperties
<1>2. /\ r \in Seq(S) /\ Len(r) = Len(s) - i + 1
      /\ \A j \in 1..(Len(s) - i + 1) : r[j] = s[j + i - 1]
  BY SubSeqProperties
<1> HIDE DEF l, r
<1>3. InsertAt(s, i, e) = l \o <<e>> \o r
  BY DEF InsertAt, l, r
<1>4. /\ l \o <<e>> \in Seq(S) /\ Len(l \o <<e>>) = i
      /\ (l \o <<e>>)[i] = e
      /\ \A j \in 1..(i-1) : (l \o <<e>>)[j] = s[j]
  BY <1>1
<1> QED
  <2> DEFINE le == l \o <<e>>
  <2>1. /\ le \in Seq(S) /\ Len(le) = i
        /\ le[i] = e
        /\ \A j \in 1..(i-1) : le[j] = s[j]
    BY <1>4
  <2> HIDE DEF le
  <2>2. /\ le \o r \in Seq(S) /\ Len(le \o r) = Len(s) + 1
        /\ \A j \in 1..i : (le \o r)[j] = le[j]
        /\ \A j \in (i+1)..(Len(s)+1) : (le \o r)[j] = r[j-i]
    BY <1>2, <2>1
  <2>3. \A j \in (i+1)..(Len(s)+1) : r[j-i] = s[j-1]
    BY <1>2
  <2>4. InsertAt(s, i, e) = le \o r
    BY <1>3 DEF le
  <2> QED
    BY <2>1, <2>2, <2>3, <2>4

\* RemoveAt shifts the elements behind position i back by one.
LEMMA RemoveAtElements ==
    ASSUME NEW S, NEW s \in Seq(S), NEW i \in 1..Len(s)
    PROVE  /\ RemoveAt(s, i) \in Seq(S)
           /\ Len(RemoveAt(s, i)) = Len(s) - 1
           /\ \A j \in 1..(i-1) : RemoveAt(s, i)[j] = s[j]
           /\ \A j \in i..(Len(s)-1) : RemoveAt(s, i)[j] = s[j+1]
<1> DEFINE l == SubSeq(s, 1, i-1)
           r == SubSeq(s, i+1, Len(s))
<1>1. /\ l \in Seq(S) /\ Len(l) = i - 1
      /\ \A j \in 1..(i-1) : l[j] = s[j]
  BY SubSeqProperties
<1>2. /\ r \in Seq(S) /\ Len(r) = Len(s) - i
      /\ \A j \in 1..(Len(s) - i) : r[j] = s[j + i]
  BY SubSeqProperties
<1> HIDE DEF l, r
<1>3. RemoveAt(s, i) = l \o r
  BY DEF RemoveAt, l, r
<1> QED
  BY <1>1, <1>2, <1>3

(***************************************************************************)
(* Order indices.                                                          *)
(***************************************************************************)
\* The C++ midpoint of two ordered indices lies between them.
LEMMA HalfBetween ==
    ASSUME NEW a \in Int, NEW b \in Int, a <= b
    PROVE  Half(a + b) \in Int /\ a <= Half(a + b) /\ Half(a + b) <= b
BY DEF Half

(***************************************************************************)
(* One cell linked or unlinked.                                            *)
(***************************************************************************)
\* Linking a fresh cell at p: the others keep their contents and order.
LEMMA LinkCellAt ==
    ASSUME NEW m, MapTypeOK(m), NEW p \in 1..End(m), NEW c \in CellT,
           NEW n \in Node, n \notin Live(m), NEW r, r = LinkCell(m, p, n, c)
    PROVE  /\ MapTypeOK(r)
           /\ End(r) = End(m) + 1
           /\ r.index = m.index
           /\ r.list[p] = n /\ At(r, p) = c
           /\ \A j \in 1..(p-1) : r.list[j] = m.list[j] /\ At(r, j) = At(m, j)
           /\ \A j \in (p+1)..End(m) :
                 r.list[j] = m.list[j-1] /\ At(r, j) = At(m, j-1)
<1>1. m.list \in Seq(Node) /\ m.item \in [Node -> CellT]
      /\ m.index \in [Key -> Node \cup {Null}]
  BY DEF MapTypeOK
<1>2. \A i, j \in 1..Len(m.list) : m.list[i] = m.list[j] => i = j
  BY DEF MapTypeOK
<1> DEFINE L == InsertAt(m.list, p, n)
           I == [m.item EXCEPT ![n] = c]
<1>3. /\ L \in Seq(Node) /\ Len(L) = Len(m.list) + 1
      /\ \A j \in 1..(Len(m.list) + 1) :
            L[j] = IF j < p THEN m.list[j] ELSE IF j = p THEN n ELSE m.list[j-1]
  <2>0. n \in Node
    OBVIOUS
  <2>1. p \in 1..(Len(m.list) + 1)
    BY DEF End
  <2>2. m.list \in Seq(Node)
    BY <1>1
  <2>3. ASSUME NEW s \in Seq(Node), NEW i \in 1..(Len(s) + 1)
        PROVE  /\ InsertAt(s, i, n) \in Seq(Node)
               /\ Len(InsertAt(s, i, n)) = Len(s) + 1
               /\ \A j \in 1..(Len(s)+1) : InsertAt(s, i, n)[j] =
                     IF j < i THEN s[j] ELSE IF j = i THEN n ELSE s[j-1]
    BY ONLY InsertAtElements, <2>0, <2>3
  <2> QED
    BY <2>1, <2>2, <2>3
<1>4. r.list = L /\ r.item = I /\ r.index = m.index
      /\ r = [list |-> L, item |-> I, index |-> m.index]
  BY DEF LinkCell
<1> HIDE DEF L
<1>5. Len(m.list) \in Nat /\ \A j \in 1..Len(m.list) : m.list[j] \in Node
  BY <1>1
<1>6. \A j \in 1..Len(m.list) : m.list[j] # n /\ I[m.list[j]] = m.item[m.list[j]]
  BY <1>1, <1>5 DEF Live
<1>7. I \in [Node -> CellT] /\ I[n] = c
  BY <1>1
<1> HIDE DEF I
<1>8. \A i, j \in 1..Len(L) : L[i] = L[j] => i = j
  <2> SUFFICES ASSUME NEW i \in 1..Len(L), NEW j \in 1..Len(L), i < j,
                      L[i] = L[j]
               PROVE  FALSE
    BY <1>3, <1>5
  <2>1. CASE i < p /\ j < p
    BY <2>1, <1>2, <1>3, <1>5 DEF End
  <2>2. CASE i < p /\ j = p
    BY <2>2, <1>6, <1>3, <1>5 DEF End
  <2>3. CASE i < p /\ j > p
    BY SMTT(30), <2>3, <1>2, <1>3, <1>5 DEF End
  <2>4. CASE i = p
    BY <2>4, <1>6, <1>3, <1>5 DEF End
  <2>5. CASE i > p
    <3>1. i - 1 \in 1..Len(m.list) /\ j - 1 \in 1..Len(m.list) /\ p \in Int
      BY <2>5, <1>3, <1>5 DEF End
    <3>2. L[i] = m.list[i-1] /\ L[j] = m.list[j-1]
      BY <2>5, <1>3, <1>5, <3>1 DEF End
    <3>3. i - 1 = j - 1
      BY <3>1, <3>2, <1>2
    <3> QED
      BY <3>1, <3>3, <1>3, <1>5
  <2> QED
    BY <2>1, <2>2, <2>3, <2>4, <2>5, <1>3, <1>5 DEF End
<1>9. MapTypeOK(r)
  BY <1>1, <1>3, <1>4, <1>7, <1>8 DEF MapTypeOK
<1>10. /\ End(r) = End(m) + 1
       /\ r.list[p] = n /\ At(r, p) = c
  BY <1>3, <1>4, <1>5, <1>7 DEF At, End
<1>11. ASSUME NEW j \in 1..(p-1)
       PROVE  r.list[j] = m.list[j] /\ At(r, j) = At(m, j)
  <2>1. j \in 1..Len(m.list) /\ j \in 1..(Len(m.list) + 1) /\ j < p
    BY <1>5 DEF End
  <2> QED
    BY <2>1, <1>3, <1>4, <1>6 DEF At
<1>12. ASSUME NEW j \in (p+1)..End(m)
       PROVE  r.list[j] = m.list[j-1] /\ At(r, j) = At(m, j-1)
  <2>1. j - 1 \in 1..Len(m.list) /\ j \in (p+1)..(Len(m.list) + 1)
    BY <1>5 DEF End
  <2>2. r.list[j] = m.list[j-1]
    BY <2>1, <1>3, <1>4
  <2> QED
    BY <2>1, <2>2, <1>4, <1>6 DEF At
<1> QED
  BY <1>4, <1>9, <1>10, <1>11, <1>12

\* Unlinking the cell at p: the others keep their contents and order.
LEMMA UnlinkCellAt ==
    ASSUME NEW m, MapTypeOK(m), NEW p \in 1..Len(m.list),
           NEW r, r = UnlinkCell(m, p)
    PROVE  /\ MapTypeOK(r)
           /\ End(r) = End(m) - 1
           /\ r.index = m.index
           /\ \A j \in 1..(p-1) : r.list[j] = m.list[j] /\ At(r, j) = At(m, j)
           /\ \A j \in p..(Len(m.list) - 1) :
                 r.list[j] = m.list[j+1] /\ At(r, j) = At(m, j+1)
<1>1. m.list \in Seq(Node) /\ m.item \in [Node -> CellT]
      /\ m.index \in [Key -> Node \cup {Null}]
  BY DEF MapTypeOK
<1>2. \A i, j \in 1..Len(m.list) : m.list[i] = m.list[j] => i = j
  BY DEF MapTypeOK
<1> DEFINE L == RemoveAt(m.list, p)
           I == [m.item EXCEPT ![m.list[p]] = FreeCell]
<1>3. /\ L \in Seq(Node) /\ Len(L) = Len(m.list) - 1
      /\ \A j \in 1..(p-1) : L[j] = m.list[j]
      /\ \A j \in p..(Len(m.list) - 1) : L[j] = m.list[j+1]
  BY <1>1, RemoveAtElements
<1>4. r.list = L /\ r.item = I /\ r.index = m.index
      /\ r = [list |-> L, item |-> I, index |-> m.index]
  BY DEF UnlinkCell
<1> HIDE DEF L
<1>5. Len(m.list) \in Nat /\ \A j \in 1..Len(m.list) : m.list[j] \in Node
  BY <1>1
<1>6. \A j \in 1..Len(m.list) : j # p => I[m.list[j]] = m.item[m.list[j]]
  BY <1>1, <1>2, <1>5
<1>7. I \in [Node -> CellT]
  BY <1>1 DEF FreeCell, CellT
<1> HIDE DEF I
<1>8. \A i, j \in 1..Len(L) : L[i] = L[j] => i = j
  <2> SUFFICES ASSUME NEW i \in 1..Len(L), NEW j \in 1..Len(L), i < j,
                      L[i] = L[j]
               PROVE  FALSE
    BY <1>3, <1>5
  <2>1. CASE j < p
    BY <2>1, <1>2, <1>3, <1>5
  <2>2. CASE i < p /\ j >= p
    BY <2>2, <1>2, <1>3, <1>5
  <2>3. CASE i >= p
    BY <2>3, <1>2, <1>3, <1>5
  <2> QED
    BY <2>1, <2>2, <2>3, <1>3, <1>5
<1>9. MapTypeOK(r)
  BY <1>1, <1>3, <1>4, <1>7, <1>8 DEF MapTypeOK
<1>10. End(r) = End(m) - 1
  BY <1>3, <1>4, <1>5 DEF End
<1>11. ASSUME NEW j \in 1..(p-1)
       PROVE  r.list[j] = m.list[j] /\ At(r, j) = At(m, j)
  BY <1>3, <1>4, <1>5, <1>6 DEF At
<1>12. ASSUME NEW j \in p..(Len(m.list) - 1)
       PROVE  r.list[j] = m.list[j+1] /\ At(r, j) = At(m, j+1)
  <2>1. j + 1 \in 1..Len(m.list) /\ j + 1 # p
    BY <1>5
  <2>2. r.list[j] = m.list[j+1]
    BY <1>3, <1>4
  <2> QED
    BY <2>1, <2>2, <1>4, <1>6 DEF At
<1> QED
  BY <1>4, <1>9, <1>10, <1>11, <1>12

(***************************************************************************)
(* The invariants of one map.  Core leaves out that groups are not empty:  *)
(* between the two insertions of insert(), and before the second erasure   *)
(* of erase(), one group is.                                               *)
(***************************************************************************)
Core(m) == MapTypeOK(m) /\ MapLinked(m) /\ MapIndexed(m) /\ MapOrdered(m)

MapInv(m) == Core(m) /\ MapNonEmpty(m)

\* Positions, and what is at them.
LEMMA Shape ==
    ASSUME NEW m, MapTypeOK(m)
    PROVE  /\ Len(m.list) \in Nat
           /\ End(m) \in Nat
           /\ End(m) = Len(m.list) + 1
           /\ \A i \in 1..Len(m.list) :
                 /\ m.list[i] \in Node
                 /\ At(m, i) \in CellT
                 /\ IsTag(m, i) <=> At(m, i).Value # Null
           /\ ~IsTag(m, End(m))
BY DEF MapTypeOK, End, At, IsTag

\* The index of a new element fits between those of its neighbours.
LEMMA OrderIdxFits ==
    ASSUME NEW m, MapTypeOK(m), MapOrdered(m), NEW p \in 1..End(m)
    PROVE  /\ OrderIdxForNewElem(m, p) \in Int
           /\ p # 1 => At(m, p-1).OrderIdx <= OrderIdxForNewElem(m, p)
           /\ p # End(m) => OrderIdxForNewElem(m, p) <= At(m, p).OrderIdx
<1>1. \A i \in 1..Len(m.list) : At(m, i).OrderIdx \in Int
  BY Shape DEF CellT
<1>2. CASE p = 1
  BY <1>2, <1>1, Shape, ConstAssumption DEF OrderIdxForNewElem
<1>3. CASE p # 1 /\ p = End(m)
  BY <1>3, <1>1, Shape, ConstAssumption DEF OrderIdxForNewElem
<1>4. CASE p # 1 /\ p # End(m)
  <2>1. p \in 1..Len(m.list) /\ p - 1 \in 1..Len(m.list)
    BY <1>4, Shape
  <2>2. At(m, p-1).OrderIdx <= At(m, p).OrderIdx
    BY <2>1 DEF MapOrdered
  <2>3. OrderIdxForNewElem(m, p) = Half(At(m, p-1).OrderIdx + At(m, p).OrderIdx)
    BY <1>4, Shape DEF OrderIdxForNewElem
  <2> QED
    BY <2>1, <2>2, <2>3, <1>1, HalfBetween
<1> QED
  BY <1>2, <1>3, <1>4

\* A map in which one cell with the right order index was linked is ordered.
LEMMA LinkOrdered ==
    ASSUME NEW m, MapTypeOK(m), MapOrdered(m), NEW p \in 1..End(m), NEW c \in CellT,
           c.OrderIdx = OrderIdxForNewElem(m, p),
           NEW n \in Node, n \notin Live(m), NEW r, r = LinkCell(m, p, n, c)
    PROVE  MapOrdered(r)
<1> DEFINE o(i) == At(m, i).OrderIdx
           x == c.OrderIdx
           N == Len(m.list)
<1>1. /\ Len(r.list) = N + 1 /\ N \in Nat /\ p \in 1..(N+1)
      /\ At(r, p) = c
      /\ \A j \in 1..(p-1) : At(r, j) = At(m, j)
      /\ \A j \in (p+1)..(N+1) : At(r, j) = At(m, j-1)
  BY LinkCellAt, Shape DEF End
<1>2. \A i \in 1..N : o(i) \in Int
  BY Shape DEF CellT
<1>3. \A i, j \in 1..N : i < j => o(i) <= o(j)
  BY DEF MapOrdered
<1>4. /\ x \in Int
      /\ p # 1 => o(p-1) <= x
      /\ p # N + 1 => x <= o(p)
  BY OrderIdxFits, Shape
<1> SUFFICES ASSUME NEW i \in 1..(N+1), NEW j \in 1..(N+1), i < j
             PROVE  At(r, i).OrderIdx <= At(r, j).OrderIdx
  BY <1>1 DEF MapOrdered
<1>5. CASE j < p
  BY <1>5, <1>1, <1>3
<1>6. CASE j = p
  <2>1. At(r, i).OrderIdx = o(i) /\ i \in 1..N /\ p - 1 \in 1..N
    BY <1>6, <1>1
  <2>2. o(i) <= o(p-1)
    BY <2>1, <1>6, <1>1, <1>2, <1>3
  <2> QED
    BY <2>1, <2>2, <1>6, <1>1, <1>2, <1>4
<1>7. CASE i < p /\ p < j
  <2>1. /\ At(r, i).OrderIdx = o(i) /\ At(r, j).OrderIdx = o(j-1)
        /\ i \in 1..N /\ j - 1 \in 1..N /\ i <= j - 1
    BY <1>7, <1>1
  <2> QED
    BY <2>1, <1>2, <1>3
<1>8. CASE i = p
  <2>1. /\ At(r, j).OrderIdx = o(j-1)
        /\ p \in 1..N /\ j - 1 \in 1..N /\ p <= j - 1
    BY <1>8, <1>1
  <2>2. o(p) <= o(j-1)
    BY <2>1, <1>2, <1>3
  <2> QED
    BY SMTT(30), <2>1, <2>2, <1>8, <1>1, <1>2, <1>4
<1>9. CASE i > p
  <2>1. /\ At(r, i).OrderIdx = o(i-1) /\ At(r, j).OrderIdx = o(j-1)
        /\ i - 1 \in 1..N /\ j - 1 \in 1..N /\ i - 1 < j - 1
    BY <1>9, <1>1
  <2> QED
    BY <2>1, <1>3
<1> QED
  BY <1>1, <1>5, <1>6, <1>7, <1>8, <1>9

\* There is an address for a new cell when there is room.
LEMMA NewNodeFresh ==
    ASSUME NEW m, Room(m)
    PROVE  NewNode(m) \in Node /\ NewNode(m) \notin Live(m)
BY DEF Room, NewNode

\* An item linked behind a cell of the group of t belongs to that group.
LEMMA LinkItemCore ==
    ASSUME NEW m, Core(m), NEW p \in 2..End(m), NEW k \in Key,
           m.index[k] = Null, Room(m), NEW t, t = At(m, p-1).TagIt,
           NEW r, r = LinkItem(m, p, k, t)
    PROVE  /\ Core(r)
           /\ End(r) = End(m) + 1
           /\ \A l \in Key : r.index[l] = IF l = k THEN NewNode(m) ELSE m.index[l]
           /\ ~IsTag(r, p)
           /\ \A j \in 1..(p-1) : (IsTag(r, j) <=> IsTag(m, j))
           /\ \A j \in (p+1)..End(m) : (IsTag(r, j) <=> IsTag(m, j-1))
<1> DEFINE n == NewNode(m)
           c == NewItem(m, p, k, t)
           r0 == LinkCell(m, p, n, c)
           N == Len(m.list)
<1>1. MapTypeOK(m) /\ MapLinked(m) /\ MapIndexed(m) /\ MapOrdered(m)
  BY DEF Core
<1>2. n \in Node /\ n \notin Live(m)
  BY NewNodeFresh
<1>3. N \in Nat /\ End(m) = N + 1 /\ p \in 1..End(m) /\ p - 1 \in 1..N
  BY <1>1, Shape
<1>4. /\ c \in CellT /\ c.Value = Null /\ c.Key = k /\ c.TagIt = t
      /\ c.OrderIdx = OrderIdxForNewElem(m, p)
  <2>1. t \in Node \cup {Null}
    BY <1>1, <1>3, Shape DEF CellT
  <2>2. OrderIdxForNewElem(m, p) \in Int
    BY <1>1, <1>3, OrderIdxFits
  <2> QED
    BY <2>1, <2>2 DEF NewItem, CellT
<1> HIDE DEF c, n
<1>5. /\ MapTypeOK(r0) /\ MapOrdered(r0)
      /\ End(r0) = End(m) + 1 /\ r0.index = m.index
      /\ r0.list[p] = n /\ At(r0, p) = c
      /\ \A j \in 1..(p-1) : r0.list[j] = m.list[j] /\ At(r0, j) = At(m, j)
      /\ \A j \in (p+1)..End(m) : r0.list[j] = m.list[j-1] /\ At(r0, j) = At(m, j-1)
  <2>1. MapOrdered(r0)
    BY <1>1, <1>2, <1>3, <1>4, LinkOrdered
  <2> QED
    BY <2>1, <1>1, <1>2, <1>3, <1>4, LinkCellAt
<1> HIDE DEF r0
<1>6. r = [list |-> r0.list, item |-> r0.item, index |-> [m.index EXCEPT ![k] = n]]
  BY <1>5 DEF LinkItem, SetIndex, r0, c, n
<1>7. /\ r.list = r0.list /\ r.index = [m.index EXCEPT ![k] = n]
      /\ End(r) = N + 2 /\ Len(r.list) = N + 1
      /\ \A j \in 1..(N+1) : At(r, j) = At(r0, j)
  <2>1. /\ r.list = r0.list /\ r.index = [m.index EXCEPT ![k] = n]
        /\ r.item = r0.item
    BY <1>6
  <2>2. Len(r0.list) = N + 1
    <3>1. Len(r0.list) \in Nat /\ End(r0) = Len(r0.list) + 1
      BY <1>5, Shape
    <3>2. End(r0) = N + 2
      BY <1>3, <1>5
    <3> QED
      BY <3>1, <3>2, <1>3
  <2> QED
    BY <2>1, <2>2, <1>3 DEF At, End
<1>8. MapTypeOK(r)
  <2>1. [m.index EXCEPT ![k] = n] \in [Key -> Node \cup {Null}]
    BY <1>1, <1>2 DEF MapTypeOK
  <2>2. /\ r0.list \in Seq(Node) /\ r0.item \in [Node -> CellT]
        /\ \A i, j \in 1..Len(r0.list) : r0.list[i] = r0.list[j] => i = j
    BY <1>5 DEF MapTypeOK
  <2>3. r \in [list : Seq(Node), item : [Node -> CellT],
              index : [Key -> Node \cup {Null}]]
    BY <2>1, <2>2, <1>6
  <2> QED
    BY <2>2, <2>3, <1>7 DEF MapTypeOK
<1>9. /\ ~IsTag(r, p)
      /\ \A j \in 1..(p-1) : (IsTag(r, j) <=> IsTag(m, j))
      /\ \A j \in (p+1)..End(m) : (IsTag(r, j) <=> IsTag(m, j-1))
  <2>1. \A j \in 1..(N+1) : IsTag(r, j) <=> At(r0, j).Value # Null
    BY <1>7, <1>8, Shape
  <2>2. \A j \in 1..N : IsTag(m, j) <=> At(m, j).Value # Null
    BY <1>1, Shape
  <2>3. ~IsTag(r, p)
    BY <2>1, <1>3, <1>4, <1>5
  <2>4. \A j \in 1..(p-1) : IsTag(r, j) <=> IsTag(m, j)
    BY <2>1, <2>2, <1>3, <1>5
  <2>5. ASSUME NEW j \in (p+1)..End(m)
        PROVE  IsTag(r, j) <=> IsTag(m, j-1)
    <3>1. j \in 1..(N+1) /\ j - 1 \in 1..N
      BY <1>3
    <3> QED
      BY <3>1, <2>1, <2>2, <1>5
  <2> QED
    BY <2>3, <2>4, <2>5
<1>10. MapOrdered(r)
  BY <1>5, <1>7, Shape, <1>3 DEF MapOrdered
<1>11. MapLinked(r)
  <2> SUFFICES ASSUME NEW i \in 1..(N+1)
               PROVE  \E x \in 1..i : /\ IsTag(r, x)
                                      /\ At(r, i).TagIt = r.list[x]
                                      /\ \A y \in (x+1)..i : ~IsTag(r, y)
    BY <1>7 DEF MapLinked
  <2>1. CASE i <= p
    <3> DEFINE h == IF i < p THEN i ELSE p - 1
    <3>1. h \in 1..N /\ h <= i /\ h < p
      BY <2>1, <1>3
    <3>2. PICK x \in 1..h : /\ IsTag(m, x)
                            /\ At(m, h).TagIt = m.list[x]
                            /\ \A y \in (x+1)..h : ~IsTag(m, y)
      BY <3>1, <1>1 DEF MapLinked
    <3>3. At(r, i).TagIt = At(m, h).TagIt
      BY <2>1, <1>3, <1>4, <1>5, <1>7
    <3>4. x \in 1..i /\ IsTag(r, x) /\ r.list[x] = m.list[x]
      BY <3>1, <3>2, <1>3, <1>5, <1>7, <1>9
    <3>5. ASSUME NEW y \in (x+1)..i PROVE ~IsTag(r, y)
      <4>1. CASE y < p
        <5>1. y \in (x+1)..h /\ y \in 1..(p-1)
          BY <2>1, <4>1, <3>1, <3>2
        <5> QED
          BY <5>1, <3>2, <1>9
      <4>2. CASE y = p
        BY <4>2, <1>9
      <4> QED
        BY <4>1, <4>2, <2>1, <1>3
    <3> QED
      BY <3>2, <3>3, <3>4, <3>5
  <2>2. CASE i > p
    <3>1. i - 1 \in 1..N /\ At(r, i) = At(m, i-1) /\ i \in (p+1)..End(m)
      BY <2>2, <1>3, <1>5, <1>7
    <3>2. PICK x \in 1..(i-1) : /\ IsTag(m, x)
                                /\ At(m, i-1).TagIt = m.list[x]
                                /\ \A y \in (x+1)..(i-1) : ~IsTag(m, y)
      BY <3>1, <1>1 DEF MapLinked
    <3> DEFINE z == IF x < p THEN x ELSE x + 1
    <3>3. z \in 1..i /\ IsTag(r, z) /\ r.list[z] = m.list[x]
      <4>1. CASE x < p
        BY <4>1, <3>1, <3>2, <1>3, <1>5, <1>7, <1>9
      <4>2. CASE x >= p
        <5>1. x + 1 \in (p+1)..End(m) /\ (x + 1) - 1 = x
          BY <4>2, <3>1, <3>2, <1>3
        <5> QED
          BY <4>2, <5>1, <3>1, <3>2, <1>3, <1>5, <1>7, <1>9
      <4> QED
        BY <4>1, <4>2, <1>3
    <3>4. ASSUME NEW y \in (z+1)..i PROVE ~IsTag(r, y)
      <4>1. CASE y < p
        <5>1. y \in (x+1)..(i-1) /\ y \in 1..(p-1)
          BY <4>1, <3>1, <3>2, <1>3, <2>2
        <5> QED
          BY <5>1, <3>2, <1>9
      <4>2. CASE y = p
        BY <4>2, <1>9
      <4>3. CASE y > p
        <5>1. y - 1 \in (x+1)..(i-1) /\ y \in (p+1)..End(m)
          BY <4>3, <3>1, <3>2, <1>3, <2>2
        <5> QED
          BY <5>1, <3>2, <1>9
      <4> QED
        BY <4>1, <4>2, <4>3, <3>3, <1>3
    <3> HIDE DEF z
    <3> QED
      BY <3>1, <3>2, <3>3, <3>4
  <2> QED
    BY <2>1, <2>2, <1>3
<1>12. MapIndexed(r)
  <2>1. \A i \in 1..N : ~IsTag(m, i) =>
            At(m, i).Key \in Key /\ m.index[At(m, i).Key] = m.list[i]
    BY <1>1 DEF MapIndexed
  <2>2. \A i \in 1..N : m.list[i] # Null /\ m.list[i] \in Node
    BY <1>1, Shape, ConstAssumption
  <2>3. ASSUME NEW i \in 1..(N+1), ~IsTag(r, i)
        PROVE  At(r, i).Key \in Key /\ r.index[At(r, i).Key] = r.list[i]
    <3>1. CASE i = p
      BY <3>1, <1>1, <1>4, <1>5, <1>7 DEF MapTypeOK
    <3>2. CASE i < p
      <4>1. i \in 1..N /\ ~IsTag(m, i) /\ At(r, i) = At(m, i) /\ r.list[i] = m.list[i]
        BY <3>2, <2>3, <1>3, <1>5, <1>7, <1>9, SMTT(40)
      <4> QED
        BY <4>1, <2>1, <2>2, <1>1, <1>7 DEF MapTypeOK
    <3>3. CASE i > p
      <4>1. /\ i - 1 \in 1..N /\ ~IsTag(m, i-1) /\ At(r, i) = At(m, i-1)
            /\ r.list[i] = m.list[i-1]
        BY <3>3, <2>3, <1>3, <1>5, <1>7, <1>9, SMTT(40)
      <4> QED
        BY <4>1, <2>1, <2>2, <1>1, <1>7 DEF MapTypeOK
    <3> QED
      BY <3>1, <3>2, <3>3, <1>3
  <2>4. ASSUME NEW l \in Key, r.index[l] # Null
        PROVE  \E i \in 1..(N+1) :
                   r.list[i] = r.index[l] /\ ~IsTag(r, i) /\ At(r, i).Key = l
    <3>1. CASE l = k
      BY <3>1, <1>1, <1>3, <1>4, <1>5, <1>7, <1>9 DEF MapTypeOK
    <3>2. CASE l # k
      <4>1. r.index[l] = m.index[l]
        BY <3>2, <1>1, <1>7 DEF MapTypeOK
      <4>2. PICK i \in 1..N :
                m.list[i] = m.index[l] /\ ~IsTag(m, i) /\ At(m, i).Key = l
        BY <4>1, <2>4, <1>1 DEF MapIndexed
      <4>3. CASE i < p
        BY <4>1, <4>2, <4>3, <1>3, <1>5, <1>7, <1>9
      <4>4. CASE i >= p
        <5>1. /\ i + 1 \in 1..(N+1) /\ r.list[i+1] = m.list[i]
              /\ At(r, i+1) = At(m, i) /\ (IsTag(r, i+1) <=> IsTag(m, i))
          BY <4>4, <1>3, <1>5, <1>7, <1>9
        <5> QED
          BY <5>1, <4>1, <4>2
      <4> QED
        BY <4>3, <4>4, <1>3
    <3> QED
      BY <3>1, <3>2
  <2> QED
    BY <2>3, <2>4, <1>7 DEF MapIndexed
<1>13. \A l \in Key : r.index[l] = IF l = k THEN n ELSE m.index[l]
  BY <1>1, <1>7 DEF MapTypeOK
<1> QED
  BY <1>3, <1>7, <1>8, <1>9, <1>10, <1>11, <1>12, <1>13 DEF Core, n

\* A tag linked in front of a tag or at the end starts a group of its own.
LEMMA LinkTagCore ==
    ASSUME NEW m, Core(m), NEW p \in 1..End(m), p = End(m) \/ IsTag(m, p),
           NEW v \in Val, Room(m), NEW r, r = LinkTag(m, p, v)
    PROVE  /\ Core(r)
           /\ End(r) = End(m) + 1
           /\ r.index = m.index
           /\ r.list[p] = NewNode(m) /\ At(r, p).TagIt = NewNode(m)
           /\ IsTag(r, p)
           /\ \A j \in 1..(p-1) : IsTag(r, j) <=> IsTag(m, j)
           /\ \A j \in (p+1)..End(m) : IsTag(r, j) <=> IsTag(m, j-1)
           /\ Live(r) = Live(m) \cup {NewNode(m)}
<1> DEFINE n == NewNode(m)
           c == NewTag(m, p, v, n)
           N == Len(m.list)
<1>1. MapTypeOK(m) /\ MapLinked(m) /\ MapIndexed(m) /\ MapOrdered(m)
  BY DEF Core
<1>2. n \in Node /\ n \notin Live(m)
  BY NewNodeFresh
<1>3. N \in Nat /\ End(m) = N + 1 /\ p \in 1..(N+1)
  BY <1>1, Shape
<1>4. /\ c \in CellT /\ c.Value # Null /\ c.TagIt = n
      /\ c.OrderIdx = OrderIdxForNewElem(m, p)
  <2>1. OrderIdxForNewElem(m, p) \in Int
    BY <1>1, <1>3, OrderIdxFits
  <2> QED
    BY <2>1, <1>2, ConstAssumption DEF NewTag, CellT
<1>5. r = LinkCell(m, p, n, c)
  BY DEF LinkTag
<1> HIDE DEF c, n
<1>6. /\ MapTypeOK(r) /\ MapOrdered(r)
      /\ End(r) = End(m) + 1 /\ r.index = m.index
      /\ r.list[p] = n /\ At(r, p) = c
      /\ \A j \in 1..(p-1) : r.list[j] = m.list[j] /\ At(r, j) = At(m, j)
      /\ \A j \in (p+1)..End(m) : r.list[j] = m.list[j-1] /\ At(r, j) = At(m, j-1)
  <2>1. MapOrdered(r)
    BY <1>1, <1>2, <1>3, <1>4, <1>5, LinkOrdered
  <2> QED
    BY <2>1, <1>1, <1>2, <1>3, <1>4, <1>5, LinkCellAt
<1>7. Len(r.list) = N + 1
  <2>1. Len(r.list) \in Nat /\ End(r) = Len(r.list) + 1
    BY <1>6, Shape
  <2>2. End(r) = N + 2
    BY <1>3, <1>6
  <2> QED
    BY <2>1, <2>2, <1>3
<1>9. /\ IsTag(r, p)
      /\ \A j \in 1..(p-1) : IsTag(r, j) <=> IsTag(m, j)
      /\ \A j \in (p+1)..End(m) : IsTag(r, j) <=> IsTag(m, j-1)
  <2>1. \A j \in 1..(N+1) : IsTag(r, j) <=> At(r, j).Value # Null
    BY <1>6, <1>7, Shape
  <2>2. \A j \in 1..N : IsTag(m, j) <=> At(m, j).Value # Null
    BY <1>1, Shape
  <2>3. IsTag(r, p)
    BY <2>1, <1>3, <1>4, <1>6
  <2>4. \A j \in 1..(p-1) : IsTag(r, j) <=> IsTag(m, j)
    BY <2>1, <2>2, <1>3, <1>6
  <2>5. ASSUME NEW j \in (p+1)..End(m)
        PROVE  IsTag(r, j) <=> IsTag(m, j-1)
    <3>1. j \in 1..(N+1) /\ j - 1 \in 1..N
      BY <1>3
    <3> QED
      BY <3>1, <2>1, <2>2, <1>6
  <2> QED
    BY <2>3, <2>4, <2>5
<1>10. MapLinked(r)
  <2> SUFFICES ASSUME NEW i \in 1..(N+1)
               PROVE  \E x \in 1..i : /\ IsTag(r, x)
                                      /\ At(r, i).TagIt = r.list[x]
                                      /\ \A y \in (x+1)..i : ~IsTag(r, y)
    BY <1>7 DEF MapLinked
  <2>1. CASE i < p
    <3>1. i \in 1..N /\ At(r, i) = At(m, i)
      BY <2>1, <1>3, <1>6
    <3>2. PICK x \in 1..i : /\ IsTag(m, x)
                            /\ At(m, i).TagIt = m.list[x]
                            /\ \A y \in (x+1)..i : ~IsTag(m, y)
      BY <3>1, <1>1 DEF MapLinked
    <3>3. IsTag(r, x) /\ r.list[x] = m.list[x]
      BY <2>1, <3>2, <1>3, <1>6, <1>9
    <3>4. \A y \in (x+1)..i : ~IsTag(r, y)
      BY <2>1, <3>2, <1>3, <1>9
    <3> QED
      BY <3>1, <3>2, <3>3, <3>4
  <2>2. CASE i = p
    <3>1. At(r, i).TagIt = r.list[i] /\ IsTag(r, i)
      BY <2>2, <1>4, <1>6, <1>9
    <3>2. \A y \in (i+1)..i : ~IsTag(r, y)
      OBVIOUS
    <3> QED
      BY <3>1, <3>2
  <2>3. CASE i > p
    <3>1. i - 1 \in 1..N /\ At(r, i) = At(m, i-1) /\ p \in 1..(i-1)
      BY <2>3, <1>3, <1>6
    <3>2. PICK x \in 1..(i-1) : /\ IsTag(m, x)
                                /\ At(m, i-1).TagIt = m.list[x]
                                /\ \A y \in (x+1)..(i-1) : ~IsTag(m, y)
      BY <3>1, <1>1 DEF MapLinked
    <3>3. IsTag(m, p)
      BY <3>1, <1>3
    <3>4. x >= p
      BY <3>1, <3>2, <3>3
    <3>5. x + 1 \in (p+1)..End(m) /\ (x + 1) - 1 = x /\ x + 1 \in 1..i
      BY <3>1, <3>2, <3>4, <1>3
    <3>6. IsTag(r, x+1) /\ r.list[x+1] = m.list[x]
      BY <3>2, <3>5, <1>6, <1>9
    <3>7. ASSUME NEW y \in ((x+1)+1)..i PROVE ~IsTag(r, y)
      <4>1. y - 1 \in (x+1)..(i-1) /\ y \in (p+1)..End(m)
        BY <3>1, <3>2, <3>4, <1>3
      <4> QED
        BY <4>1, <3>2, <1>9
    <3> QED
      BY <3>1, <3>2, <3>5, <3>6, <3>7
  <2> QED
    BY <2>1, <2>2, <2>3, <1>3
<1>11. MapIndexed(r)
  <2>1. \A i \in 1..N : ~IsTag(m, i) =>
            At(m, i).Key \in Key /\ m.index[At(m, i).Key] = m.list[i]
    BY <1>1 DEF MapIndexed
  <2>2. ASSUME NEW i \in 1..(N+1), ~IsTag(r, i)
        PROVE  At(r, i).Key \in Key /\ r.index[At(r, i).Key] = r.list[i]
    <3>1. CASE i < p
      <4>1. i \in 1..N /\ ~IsTag(m, i) /\ At(r, i) = At(m, i) /\ r.list[i] = m.list[i]
        BY <3>1, <2>2, <1>3, <1>6, <1>9
      <4> QED
        BY <4>1, <2>1, <1>6
    <3>2. CASE i > p
      <4>1. /\ i - 1 \in 1..N /\ ~IsTag(m, i-1) /\ At(r, i) = At(m, i-1)
            /\ r.list[i] = m.list[i-1]
        BY <3>2, <2>2, <1>3, <1>6, <1>9
      <4> QED
        BY <4>1, <2>1, <1>6
    <3> QED
      BY <3>1, <3>2, <2>2, <1>3, <1>9
  <2>3. ASSUME NEW l \in Key, r.index[l] # Null
        PROVE  \E i \in 1..(N+1) :
                   r.list[i] = r.index[l] /\ ~IsTag(r, i) /\ At(r, i).Key = l
    <3>1. PICK i \in 1..N :
              m.list[i] = m.index[l] /\ ~IsTag(m, i) /\ At(m, i).Key = l
      BY <2>3, <1>1, <1>6 DEF MapIndexed
    <3>2. CASE i < p
      BY <3>1, <3>2, <1>3, <1>6, <1>9
    <3>3. CASE i >= p
      <4>1. /\ i + 1 \in 1..(N+1) /\ r.list[i+1] = m.list[i]
            /\ At(r, i+1) = At(m, i) /\ (IsTag(r, i+1) <=> IsTag(m, i))
        BY <3>3, <1>3, <1>6, <1>9
      <4> QED
        BY <4>1, <3>1, <1>6
    <3> QED
      BY <3>2, <3>3, <1>3
  <2> QED
    BY <2>2, <2>3, <1>7 DEF MapIndexed
<1>12. Live(r) = Live(m) \cup {n}
  <2>1. ASSUME NEW x \in Live(r) PROVE x \in Live(m) \cup {n}
    <3>1. PICK i \in 1..(N+1) : x = r.list[i]
      BY <2>1, <1>7 DEF Live
    <3>2. CASE i < p
      <4>1. i \in 1..N /\ m.list[i] = x
        BY <3>1, <3>2, <1>3, <1>6
      <4> QED
        BY <4>1 DEF Live
    <3>3. CASE i = p
      BY <3>1, <3>3, <1>6
    <3>4. CASE i > p
      <4>1. i - 1 \in 1..N /\ m.list[i-1] = x
        BY <3>1, <3>4, <1>3, <1>6
      <4> QED
        BY <4>1 DEF Live
    <3> QED
      BY <3>2, <3>3, <3>4, <1>3
  <2>2. ASSUME NEW x \in Live(m) PROVE x \in Live(r)
    <3>1. PICK i \in 1..N : x = m.list[i]
      BY <2>2 DEF Live
    <3>2. CASE i < p
      <4>1. i \in 1..(N+1) /\ r.list[i] = x
        BY <3>1, <3>2, <1>3, <1>6
      <4> QED
        BY <4>1, <1>7 DEF Live
    <3>3. CASE i >= p
      <4>1. i + 1 \in 1..(N+1) /\ r.list[i+1] = x
        BY <3>1, <3>3, <1>3, <1>6
      <4> QED
        BY <4>1, <1>7 DEF Live
    <3> QED
      BY <3>2, <3>3, <1>3
  <2>3. n \in Live(r)
    BY <1>3, <1>6, <1>7 DEF Live
  <2> QED
    BY <2>1, <2>2, <2>3
<1> QED
  BY <1>3, <1>4, <1>6, <1>9, <1>10, <1>11, <1>12 DEF Core, n

\* insert(): a new group of one key at the boundary q between two groups.
LEMMA InsertGroupInv ==
    ASSUME NEW m, MapInv(m), NEW q \in 1..End(m), q = End(m) \/ IsTag(m, q),
           NEW k \in Key, m.index[k] = Null, NEW v \in Val, Room2(m)
    PROVE  MapInv(InsertGroup(m, q, k, v))
<1> DEFINE m1 == LinkTag(m, q, v)
           r == InsertGroup(m, q, k, v)
           N == Len(m.list)
<1>1. Core(m) /\ MapNonEmpty(m) /\ MapTypeOK(m) /\ Room(m)
  BY DEF MapInv, Core, Room2, Room
<1>2. N \in Nat /\ End(m) = N + 1
  BY <1>1, Shape
<1>3. /\ Core(m1) /\ End(m1) = N + 2 /\ m1.index = m.index
      /\ m1.list[q] = At(m1, q).TagIt
      /\ IsTag(m1, q)
      /\ \A j \in 1..(q-1) : IsTag(m1, j) <=> IsTag(m, j)
      /\ \A j \in (q+1)..End(m) : IsTag(m1, j) <=> IsTag(m, j-1)
      /\ Live(m1) = Live(m) \cup {NewNode(m)}
  BY <1>1, <1>2, LinkTagCore
<1>4. Room(m1)
  BY <1>3 DEF Room2, Room
<1>5. r = LinkItem(m1, q + 1, k, m1.list[q])
  BY DEF InsertGroup
<1> HIDE DEF m1, r
<1>6. q + 1 \in 2..End(m1) /\ (q + 1) - 1 = q
  BY <1>2, <1>3
<1>7. /\ Core(r) /\ End(r) = N + 3 /\ ~IsTag(r, q+1)
      /\ \A j \in 1..q : IsTag(r, j) <=> IsTag(m1, j)
      /\ \A j \in (q+2)..End(m1) : IsTag(r, j) <=> IsTag(m1, j-1)
  <2> DEFINE p == q + 1
             t == m1.list[q]
  <2>1. /\ p \in 2..End(m1) /\ p - 1 = q /\ t = At(m1, p-1).TagIt
        /\ r = LinkItem(m1, p, k, t) /\ m1.index[k] = Null
    BY <1>3, <1>5, <1>6
  <2> HIDE DEF p, t
  <2>2. /\ Core(r) /\ End(r) = End(m1) + 1 /\ ~IsTag(r, p)
        /\ \A j \in 1..(p-1) : IsTag(r, j) <=> IsTag(m1, j)
        /\ \A j \in (p+1)..End(m1) : IsTag(r, j) <=> IsTag(m1, j-1)
    <3>1. Core(m1)
      BY <1>3
    <3>2. m1.index[k] = Null /\ p \in 2..End(m1)
      BY <2>1
    <3>3. t = At(m1, p-1).TagIt /\ r = LinkItem(m1, p, k, t)
      BY <2>1
    <3> HIDE DEF m1
    <3> QED
      BY <3>1, <3>2, <3>3, <1>4, LinkItemCore
  <2> QED
    BY SMTT(30), <2>1, <2>2, <1>2, <1>3 DEF p
<1>8. Len(r.list) = N + 2
  <2>1. Len(r.list) \in Nat /\ End(r) = Len(r.list) + 1
    BY <1>7, Shape DEF Core
  <2> QED
    BY SMTT(30), <2>1, <1>2, <1>7
<1>9. ASSUME NEW i \in 1..(N+2), IsTag(r, i)
      PROVE  i # N + 2 /\ ~IsTag(r, i+1)
  <2>1. \A j \in 1..N : IsTag(m, j) => j # N /\ ~IsTag(m, j+1)
    BY <1>1 DEF MapNonEmpty
  <2>2. CASE i < q
    <3>1. i \in 1..N /\ IsTag(m, i)
      BY <2>2, <1>2, <1>3, <1>7, <1>9
    <3>2. i + 1 # q
      BY <3>1, <2>1, <1>2
    <3>3. i + 1 \in 1..(q-1)
      BY <2>2, <3>2, <1>2
    <3> QED
      BY <3>1, <3>3, <2>1, <1>2, <1>3, <1>7
  <2>3. CASE i = q
    BY <2>3, <1>2, <1>7
  <2>4. CASE i = q + 1
    BY <2>4, <1>7, <1>9
  <2>5. CASE i > q + 1
    <3>1. i - 2 \in 1..N /\ IsTag(m, i-2)
      <4>1. i \in (q+2)..End(m1) /\ i - 1 \in (q+1)..End(m) /\ (i-1)-1 = i-2
        BY <2>5, <1>2, <1>3
      <4>2. IsTag(m1, i-1)
        BY <4>1, <1>7, <1>9
      <4> QED
        BY <4>1, <4>2, <1>2, <1>3
    <3>2. i - 2 # N /\ ~IsTag(m, i-1)
      BY <3>1, <2>1, <1>2
    <3>3. i + 1 \in (q+2)..End(m1) /\ i \in (q+1)..End(m)
      BY <2>5, <3>1, <3>2, <1>2, <1>3
    <3>4. ~IsTag(m1, i)
      BY <3>2, <3>3, <1>3
    <3>5. (i+1)-1 = i
      BY <1>2
    <3> QED
      BY <3>1, <3>2, <3>3, <3>4, <3>5, <1>2, <1>7
  <2> QED
    BY <2>2, <2>3, <2>4, <2>5, <1>2
<1> QED
  BY <1>7, <1>8, <1>9 DEF MapInv, MapNonEmpty, r

\* An item linked into a group of a map without empty groups.
LEMMA LinkItemInv ==
    ASSUME NEW m, MapInv(m), NEW p \in 2..End(m), NEW k \in Key,
           m.index[k] = Null, Room(m), NEW t, t = At(m, p-1).TagIt,
           NEW r, r = LinkItem(m, p, k, t)
    PROVE  /\ MapInv(r)
           /\ \A l \in Key : r.index[l] = IF l = k THEN NewNode(m) ELSE m.index[l]
<1> DEFINE N == Len(m.list)
<1>1. Core(m) /\ MapNonEmpty(m) /\ MapTypeOK(m)
  BY DEF MapInv, Core
<1>2. N \in Nat /\ End(m) = N + 1
  BY <1>1, Shape
<1>3. /\ Core(r)
      /\ End(r) = End(m) + 1
      /\ \A l \in Key : r.index[l] = IF l = k THEN NewNode(m) ELSE m.index[l]
      /\ ~IsTag(r, p)
      /\ \A j \in 1..(p-1) : IsTag(r, j) <=> IsTag(m, j)
      /\ \A j \in (p+1)..End(m) : IsTag(r, j) <=> IsTag(m, j-1)
  BY <1>1, LinkItemCore
<1>4. Len(r.list) = N + 1
  <2>1. Len(r.list) \in Nat /\ End(r) = Len(r.list) + 1
    BY <1>3, Shape DEF Core
  <2> QED
    BY <2>1, <1>2, <1>3
<1>5. \A j \in 1..N : IsTag(m, j) => j # N /\ ~IsTag(m, j+1)
  BY <1>1 DEF MapNonEmpty
<1>6. ASSUME NEW i \in 1..(N+1), IsTag(r, i)
      PROVE  i # N + 1 /\ ~IsTag(r, i+1)
  <2>1. CASE i < p
    <3>1. i \in 1..N /\ IsTag(m, i) /\ i # N
      BY <2>1, <1>2, <1>3, <1>5, <1>6
    <3>2. CASE i + 1 = p
      BY <3>1, <3>2, <1>2, <1>3
    <3>3. CASE i + 1 < p
      BY <3>1, <3>3, <1>2, <1>3, <1>5
    <3> QED
      BY <3>2, <3>3, <2>1, <1>2
  <2>2. CASE i > p
    <3>1. i - 1 \in 1..N /\ IsTag(m, i-1) /\ i \in (p+1)..End(m)
      BY <2>2, <1>2, <1>3, <1>6
    <3>2. i - 1 # N /\ ~IsTag(m, i)
      BY <3>1, <1>2, <1>5
    <3>3. i + 1 \in (p+1)..End(m) /\ (i+1)-1 = i
      BY <3>1, <3>2, <1>2
    <3> QED
      BY <3>1, <3>2, <3>3, <1>2, <1>3
  <2> QED
    BY <2>1, <2>2, <1>2, <1>3, <1>6
<1> QED
  BY <1>3, <1>4, <1>6 DEF MapInv, MapNonEmpty

\* An item follows every tag; the first cell is a tag; an item is in the
\* group of the cell in front of it.
LEMMA Neighbours ==
    ASSUME NEW m, MapInv(m), NEW p \in 1..Len(m.list)
    PROVE  /\ SkipTagForward(m, p) \in 2..Len(m.list)
           /\ ~IsTag(m, SkipTagForward(m, p))
           /\ IsTag(m, 1)
           /\ IsTag(m, p) => At(m, p).TagIt = m.list[p]
           /\ ~IsTag(m, p) => p # 1 /\ At(m, p).TagIt = At(m, p-1).TagIt
<1>1. MapTypeOK(m) /\ MapLinked(m) /\ MapNonEmpty(m)
  BY DEF MapInv, Core
<1>2. Len(m.list) \in Nat
  BY <1>1, Shape
<1>3. ASSUME NEW i \in 1..Len(m.list)
      PROVE  \E t \in 1..i : /\ IsTag(m, t)
                             /\ At(m, i).TagIt = m.list[t]
                             /\ \A x \in (t+1)..i : ~IsTag(m, x)
  BY <1>1 DEF MapLinked
<1>4. IsTag(m, 1)
  <2>1. 1 \in 1..Len(m.list)
    BY <1>2
  <2>2. PICK t \in 1..1 : IsTag(m, t)
    BY <2>1, <1>3
  <2> QED
    BY <2>2
<1>5. IsTag(m, p) => At(m, p).TagIt = m.list[p]
  BY <1>2, <1>3
<1>6. ~IsTag(m, p) => p # 1 /\ At(m, p).TagIt = At(m, p-1).TagIt
  <2> SUFFICES ASSUME ~IsTag(m, p)
               PROVE  p # 1 /\ At(m, p).TagIt = At(m, p-1).TagIt
    OBVIOUS
  <2>1. p # 1 /\ p - 1 \in 1..Len(m.list)
    BY <1>2, <1>4
  <2>2. PICK t \in 1..p : /\ IsTag(m, t)
                          /\ At(m, p).TagIt = m.list[t]
                          /\ \A x \in (t+1)..p : ~IsTag(m, x)
    BY <1>3
  <2>3. PICK u \in 1..(p-1) : /\ IsTag(m, u)
                              /\ At(m, p-1).TagIt = m.list[u]
                              /\ \A x \in (u+1)..(p-1) : ~IsTag(m, x)
    BY <1>3, <2>1
  <2>4. t = u
    <3>1. t # p
      BY <2>2
    <3>2. CASE t < u
      <4>1. u \in (t+1)..p
        BY <3>2, <2>1, <2>2, <2>3
      <4> QED
        BY <4>1, <2>2, <2>3
    <3>3. CASE u < t
      <4>1. t \in (u+1)..(p-1)
        BY <3>1, <3>3, <2>1, <2>2, <2>3
      <4> QED
        BY <4>1, <2>2, <2>3
    <3> QED
      BY <3>2, <3>3, <2>1, <2>2, <2>3
  <2> QED
    BY <2>1, <2>2, <2>3, <2>4
<1>7. IsTag(m, p) => p # Len(m.list) /\ ~IsTag(m, p+1)
  BY <1>1 DEF MapNonEmpty
<1> QED
  BY <1>2, <1>4, <1>5, <1>6, <1>7 DEF SkipTagForward

\* insertRight(): the key joins the group of the element at p.
LEMMA InsertRightInv ==
    ASSUME NEW m, MapInv(m), NEW p \in 1..Len(m.list), NEW k \in Key,
           m.index[k] = Null, Room(m), NEW r, r = InsertRightAt(m, p, k)
    PROVE  /\ MapInv(r)
           /\ \A l \in Key : r.index[l] = IF l = k THEN NewNode(m) ELSE m.index[l]
<1> DEFINE q == SkipTagForward(m, p)
           t == At(m, q).TagIt
<1>1. Len(m.list) \in Nat /\ End(m) = Len(m.list) + 1
  BY Shape DEF MapInv, Core
<1>2. q \in 2..Len(m.list) /\ ~IsTag(m, q)
  BY Neighbours
<1>3. r = LinkItem(m, q, k, t)
  BY DEF InsertRightAt
<1> HIDE DEF q
<1>4. t = At(m, q-1).TagIt /\ q \in 2..End(m)
  BY <1>1, <1>2, Neighbours
<1> HIDE DEF t
<1> QED
  BY <1>3, <1>4, LinkItemInv

\* insertLeft(): the key joins the group of the element in front of p.
LEMMA InsertLeftInv ==
    ASSUME NEW m, MapInv(m), NEW p \in 2..End(m), NEW k \in Key,
           m.index[k] = Null, Room(m), NEW r, r = InsertLeftAt(m, p, k)
    PROVE  MapInv(r)
<1>1. CASE IsTag(m, p-1) /\ p - 1 # 1
  <2> DEFINE q == p - 1
             t == At(m, p-2).TagIt
  <2>1. End(m) \in Nat
    BY Shape DEF MapInv, Core
  <2>2. q \in 2..End(m) /\ t = At(m, q-1).TagIt /\ r = LinkItem(m, q, k, t)
    BY <1>1, <2>1 DEF InsertLeftAt
  <2> HIDE DEF q, t
  <2> QED
    BY <2>2, LinkItemInv
<1>2. CASE ~(IsTag(m, p-1) /\ p - 1 # 1)
  <2> DEFINE t == At(m, p-1).TagIt
  <2>1. r = LinkItem(m, p, k, t)
    BY <1>2 DEF InsertLeftAt
  <2> QED
    BY <2>1, LinkItemInv
<1> QED
  BY <1>1, <1>2

\* insertionPointerForNewList() finds a boundary between groups.
LEMMA NewListPosBoundary ==
    ASSUME NEW m, MapInv(m), NEW p \in 1..End(m), NEW q \in 1..End(m),
           NewListPos(m, p, q)
    PROVE  q = End(m) \/ IsTag(m, q)
<1>1. Len(m.list) \in Nat /\ End(m) = Len(m.list) + 1
  BY Shape DEF MapInv, Core
<1>2. CASE p = 1 \/ p = End(m)
  BY <1>1, <1>2, Neighbours DEF NewListPos
<1>3. CASE ~(p = 1 \/ p = End(m))
  BY <1>3 DEF NewListPos, NextTag
<1> QED
  BY <1>2, <1>3

(***************************************************************************)
(* Erasures.                                                               *)
(***************************************************************************)
\* An item unlinked and taken out of the index.
LEMMA UnlinkItemCore ==
    ASSUME NEW m, Core(m), NEW p \in 1..Len(m.list), ~IsTag(m, p),
           NEW r, r = SetIndex(UnlinkCell(m, p), At(m, p).Key, Null)
    PROVE  /\ Core(r)
           /\ End(r) = End(m) - 1
           /\ \A l \in Key :
                 r.index[l] = IF l = At(m, p).Key THEN Null ELSE m.index[l]
           /\ \A j \in 1..(p-1) : r.list[j] = m.list[j] /\ At(r, j) = At(m, j)
           /\ \A j \in p..(Len(m.list) - 1) :
                 r.list[j] = m.list[j+1] /\ At(r, j) = At(m, j+1)
           /\ \A j \in 1..(p-1) : IsTag(r, j) <=> IsTag(m, j)
           /\ \A j \in p..(Len(m.list) - 1) : IsTag(r, j) <=> IsTag(m, j+1)
<1> DEFINE r0 == UnlinkCell(m, p)
           k == At(m, p).Key
           N == Len(m.list)
<1>1. MapTypeOK(m) /\ MapLinked(m) /\ MapIndexed(m) /\ MapOrdered(m)
  BY DEF Core
<1>2. N \in Nat /\ End(m) = N + 1
  BY <1>1, Shape
<1>3. k \in Key /\ m.index[k] = m.list[p]
  BY <1>1 DEF MapIndexed
<1>4. /\ MapTypeOK(r0)
      /\ End(r0) = End(m) - 1 /\ r0.index = m.index
      /\ \A j \in 1..(p-1) : r0.list[j] = m.list[j] /\ At(r0, j) = At(m, j)
      /\ \A j \in p..(N-1) : r0.list[j] = m.list[j+1] /\ At(r0, j) = At(m, j+1)
  BY <1>1, UnlinkCellAt
<1> HIDE DEF r0, k
<1>5. /\ r = [list |-> r0.list, item |-> r0.item,
              index |-> [m.index EXCEPT ![k] = Null]]
  BY <1>4 DEF SetIndex, r0, k
<1>6. /\ r.list = r0.list /\ r.item = r0.item
      /\ r.index = [m.index EXCEPT ![k] = Null]
  BY <1>5
<1>7. /\ Len(r.list) = N - 1 /\ End(r) = N
      /\ \A j \in 1..(p-1) : r.list[j] = m.list[j] /\ At(r, j) = At(m, j)
      /\ \A j \in p..(N-1) : r.list[j] = m.list[j+1] /\ At(r, j) = At(m, j+1)
  <2>1. Len(r0.list) \in Nat /\ End(r0) = Len(r0.list) + 1
    BY <1>4, Shape
  <2>2. End(r0) = N
    BY <1>2, <1>4
  <2>3. Len(r0.list) = N - 1
    BY <2>1, <2>2, <1>2
  <2>4. \A j : At(r, j) = At(r0, j)
    BY <1>6 DEF At
  <2> QED
    BY <2>1, <2>3, <2>4, <1>4, <1>6 DEF End
<1>8. MapTypeOK(r)
  <2>1. [m.index EXCEPT ![k] = Null] \in [Key -> Node \cup {Null}]
    BY <1>1 DEF MapTypeOK
  <2>2. /\ r0.list \in Seq(Node) /\ r0.item \in [Node -> CellT]
        /\ \A i, j \in 1..Len(r0.list) : r0.list[i] = r0.list[j] => i = j
    BY <1>4 DEF MapTypeOK
  <2>3. r \in [list : Seq(Node), item : [Node -> CellT],
              index : [Key -> Node \cup {Null}]]
    BY <2>1, <2>2, <1>5
  <2> QED
    BY <2>2, <2>3, <1>6 DEF MapTypeOK
<1>9. /\ \A j \in 1..(p-1) : IsTag(r, j) <=> IsTag(m, j)
      /\ \A j \in p..(N-1) : IsTag(r, j) <=> IsTag(m, j+1)
  <2>1. \A j \in 1..(N-1) : IsTag(r, j) <=> At(r, j).Value # Null
    BY <1>7, <1>8, Shape
  <2>2. \A j \in 1..N : IsTag(m, j) <=> At(m, j).Value # Null
    BY <1>1, Shape
  <2>3. ASSUME NEW j \in 1..(p-1) PROVE IsTag(r, j) <=> IsTag(m, j)
    BY <2>1, <2>2, <1>2, <1>7
  <2>4. ASSUME NEW j \in p..(N-1) PROVE IsTag(r, j) <=> IsTag(m, j+1)
    <3>1. j \in 1..(N-1) /\ j + 1 \in 1..N
      BY <1>2
    <3> QED
      BY <3>1, <2>1, <2>2, <1>7
  <2> QED
    BY <2>3, <2>4
<1>10. \A l \in Key : r.index[l] = IF l = k THEN Null ELSE m.index[l]
  BY <1>1, <1>6 DEF MapTypeOK
<1>11. MapOrdered(r)
  <2>1. \A i, j \in 1..N : i < j => At(m, i).OrderIdx <= At(m, j).OrderIdx
    BY <1>1 DEF MapOrdered
  <2> SUFFICES ASSUME NEW i \in 1..(N-1), NEW j \in 1..(N-1), i < j
               PROVE  At(r, i).OrderIdx <= At(r, j).OrderIdx
    BY <1>7 DEF MapOrdered
  <2>2. CASE j < p
    BY <2>1, <2>2, <1>2, <1>7
  <2>3. CASE i < p /\ j >= p
    <3>1. At(r, i) = At(m, i) /\ At(r, j) = At(m, j+1)
          /\ i \in 1..N /\ j + 1 \in 1..N /\ i < j + 1
      BY <2>3, <1>2, <1>7
    <3> QED
      BY <3>1, <2>1
  <2>4. CASE i >= p
    <3>1. /\ i \in p..(N-1) /\ j \in p..(N-1)
          /\ i + 1 \in 1..N /\ j + 1 \in 1..N /\ i + 1 < j + 1
      BY <2>4, <1>2
    <3>2. At(r, i) = At(m, i+1) /\ At(r, j) = At(m, j+1)
      BY <3>1, <1>7
    <3> QED
      BY <3>1, <3>2, <2>1
  <2> QED
    BY <2>2, <2>3, <2>4, <1>2
<1>12. MapLinked(r)
  <2> SUFFICES ASSUME NEW i \in 1..(N-1)
               PROVE  \E x \in 1..i : /\ IsTag(r, x)
                                      /\ At(r, i).TagIt = r.list[x]
                                      /\ \A y \in (x+1)..i : ~IsTag(r, y)
    BY <1>7 DEF MapLinked
  <2> DEFINE h == IF i < p THEN i ELSE i + 1
  <2>1. h \in 1..N /\ At(r, i) = At(m, h)
    BY <1>2, <1>7
  <2>2. PICK x \in 1..h : /\ IsTag(m, x)
                          /\ At(m, h).TagIt = m.list[x]
                          /\ \A y \in (x+1)..h : ~IsTag(m, y)
    BY <2>1, <1>1 DEF MapLinked
  <2>3. x # p
    BY <2>2
  <2> DEFINE z == IF x < p THEN x ELSE x - 1
  <2>4. z \in 1..i
    BY <2>2, <2>3, <1>2
  <2>5. IsTag(r, z) /\ r.list[z] = m.list[x]
    <3>1. CASE x < p
      BY <3>1, <2>1, <2>2, <1>2, <1>7, <1>9
    <3>2. CASE x > p
      <4>1. x - 1 \in p..(N-1) /\ (x - 1) + 1 = x
        BY <3>2, <2>1, <2>2, <1>2
      <4> QED
        BY SMTT(30), <3>2, <4>1, <2>2, <1>7, <1>9
    <3> QED
      BY <3>1, <3>2, <2>3, <2>2, <1>2
  <2>6. ASSUME NEW y \in (z+1)..i PROVE ~IsTag(r, y)
    <3>1. CASE y < p
      <4>1. y \in (x+1)..h /\ y \in 1..(p-1)
        BY <3>1, <2>2, <2>3, <2>4, <1>2
      <4> QED
        BY <4>1, <2>2, <1>9
    <3>2. CASE y >= p
      <4>1. y + 1 \in (x+1)..h /\ y \in p..(N-1)
        BY <3>2, <2>2, <2>3, <2>4, <1>2
      <4> QED
        BY <4>1, <2>2, <1>9
    <3> QED
      BY <3>1, <3>2, <2>4, <1>2
  <2> HIDE DEF z, h
  <2> QED
    BY <2>1, <2>2, <2>4, <2>5, <2>6
<1>13. MapIndexed(r)
  <2>1. \A i \in 1..N : ~IsTag(m, i) =>
            At(m, i).Key \in Key /\ m.index[At(m, i).Key] = m.list[i]
    BY <1>1 DEF MapIndexed
  <2>2. \A i, j \in 1..N : m.list[i] = m.list[j] => i = j
    BY <1>1 DEF MapTypeOK
  <2>3. ASSUME NEW i \in 1..(N-1), ~IsTag(r, i)
        PROVE  At(r, i).Key \in Key /\ r.index[At(r, i).Key] = r.list[i]
    <3>1. CASE i < p
      <4>1. /\ i \in 1..N /\ ~IsTag(m, i) /\ At(r, i) = At(m, i)
            /\ r.list[i] = m.list[i] /\ i # p
        BY <3>1, <2>3, <1>2, <1>7, <1>9
      <4>2. At(m, i).Key # k
        BY <4>1, <2>1, <2>2, <1>3
      <4> QED
        BY <4>1, <4>2, <2>1, <1>10
    <3>2. CASE i >= p
      <4>1. /\ i + 1 \in 1..N /\ ~IsTag(m, i+1) /\ At(r, i) = At(m, i+1)
            /\ r.list[i] = m.list[i+1] /\ i + 1 # p
        BY <3>2, <2>3, <1>2, <1>7, <1>9
      <4>2. At(m, i+1).Key # k
        BY <4>1, <2>1, <2>2, <1>3
      <4> QED
        BY <4>1, <4>2, <2>1, <1>10
    <3> QED
      BY <3>1, <3>2, <1>2
  <2>4. ASSUME NEW l \in Key, r.index[l] # Null
        PROVE  \E i \in 1..(N-1) :
                   r.list[i] = r.index[l] /\ ~IsTag(r, i) /\ At(r, i).Key = l
    <3>1. l # k /\ r.index[l] = m.index[l]
      BY <2>4, <1>10
    <3>2. PICK i \in 1..N :
              m.list[i] = m.index[l] /\ ~IsTag(m, i) /\ At(m, i).Key = l
      BY <2>4, <3>1, <1>1 DEF MapIndexed
    <3>3. i # p
      BY <3>1, <3>2 DEF k
    <3>4. CASE i < p
      <4>1. /\ i \in 1..(N-1) /\ r.list[i] = m.list[i]
            /\ At(r, i) = At(m, i) /\ (IsTag(r, i) <=> IsTag(m, i))
        BY <3>4, <1>2, <1>7, <1>9
      <4> QED
        BY <4>1, <3>1, <3>2
    <3>5. CASE i > p
      <4>1. i - 1 \in p..(N-1) /\ (i - 1) + 1 = i /\ i - 1 \in 1..(N-1)
        BY <3>5, <1>2
      <4>2. /\ r.list[i-1] = m.list[i]
            /\ At(r, i-1) = At(m, i) /\ (IsTag(r, i-1) <=> IsTag(m, i))
        BY <4>1, <1>7, <1>9
      <4> QED
        BY <4>1, <4>2, <3>1, <3>2
    <3> QED
      BY <3>3, <3>4, <3>5, <1>2
  <2> QED
    BY <2>3, <2>4, <1>7 DEF MapIndexed
<1> QED
  BY <1>2, <1>7, <1>8, <1>9, <1>10, <1>11, <1>12, <1>13 DEF Core, k

\* The tag of an empty group unlinked.
LEMMA UnlinkTagCore ==
    ASSUME NEW m, Core(m), NEW p \in 1..Len(m.list), IsTag(m, p),
           p + 1 = End(m) \/ IsTag(m, p+1),
           NEW r, r = UnlinkCell(m, p)
    PROVE  /\ Core(r)
           /\ End(r) = End(m) - 1
           /\ r.index = m.index
           /\ \A j \in 1..(p-1) : r.list[j] = m.list[j] /\ At(r, j) = At(m, j)
           /\ \A j \in p..(Len(m.list) - 1) :
                 r.list[j] = m.list[j+1] /\ At(r, j) = At(m, j+1)
           /\ \A j \in 1..(p-1) : IsTag(r, j) <=> IsTag(m, j)
           /\ \A j \in p..(Len(m.list) - 1) : IsTag(r, j) <=> IsTag(m, j+1)
<1> DEFINE N == Len(m.list)
<1>1. MapTypeOK(m) /\ MapLinked(m) /\ MapIndexed(m) /\ MapOrdered(m)
  BY DEF Core
<1>2. N \in Nat /\ End(m) = N + 1
  BY <1>1, Shape
<1>4. /\ MapTypeOK(r)
      /\ End(r) = End(m) - 1 /\ r.index = m.index
      /\ \A j \in 1..(p-1) : r.list[j] = m.list[j] /\ At(r, j) = At(m, j)
      /\ \A j \in p..(N-1) : r.list[j] = m.list[j+1] /\ At(r, j) = At(m, j+1)
  BY <1>1, UnlinkCellAt
<1>7. Len(r.list) = N - 1
  <2>1. Len(r.list) \in Nat /\ End(r) = Len(r.list) + 1
    BY <1>4, Shape
  <2>2. End(r) = N
    BY <1>2, <1>4
  <2> QED
    BY <2>1, <2>2, <1>2
<1>9. /\ \A j \in 1..(p-1) : IsTag(r, j) <=> IsTag(m, j)
      /\ \A j \in p..(N-1) : IsTag(r, j) <=> IsTag(m, j+1)
  <2>1. \A j \in 1..(N-1) : IsTag(r, j) <=> At(r, j).Value # Null
    BY <1>4, <1>7, Shape
  <2>2. \A j \in 1..N : IsTag(m, j) <=> At(m, j).Value # Null
    BY <1>1, Shape
  <2>3. ASSUME NEW j \in 1..(p-1) PROVE IsTag(r, j) <=> IsTag(m, j)
    BY <2>1, <2>2, <1>2, <1>4
  <2>4. ASSUME NEW j \in p..(N-1) PROVE IsTag(r, j) <=> IsTag(m, j+1)
    <3>1. j \in 1..(N-1) /\ j + 1 \in 1..N
      BY <1>2
    <3> QED
      BY <3>1, <2>1, <2>2, <1>4
  <2> QED
    BY <2>3, <2>4
<1>11. MapOrdered(r)
  <2>1. \A i, j \in 1..N : i < j => At(m, i).OrderIdx <= At(m, j).OrderIdx
    BY <1>1 DEF MapOrdered
  <2> SUFFICES ASSUME NEW i \in 1..(N-1), NEW j \in 1..(N-1), i < j
               PROVE  At(r, i).OrderIdx <= At(r, j).OrderIdx
    BY <1>7 DEF MapOrdered
  <2>2. CASE j < p
    BY <2>1, <2>2, <1>2, <1>4
  <2>3. CASE i < p /\ j >= p
    <3>1. At(r, i) = At(m, i) /\ At(r, j) = At(m, j+1)
          /\ i \in 1..N /\ j + 1 \in 1..N /\ i < j + 1
      BY <2>3, <1>2, <1>4
    <3> QED
      BY <3>1, <2>1
  <2>4. CASE i >= p
    <3>1. /\ i \in p..(N-1) /\ j \in p..(N-1)
          /\ i + 1 \in 1..N /\ j + 1 \in 1..N /\ i + 1 < j + 1
      BY <2>4, <1>2
    <3>2. At(r, i) = At(m, i+1) /\ At(r, j) = At(m, j+1)
      BY <3>1, <1>4
    <3> QED
      BY <3>1, <3>2, <2>1
  <2> QED
    BY <2>2, <2>3, <2>4, <1>2
<1>12. MapLinked(r)
  <2> SUFFICES ASSUME NEW i \in 1..(N-1)
               PROVE  \E x \in 1..i : /\ IsTag(r, x)
                                      /\ At(r, i).TagIt = r.list[x]
                                      /\ \A y \in (x+1)..i : ~IsTag(r, y)
    BY <1>7 DEF MapLinked
  <2> DEFINE h == IF i < p THEN i ELSE i + 1
  <2>1. h \in 1..N /\ At(r, i) = At(m, h)
    BY <1>2, <1>4
  <2>2. PICK x \in 1..h : /\ IsTag(m, x)
                          /\ At(m, h).TagIt = m.list[x]
                          /\ \A y \in (x+1)..h : ~IsTag(m, y)
    BY <2>1, <1>1 DEF MapLinked
  <2>3. x # p
    <3>1. CASE i < p
      BY <3>1, <2>2, <1>2
    <3>2. CASE i >= p
      <4>1. p + 1 # End(m) /\ p + 1 \in 1..h
        BY <3>2, <1>2
      <4> QED
        BY <4>1, <2>2, <1>2
    <3> QED
      BY <3>1, <3>2, <1>2
  <2> DEFINE z == IF x < p THEN x ELSE x - 1
  <2>4. z \in 1..i
    BY <2>2, <2>3, <1>2
  <2>5. IsTag(r, z) /\ r.list[z] = m.list[x]
    <3>1. CASE x < p
      BY <3>1, <2>1, <2>2, <1>2, <1>4, <1>9
    <3>2. CASE x > p
      <4>1. x - 1 \in p..(N-1) /\ (x - 1) + 1 = x
        BY <3>2, <2>1, <2>2, <1>2
      <4> QED
        BY <3>2, <4>1, <2>2, <1>4, <1>9
    <3> QED
      BY <3>1, <3>2, <2>3, <2>2, <1>2
  <2>6. ASSUME NEW y \in (z+1)..i PROVE ~IsTag(r, y)
    <3>1. CASE y < p
      <4>1. y \in (x+1)..h /\ y \in 1..(p-1)
        BY <3>1, <2>2, <2>3, <2>4, <1>2
      <4> QED
        BY <4>1, <2>2, <1>9
    <3>2. CASE y >= p
      <4>1. y + 1 \in (x+1)..h /\ y \in p..(N-1)
        BY <3>2, <2>2, <2>3, <2>4, <1>2
      <4> QED
        BY <4>1, <2>2, <1>9
    <3> QED
      BY <3>1, <3>2, <2>4, <1>2
  <2> HIDE DEF z, h
  <2> QED
    BY <2>1, <2>2, <2>4, <2>5, <2>6
<1>13. MapIndexed(r)
  <2>1. \A i \in 1..N : ~IsTag(m, i) =>
            At(m, i).Key \in Key /\ m.index[At(m, i).Key] = m.list[i]
    BY <1>1 DEF MapIndexed
  <2>3. ASSUME NEW i \in 1..(N-1), ~IsTag(r, i)
        PROVE  At(r, i).Key \in Key /\ r.index[At(r, i).Key] = r.list[i]
    <3>1. CASE i < p
      <4>1. /\ i \in 1..N /\ ~IsTag(m, i) /\ At(r, i) = At(m, i)
            /\ r.list[i] = m.list[i]
        BY <3>1, <2>3, <1>2, <1>4, <1>9
      <4> QED
        BY <4>1, <2>1, <1>4
    <3>2. CASE i >= p
      <4>1. /\ i + 1 \in 1..N /\ ~IsTag(m, i+1) /\ At(r, i) = At(m, i+1)
            /\ r.list[i] = m.list[i+1]
        BY <3>2, <2>3, <1>2, <1>4, <1>9
      <4> QED
        BY <4>1, <2>1, <1>4
    <3> QED
      BY <3>1, <3>2, <1>2
  <2>4. ASSUME NEW l \in Key, r.index[l] # Null
        PROVE  \E i \in 1..(N-1) :
                   r.list[i] = r.index[l] /\ ~IsTag(r, i) /\ At(r, i).Key = l
    <3>2. PICK i \in 1..N :
              m.list[i] = m.index[l] /\ ~IsTag(m, i) /\ At(m, i).Key = l
      BY <2>4, <1>1, <1>4 DEF MapIndexed
    <3>3. i # p
      BY <3>2
    <3>4. CASE i < p
      <4>1. /\ i \in 1..(N-1) /\ r.list[i] = m.list[i]
            /\ At(r, i) = At(m, i) /\ (IsTag(r, i) <=> IsTag(m, i))
        BY <3>4, <1>2, <1>4, <1>9
      <4> QED
        BY <4>1, <3>2, <1>4
    <3>5. CASE i > p
      <4>1. i - 1 \in p..(N-1) /\ (i - 1) + 1 = i /\ i - 1 \in 1..(N-1)
        BY <3>5, <1>2
      <4>2. /\ r.list[i-1] = m.list[i]
            /\ At(r, i-1) = At(m, i) /\ (IsTag(r, i-1) <=> IsTag(m, i))
        BY <4>1, <1>4, <1>9
      <4> QED
        BY <4>1, <4>2, <3>2, <1>4
    <3> QED
      BY <3>3, <3>4, <3>5, <1>2
  <2> QED
    BY <2>3, <2>4, <1>7 DEF MapIndexed
<1> QED
  BY <1>2, <1>4, <1>9, <1>11, <1>12, <1>13 DEF Core

\* erase(): the pair at p0 leaves the map, and the last of a group takes the
\* tag with it.
LEMMA EraseInv ==
    ASSUME NEW m, MapInv(m), NEW p0 \in 1..Len(m.list), NEW r, r = Erase(m, p0)
    PROVE  /\ MapInv(r)
           /\ \A l \in Key : r.index[l] =
                 IF l = At(m, SkipTagForward(m, p0)).Key THEN Null ELSE m.index[l]
           /\ Live(r) \subseteq Live(m)
<1> DEFINE p == SkipTagForward(m, p0)
           k == At(m, p).Key
           m1 == SetIndex(UnlinkCell(m, p), k, Null)
           N == Len(m.list)
<1>1. Core(m) /\ MapNonEmpty(m) /\ MapTypeOK(m) /\ MapLinked(m)
  BY DEF MapInv, Core
<1>2. N \in Nat /\ End(m) = N + 1
  BY <1>1, Shape
<1>3. p \in 2..N /\ p \in 1..N /\ ~IsTag(m, p)
  BY Neighbours, <1>2
<1> HIDE DEF p
<1>4. /\ Core(m1) /\ End(m1) = N
      /\ \A l \in Key : m1.index[l] = IF l = k THEN Null ELSE m.index[l]
      /\ \A j \in 1..(p-1) : m1.list[j] = m.list[j] /\ At(m1, j) = At(m, j)
      /\ \A j \in p..(N-1) : m1.list[j] = m.list[j+1] /\ At(m1, j) = At(m, j+1)
      /\ \A j \in 1..(p-1) : IsTag(m1, j) <=> IsTag(m, j)
      /\ \A j \in p..(N-1) : IsTag(m1, j) <=> IsTag(m, j+1)
  BY <1>1, <1>2, <1>3, UnlinkItemCore
<1> DEFINE last == TagOrSentinel(m1, p) /\ m1.list[p-1] = At(m, p).TagIt
<1>5. r = IF last THEN UnlinkCell(m1, p - 1) ELSE m1
  BY DEF Erase, p
<1> HIDE DEF m1, k, last
<1>6. Len(m1.list) = N - 1
  <2>1. Len(m1.list) \in Nat /\ End(m1) = Len(m1.list) + 1
    BY <1>4, Shape DEF Core
  <2> QED
    BY <2>1, <1>2, <1>4
<1>7. \A j \in 1..N : IsTag(m, j) => j # N /\ ~IsTag(m, j+1)
  BY <1>1 DEF MapNonEmpty
<1>8. PICK t \in 1..p : /\ IsTag(m, t)
                        /\ At(m, p).TagIt = m.list[t]
                        /\ \A x \in (t+1)..p : ~IsTag(m, x)
  BY <1>1, <1>3 DEF MapLinked
<1>9. m.list[p-1] = At(m, p).TagIt <=> IsTag(m, p-1)
  <2>1. \A i, j \in 1..N : m.list[i] = m.list[j] => i = j
    BY <1>1 DEF MapTypeOK
  <2>2. t # p
    BY <1>3, <1>8
  <2>3. p - 1 \in 1..N /\ t \in 1..N /\ t <= p - 1
    BY <1>2, <1>3, <1>8, <2>2
  <2>4. ASSUME IsTag(m, p-1) PROVE t = p - 1
    <3>1. ~(p - 1 \in (t+1)..p)
      BY <2>4, <1>8
    <3> QED
      BY <3>1, <2>3, <1>3, <1>8
  <2> QED
    BY <2>1, <2>3, <2>4, <1>8
<1>10. \A l \in Live(m1) : l \in Live(m)
  <2> SUFFICES ASSUME NEW l \in Live(m1) PROVE l \in Live(m)
    OBVIOUS
  <2>1. PICK i \in 1..(N-1) : l = m1.list[i]
    BY <1>6 DEF Live
  <2>2. CASE i < p
    <3>1. i \in 1..N /\ l = m.list[i]
      BY <2>1, <2>2, <1>2, <1>3, <1>4
    <3> QED
      BY <3>1 DEF Live
  <2>3. CASE i >= p
    <3>1. i + 1 \in 1..N /\ l = m.list[i+1]
      BY <2>1, <2>3, <1>2, <1>3, <1>4
    <3> QED
      BY <3>1 DEF Live
  <2> QED
    BY <2>2, <2>3, <1>2, <1>3
<1>11. CASE last
  <2> DEFINE a == p - 1
  <2>1. /\ a \in 1..(N-1) /\ IsTag(m1, a) /\ r = UnlinkCell(m1, a)
        /\ a + 1 = End(m1) \/ IsTag(m1, a+1)
    BY <1>11, <1>2, <1>3, <1>4, <1>5, <1>9 DEF last, TagOrSentinel
  <2> HIDE DEF a
  <2>2. /\ Core(r) /\ End(r) = End(m1) - 1 /\ r.index = m1.index
        /\ \A j \in 1..(a-1) : r.list[j] = m1.list[j] /\ At(r, j) = At(m1, j)
        /\ \A j \in a..(Len(m1.list) - 1) :
              r.list[j] = m1.list[j+1] /\ At(r, j) = At(m1, j+1)
        /\ \A j \in 1..(a-1) : IsTag(r, j) <=> IsTag(m1, j)
        /\ \A j \in a..(Len(m1.list) - 1) : IsTag(r, j) <=> IsTag(m1, j+1)
    <3>1. Core(m1) /\ a \in 1..Len(m1.list)
      BY <2>1, <1>4, <1>6
    <3> QED
      BY <2>1, <3>1, UnlinkTagCore
  <2>3. Len(r.list) = N - 2
    <3>1. Len(r.list) \in Nat /\ End(r) = Len(r.list) + 1
      BY <2>2, Shape DEF Core
    <3>2. End(r) = N - 1
      BY <2>2, <1>2, <1>4
    <3> QED
      BY <3>1, <3>2, <1>2
  <2>4. /\ \A j \in 1..(a-1) : IsTag(r, j) <=> IsTag(m, j)
        /\ \A j \in a..(N-2) : IsTag(r, j) <=> IsTag(m, j+2)
    <3>1. ASSUME NEW j \in 1..(a-1) PROVE IsTag(r, j) <=> IsTag(m, j)
      BY <2>2, <1>2, <1>3, <1>4 DEF a
    <3>2. ASSUME NEW j \in a..(N-2) PROVE IsTag(r, j) <=> IsTag(m, j+2)
      <4>1. j \in a..(Len(m1.list) - 1) /\ j + 1 \in p..(N-1) /\ (j + 1) + 1 = j + 2
        BY <1>2, <1>3, <1>6 DEF a
      <4> QED
        BY <4>1, <2>2, <1>4
    <3> QED
      BY <3>1, <3>2
  <2>5. ASSUME NEW i \in 1..(N-2), IsTag(r, i)
        PROVE  i # N - 2 /\ ~IsTag(r, i+1)
    <3>1. CASE i < a
      <4>1. i \in 1..N /\ IsTag(m, i) /\ ~IsTag(m, i+1)
        BY <3>1, <2>1, <2>4, <2>5, <1>2, <1>7
      <4>2. i + 1 # a
        BY <4>1, <2>1, <1>4, <1>3 DEF a
      <4>3. i + 1 \in 1..(a-1)
        BY <3>1, <4>2, <2>1, <1>2
      <4> QED
        BY <4>1, <4>3, <2>1, <2>4, <1>2
    <3>2. CASE i >= a
      <4>1. i + 2 \in 1..N /\ IsTag(m, i+2) /\ (i + 2) + 1 = (i + 1) + 2
        BY <3>2, <2>1, <2>4, <2>5, <1>2
      <4>2. i + 2 # N /\ ~IsTag(m, (i+1)+2)
        BY <4>1, <1>7
      <4>3. i + 1 \in a..(N-2)
        BY <3>2, <4>1, <4>2, <2>1, <1>2
      <4> QED
        BY <4>2, <4>3, <2>4, <1>2
    <3> QED
      BY <3>1, <3>2, <2>1, <1>2
  <2>6. MapInv(r)
    BY <2>2, <2>3, <2>5 DEF MapInv, MapNonEmpty
  <2>7. ASSUME NEW l \in Live(r) PROVE l \in Live(m1)
    <3>1. PICK i \in 1..(N-2) : l = r.list[i]
      BY <2>3, <2>7 DEF Live
    <3>2. CASE i < a
      <4>1. i \in 1..(N-1) /\ l = m1.list[i]
        BY <3>1, <3>2, <2>1, <2>2, <1>2
      <4> QED
        BY <4>1, <1>6 DEF Live
    <3>3. CASE i >= a
      <4>1. i + 1 \in 1..(N-1) /\ l = m1.list[i+1]
        BY <3>1, <3>3, <2>1, <2>2, <1>2, <1>6
      <4> QED
        BY <4>1, <1>6 DEF Live
    <3> QED
      BY <3>2, <3>3, <2>1, <1>2
  <2> QED
    BY <2>2, <2>6, <2>7, <1>4, <1>10 DEF k, p
<1>12. CASE ~last
  <2>1. r = m1
    BY <1>12, <1>5
  <2>2. ASSUME NEW i \in 1..(N-1), IsTag(m1, i)
        PROVE  i # N - 1 /\ ~IsTag(m1, i+1)
    <3>1. CASE i < p - 1
      <4>1. i \in 1..(p-1) /\ i \in 1..N /\ i + 1 \in 1..(p-1)
        BY <3>1, <1>2, <1>3
      <4> QED
        BY <4>1, <2>2, <1>2, <1>3, <1>4, <1>7
    <3>2. CASE i = p - 1
      <4>1. i \in 1..(p-1) /\ p - 1 \in 1..(p-1) /\ i + 1 = p
        BY <3>2, <1>2, <1>3
      <4>2. m1.list[p-1] = At(m, p).TagIt
        BY <3>2, <4>1, <2>2, <1>4, <1>9
      <4>3. ~TagOrSentinel(m1, p)
        BY <4>2, <1>12 DEF last
      <4> QED
        BY <4>1, <4>3, <1>2, <1>4 DEF TagOrSentinel
    <3>3. CASE i >= p
      <4>1. i \in p..(N-1) /\ i + 1 \in 1..N /\ IsTag(m, i+1)
        BY <3>3, <2>2, <1>2, <1>3, <1>4
      <4>2. i + 1 # N /\ ~IsTag(m, (i+1)+1)
        BY <4>1, <1>7
      <4>3. i + 1 \in p..(N-1)
        BY <4>1, <4>2, <1>2, <1>3
      <4> QED
        BY <4>2, <4>3, <1>2, <1>4
    <3> QED
      BY <3>1, <3>2, <3>3, <1>2, <1>3
  <2>3. MapInv(r)
    BY <2>1, <2>2, <1>4, <1>6 DEF MapInv, MapNonEmpty
  <2> QED
    BY <2>1, <2>3, <1>4, <1>10 DEF k, p
<1> QED
  BY <1>11, <1>12

\* find() returns the position of the item of a key in the map.
LEMMA FindItem ==
    ASSUME NEW m, MapInv(m), NEW k \in Key, m.index[k] # Null
    PROVE  /\ Find(m, k) \in 1..Len(m.list)
           /\ ~IsTag(m, Find(m, k))
           /\ At(m, Find(m, k)).Key = k
           /\ SkipTagForward(m, Find(m, k)) = Find(m, k)
<1>1. PICK i \in 1..Len(m.list) :
          m.list[i] = m.index[k] /\ ~IsTag(m, i) /\ At(m, i).Key = k
  BY DEF MapInv, Core, MapIndexed
<1>2. \A i1, i2 \in 1..Len(m.list) : m.list[i1] = m.list[i2] => i1 = i2
  BY DEF MapInv, Core, MapTypeOK
<1>3. Find(m, k) = i
  BY <1>1, <1>2 DEF Find
<1> QED
  BY <1>1, <1>3 DEF SkipTagForward

\* onRAUW(): the new key replaces the old one.
LEMMA ReplaceKeyInv ==
    ASSUME NEW m, MapInv(m), NEW old \in Key, NEW new \in Key, old # new,
           m.index[old] # Null, Room(m)
    PROVE  MapInv(ReplaceKey(m, old, new))
<1> DEFINE m1 == IF m.index[new] = Null THEN m ELSE Erase(m, Find(m, new))
           m2 == InsertRightAt(m1, Find(m1, old), new)
<1>1. /\ MapInv(m1) /\ m1.index[new] = Null /\ m1.index[old] # Null
      /\ Live(m1) \subseteq Live(m)
  <2>1. CASE m.index[new] = Null
    BY <2>1
  <2>2. CASE m.index[new] # Null
    <3> DEFINE f == Find(m, new)
    <3>1. f \in 1..Len(m.list) /\ At(m, SkipTagForward(m, f)).Key = new
      BY <2>2, FindItem
    <3>2. m1 = Erase(m, f)
      BY <2>2
    <3> HIDE DEF f, m1
    <3> QED
      BY <3>1, <3>2, EraseInv
  <2> QED
    BY <2>1, <2>2
<1> HIDE DEF m1
<1>2. Room(m1)
  BY <1>1 DEF Room
<1>3. Find(m1, old) \in 1..Len(m1.list)
  BY <1>1, FindItem
<1>4. MapInv(m2) /\ m2.index[old] # Null
  <2>1. /\ MapInv(m2)
        /\ m2.index[old] = m1.index[old]
    BY <1>1, <1>2, <1>3, InsertRightInv
  <2> QED
    BY <2>1, <1>1
<1> HIDE DEF m2
<1>5. Find(m2, old) \in 1..Len(m2.list)
  BY <1>4, FindItem
<1>6. MapInv(Erase(m2, Find(m2, old)))
  BY <1>4, <1>5, EraseInv
<1> QED
  BY <1>6 DEF ReplaceKey, m1, m2

\* What is left of the list when the cells from a up to b are unlinked.
LEMMA CutElements ==
    ASSUME NEW S, NEW s \in Seq(S), NEW a \in 1..(Len(s)+1), NEW b \in a..(Len(s)+1)
    PROVE  /\ Cut(s, a, b) \in Seq(S)
           /\ Len(Cut(s, a, b)) = Len(s) - (b - a)
           /\ \A j \in 1..(a-1) : Cut(s, a, b)[j] = s[j]
           /\ \A j \in a..(Len(s) - (b - a)) : Cut(s, a, b)[j] = s[j + (b - a)]
<1> DEFINE r == Cut(s, a, b)
           l == SubSeq(s, 1, a-1)
           t == SubSeq(s, b, Len(s))
<1>1. /\ l \in Seq(S) /\ Len(l) = a - 1
      /\ \A j \in 1..(a-1) : l[j] = s[j]
  BY SubSeqProperties
<1>2. /\ t \in Seq(S) /\ Len(t) = Len(s) - b + 1
      /\ \A j \in 1..(Len(s) - b + 1) : t[j] = s[j + b - 1]
  BY SubSeqProperties
<1> HIDE DEF l, t
<1>3. r = l \o t
  BY DEF l, t, Cut
<1> HIDE DEF r
<1>4. /\ r \in Seq(S)
      /\ Len(r) = Len(l) + Len(t)
      /\ \A j \in 1..(Len(l) + Len(t)) :
            r[j] = IF j <= Len(l) THEN l[j] ELSE t[j - Len(l)]
  <2>1. l \in Seq(S) /\ t \in Seq(S)
    BY <1>1, <1>2
  <2>2. l \o t \in Seq(S)
    BY <2>1
  <2>3. Len(l \o t) = Len(l) + Len(t)
    BY <2>1
  <2>4. \A j \in 1..(Len(l) + Len(t)) :
            (l \o t)[j] = IF j <= Len(l) THEN l[j] ELSE t[j - Len(l)]
    BY <2>1
  <2> QED
    BY <2>2, <2>3, <2>4, <1>3
<1>5. Len(s) \in Nat /\ Len(l) + Len(t) = Len(s) - (b - a)
  BY <1>1, <1>2
<1>6. ASSUME NEW j \in a..(Len(s) - (b - a)) PROVE r[j] = s[j + (b - a)]
  <2>1. /\ j - (a - 1) \in 1..(Len(s) - b + 1)
        /\ (j - (a - 1)) + b - 1 = j + (b - a)
        /\ j \in 1..(Len(l) + Len(t)) /\ ~(j <= Len(l)) /\ j - Len(l) = j - (a - 1)
    BY <1>1, <1>5
  <2>2. r[j] = t[j - (a - 1)]
    BY <2>1, <1>4
  <2> QED
    BY <2>1, <2>2, <1>2
<1>7. ASSUME NEW j \in 1..(a-1) PROVE r[j] = s[j]
  <2>1. j \in 1..(Len(l) + Len(t)) /\ j <= Len(l)
    BY <1>1, <1>5
  <2> QED
    BY <2>1, <1>1, <1>4
<1> QED
  BY <1>4, <1>5, <1>6, <1>7 DEF r

\* eraseAll(): a whole group leaves the map.
LEMMA EraseGroupInv ==
    ASSUME NEW m, MapInv(m), NEW a \in 1..Len(m.list), IsTag(m, a),
           NEW b \in 1..End(m), NextTag(m, a + 1, b), NEW r, r = EraseGroup(m, a, b)
    PROVE  MapInv(r)
<1> DEFINE N == Len(m.list)
           d == b - a
           L == Cut(m.list, a, b)
           Gone == {m.list[i] : i \in a..(b-1)}
           I == [n \in Node |-> IF n \in Gone THEN FreeCell ELSE m.item[n]]
           X == [k \in Key |-> IF \E i \in (a+1)..(b-1) : At(m, i).Key = k
                               THEN Null ELSE m.index[k]]
           old(j) == IF j < a THEN j ELSE j + d
<1>1. /\ MapTypeOK(m) /\ MapLinked(m) /\ MapIndexed(m) /\ MapOrdered(m)
      /\ MapNonEmpty(m)
  BY DEF MapInv, Core
<1>2. /\ N \in Nat /\ End(m) = N + 1
      /\ m.list \in Seq(Node) /\ m.item \in [Node -> CellT]
      /\ m.index \in [Key -> Node \cup {Null}]
      /\ \A i, j \in 1..N : m.list[i] = m.list[j] => i = j
      /\ \A i \in 1..N : m.list[i] \in Node
  BY <1>1, Shape DEF MapTypeOK
<1>3. /\ b \in (a+1)..(N+1) /\ d \in 1..N
      /\ b = N + 1 \/ IsTag(m, b)
      /\ \A x \in (a+1)..(b-1) : ~IsTag(m, x)
  BY <1>2 DEF NextTag
<1>4. r.list = L /\ r.item = I /\ r.index = X
      /\ r = [list |-> L, item |-> I, index |-> X]
  BY DEF EraseGroup
<1>5. /\ L \in Seq(Node) /\ Len(L) = N - d
      /\ \A j \in 1..(a-1) : L[j] = m.list[j]
      /\ \A j \in a..(N-d) : L[j] = m.list[j+d]
  <2>1. a \in 1..(N+1) /\ b \in a..(N+1) /\ m.list \in Seq(Node)
    BY <1>2, <1>3
  <2>2. ASSUME NEW s \in Seq(Node), NEW x \in 1..(Len(s)+1), NEW y \in x..(Len(s)+1)
        PROVE  /\ Cut(s, x, y) \in Seq(Node)
               /\ Len(Cut(s, x, y)) = Len(s) - (y - x)
               /\ \A j \in 1..(x-1) : Cut(s, x, y)[j] = s[j]
               /\ \A j \in x..(Len(s) - (y - x)) : Cut(s, x, y)[j] = s[j + (y - x)]
    BY CutElements
  <2> QED
    BY <2>1, <2>2
<1> HIDE DEF L
<1>6. \A j \in 1..(N-d) :
          /\ old(j) \in 1..N /\ old(j) \notin a..(b-1)
          /\ L[j] = m.list[old(j)]
  BY <1>2, <1>3, <1>5
<1>7. \A i, j \in 1..(N-d) : i < j => old(i) < old(j)
  BY <1>2, <1>3
<1>8. \A i \in 1..N : i \notin a..(b-1) => I[m.list[i]] = m.item[m.list[i]]
  BY <1>2, <1>3
<1>9. I \in [Node -> CellT]
  BY <1>2 DEF FreeCell, CellT
<1>10. X \in [Key -> Node \cup {Null}]
  BY <1>2
<1> HIDE DEF I, Gone, old, X
<1>11. \A j \in 1..(N-d) : r.list[j] = m.list[old(j)] /\ At(r, j) = At(m, old(j))
  BY <1>4, <1>6, <1>8 DEF At
<1>12. MapTypeOK(r)
  <2>1. ASSUME NEW i \in 1..(N-d), NEW j \in 1..(N-d), L[i] = L[j]
        PROVE  i = j
    <3>1. old(i) = old(j)
      BY <2>1, <1>2, <1>6
    <3>2. old(i) \in Int /\ old(j) \in Int /\ ~(i < j) /\ ~(j < i)
      BY <3>1, <1>6, <1>7
    <3> QED
      BY <3>2, <1>2, <1>3
  <2>2. r \in [list : Seq(Node), item : [Node -> CellT],
              index : [Key -> Node \cup {Null}]]
    BY <1>4, <1>5, <1>9, <1>10
  <2> QED
    BY <2>1, <2>2, <1>4, <1>5 DEF MapTypeOK
<1>13. Len(r.list) = N - d
  BY <1>4, <1>5
<1>14. \A j \in 1..(N-d) : IsTag(r, j) <=> IsTag(m, old(j))
  <2>1. \A j \in 1..(N-d) : IsTag(r, j) <=> At(r, j).Value # Null
    BY <1>12, <1>13, Shape
  <2>2. \A j \in 1..N : IsTag(m, j) <=> At(m, j).Value # Null
    BY <1>1, Shape
  <2> QED
    BY <2>1, <2>2, <1>6, <1>11
<1>15. MapOrdered(r)
  <2>1. \A i, j \in 1..N : i < j => At(m, i).OrderIdx <= At(m, j).OrderIdx
    BY <1>1 DEF MapOrdered
  <2>2. ASSUME NEW i \in 1..(N-d), NEW j \in 1..(N-d), i < j
        PROVE  At(r, i).OrderIdx <= At(r, j).OrderIdx
    <3>1. old(i) \in 1..N /\ old(j) \in 1..N /\ old(i) < old(j)
      BY <2>2, <1>6, <1>7
    <3> QED
      BY <3>1, <2>1, <1>11
  <2> QED
    BY <2>2, <1>13 DEF MapOrdered
<1>16. MapLinked(r)
  <2> SUFFICES ASSUME NEW i \in 1..(N-d)
               PROVE  \E x \in 1..i : /\ IsTag(r, x)
                                      /\ At(r, i).TagIt = r.list[x]
                                      /\ \A y \in (x+1)..i : ~IsTag(r, y)
    BY <1>13 DEF MapLinked
  <2>1. old(i) \in 1..N
    BY <1>6
  <2>2. PICK x \in 1..old(i) : /\ IsTag(m, x)
                               /\ At(m, old(i)).TagIt = m.list[x]
                               /\ \A y \in (x+1)..old(i) : ~IsTag(m, y)
    BY <2>1, <1>1 DEF MapLinked
  <2>3. PICK z \in 1..i : old(z) = x
    <3>1. CASE x < a
      <4>1. x \in 1..i
        BY <3>1, <2>1, <2>2, <1>2, <1>3 DEF old
      <4> QED
        BY <3>1, <4>1 DEF old
    <3>2. CASE x >= a
      <4>1. i >= a /\ old(i) = i + d
        BY <3>2, <2>2, <1>2, <1>3 DEF old
      <4>2. b \in 1..old(i) /\ b # N + 1
        BY <4>1, <2>1, <1>2, <1>3
      <4>3. x >= b
        BY <4>2, <2>2, <1>3
      <4>4. x - d \in 1..i /\ x - d >= a
        BY <4>1, <4>3, <2>2, <1>2, <1>3
      <4>5. old(x - d) = x
        BY <4>4, <2>2, <1>2, <1>3 DEF old
      <4> QED
        BY <4>4, <4>5
    <3> QED
      BY <3>1, <3>2, <2>2
  <2>4. z \in 1..(N-d)
    BY <2>3, <1>2, <1>3
  <2>5. IsTag(r, z) /\ At(r, i).TagIt = r.list[z]
    BY <2>2, <2>3, <2>4, <1>11, <1>14
  <2>6. ASSUME NEW y \in (z+1)..i PROVE ~IsTag(r, y)
    <3>1. y \in 1..(N-d) /\ z < y /\ (y < i \/ y = i)
      BY <2>4, <1>2, <1>3
    <3>2. old(y) \in (x+1)..old(i)
      BY SMTT(30), <3>1, <2>1, <2>3, <2>4, <1>6, <1>7
    <3> QED
      BY <3>1, <3>2, <2>2, <1>14
  <2> QED
    BY <2>5, <2>6
<1>17. MapNonEmpty(r)
  <2>1. \A j \in 1..N : IsTag(m, j) => j # N /\ ~IsTag(m, j+1)
    BY <1>1 DEF MapNonEmpty
  <2>2. ASSUME NEW i \in 1..(N-d), IsTag(r, i)
        PROVE  i # N - d /\ ~IsTag(r, i+1)
    <3>1. /\ old(i) \in 1..N /\ old(i) # N
          /\ IsTag(m, old(i)) /\ ~IsTag(m, old(i)+1)
      BY <2>1, <2>2, <1>6, <1>14
    <3>2. i + 1 # a
      BY <3>1, <1>2 DEF old
    <3>3. old(i+1) = old(i) + 1
      BY <3>2, <1>2, <1>3 DEF old
    <3>4. i # N - d
      <4>1. i >= a => old(i) = i + d
        BY <1>2, <1>3 DEF old
      <4>2. i < a => i + 1 < a
        BY <3>2, <1>2
      <4> QED
        BY <4>1, <4>2, <3>1, <1>2, <1>3
    <3>5. i + 1 \in 1..(N-d)
      <4>1. N - d \in Int
        BY <1>2, <1>3
      <4> QED
        BY <4>1, <3>4
    <3> QED
      BY <3>1, <3>3, <3>4, <3>5, <1>14
  <2> QED
    BY <2>2, <1>13 DEF MapNonEmpty
<1>18. MapIndexed(r)
  <2>1. \A i \in 1..N : ~IsTag(m, i) =>
            At(m, i).Key \in Key /\ m.index[At(m, i).Key] = m.list[i]
    BY <1>1 DEF MapIndexed
  <2>2. ASSUME NEW i \in 1..(N-d), ~IsTag(r, i)
        PROVE  At(r, i).Key \in Key /\ r.index[At(r, i).Key] = r.list[i]
    <3> DEFINE k == At(m, old(i)).Key
    <3>1. /\ old(i) \in 1..N /\ ~IsTag(m, old(i)) /\ old(i) \notin a..(b-1)
          /\ At(r, i) = At(m, old(i)) /\ r.list[i] = m.list[old(i)]
      BY <2>2, <1>6, <1>11, <1>14
    <3>2. k \in Key /\ m.index[k] = m.list[old(i)]
      BY <3>1, <2>1
    <3>3. ASSUME NEW j \in (a+1)..(b-1), At(m, j).Key = k PROVE FALSE
      <4>1. j \in 1..N /\ ~IsTag(m, j) /\ j \in a..(b-1)
        BY <1>2, <1>3
      <4>2. m.list[j] = m.list[old(i)]
        BY <4>1, <3>2, <3>3, <2>1
      <4> QED
        BY <4>1, <4>2, <3>1, <1>2
    <3> HIDE DEF k
    <3>4. r.index[k] = m.index[k]
      BY <3>2, <3>3, <1>4 DEF X
    <3> QED
      BY <3>1, <3>2, <3>4 DEF k
  <2>3. ASSUME NEW l \in Key, r.index[l] # Null
        PROVE  \E i \in 1..(N-d) :
                   r.list[i] = r.index[l] /\ ~IsTag(r, i) /\ At(r, i).Key = l
    <3>1. /\ r.index[l] = m.index[l]
          /\ \A i \in (a+1)..(b-1) : At(m, i).Key # l
      BY <2>3, <1>4 DEF X
    <3>2. PICK j \in 1..N :
              m.list[j] = m.index[l] /\ ~IsTag(m, j) /\ At(m, j).Key = l
      BY <2>3, <3>1, <1>1 DEF MapIndexed
    <3>3. j \notin a..(b-1)
      BY <3>1, <3>2, <1>2, <1>3
    <3>4. PICK i \in 1..(N-d) : old(i) = j
      <4>1. CASE j < a
        <5>1. j \in 1..(N-d)
          BY <4>1, <3>2, <1>2, <1>3
        <5> QED
          BY <4>1, <5>1 DEF old
      <4>2. CASE j >= b
        <5>1. j - d \in 1..(N-d) /\ j - d >= a /\ (j - d) + d = j
          BY <4>2, <3>2, <1>2, <1>3
        <5>2. old(j - d) = j
          BY <5>1, <1>2, <1>3 DEF old
        <5> QED
          BY <5>1, <5>2
      <4> QED
        BY <4>1, <4>2, <3>2, <3>3, <1>2, <1>3
    <3> QED
      BY <3>1, <3>2, <3>4, <1>11, <1>14
  <2> QED
    BY <2>2, <2>3, <1>13 DEF MapIndexed
<1> QED
  BY <1>12, <1>15, <1>16, <1>17, <1>18 DEF MapInv, Core

\* What the invariant says depends on the values only by their presence.
LEMMA SameShapeInv ==
    ASSUME NEW m, MapInv(m), NEW r,
           r \in [list : Seq(Node), item : [Node -> CellT],
                  index : [Key -> Node \cup {Null}]],
           r.list = m.list, r.index = m.index,
           \A j \in 1..Len(m.list) :
               /\ At(r, j).Key = At(m, j).Key
               /\ At(r, j).TagIt = At(m, j).TagIt
               /\ At(r, j).OrderIdx = At(m, j).OrderIdx
               /\ IsTag(r, j) <=> IsTag(m, j)
    PROVE  MapInv(r)
<1> DEFINE N == Len(m.list)
<1>1. /\ MapTypeOK(m) /\ MapLinked(m) /\ MapIndexed(m) /\ MapOrdered(m)
      /\ MapNonEmpty(m)
  BY DEF MapInv, Core
<1>2. N \in Nat
  BY <1>1, Shape
<1>3. Len(r.list) = N
  OBVIOUS
<1> HIDE DEF N
<1>4. /\ \A j \in 1..N : At(r, j).Key = At(m, j).Key
      /\ \A j \in 1..N : At(r, j).TagIt = At(m, j).TagIt
      /\ \A j \in 1..N : At(r, j).OrderIdx = At(m, j).OrderIdx
      /\ \A j \in 1..N : IsTag(r, j) <=> IsTag(m, j)
  BY DEF N
<1>5. MapTypeOK(r)
  BY <1>1 DEF MapTypeOK
<1>6. MapOrdered(r)
  <2>1. \A x, y \in 1..N : x < y => At(m, x).OrderIdx <= At(m, y).OrderIdx
    BY <1>1 DEF MapOrdered, N
  <2>2. \A x, y \in 1..N : x < y => At(r, x).OrderIdx <= At(r, y).OrderIdx
    BY <2>1, <1>4
  <2> QED
    BY <2>2, <1>3 DEF MapOrdered
<1>7. MapLinked(r)
  <2> SUFFICES ASSUME NEW j \in 1..N
               PROVE  \E x \in 1..j : /\ IsTag(r, x)
                                      /\ At(r, j).TagIt = r.list[x]
                                      /\ \A y \in (x+1)..j : ~IsTag(r, y)
    BY <1>3 DEF MapLinked
  <2>1. PICK x \in 1..j : /\ IsTag(m, x)
                          /\ At(m, j).TagIt = m.list[x]
                          /\ \A y \in (x+1)..j : ~IsTag(m, y)
    BY <1>1 DEF MapLinked, N
  <2>2. x \in 1..N
    BY <1>2
  <2>3. IsTag(r, x) /\ At(r, j).TagIt = r.list[x]
    BY <2>1, <2>2, <1>4
  <2>4. ASSUME NEW y \in (x+1)..j PROVE ~IsTag(r, y)
    <3>1. y \in 1..N
      BY <1>2
    <3> QED
      BY <2>1, <3>1, <1>4
  <2> QED
    BY <2>3, <2>4
<1>8. MapNonEmpty(r)
  <2> SUFFICES ASSUME NEW j \in 1..N, IsTag(r, j)
               PROVE  j # N /\ ~IsTag(r, j+1)
    BY <1>3 DEF MapNonEmpty
  <2>1. j # N /\ ~IsTag(m, j+1)
    BY <1>1, <1>4 DEF MapNonEmpty, N
  <2>2. j+1 \in 1..N
    BY <2>1, <1>2
  <2> QED
    BY <2>1, <2>2, <1>4
<1>9. MapIndexed(r)
  <2>1. ASSUME NEW j \in 1..N, ~IsTag(r, j)
        PROVE  At(r, j).Key \in Key /\ r.index[At(r, j).Key] = r.list[j]
    <3>1. At(m, j).Key \in Key /\ m.index[At(m, j).Key] = m.list[j]
      BY <2>1, <1>1, <1>4 DEF MapIndexed, N
    <3>2. At(r, j).Key = At(m, j).Key
      BY <1>4
    <3> QED
      BY <3>1, <3>2
  <2>2. ASSUME NEW l \in Key, r.index[l] # Null
        PROVE  \E x \in 1..N :
                   r.list[x] = r.index[l] /\ ~IsTag(r, x) /\ At(r, x).Key = l
    <3>1. PICK x \in 1..N :
              m.list[x] = m.index[l] /\ ~IsTag(m, x) /\ At(m, x).Key = l
      BY <2>2, <1>1 DEF MapIndexed, N
    <3>2. ~IsTag(r, x) /\ At(r, x).Key = l
      <4>1. (IsTag(r, x) <=> IsTag(m, x)) /\ At(r, x).Key = At(m, x).Key
        BY SMTT(30), <1>4
      <4> QED
        BY <3>1, <4>1
    <3> QED
      BY <3>1, <3>2
  <2> QED
    BY <2>1, <2>2, <1>3 DEF MapIndexed
<1> QED
  BY <1>5, <1>6, <1>7, <1>8, <1>9 DEF MapInv, Core

\* The map m after operator[] has written the value v of the group of the key k.
Assigned(m, k, v) ==
    [list |-> m.list,
     item |-> [m.item EXCEPT ![m.item[m.index[k]].TagIt].Value = v],
     index |-> m.index]

\* A value assigned through operator[] leaves the structure as it is.
LEMMA AssignInv ==
    ASSUME NEW m, MapInv(m), NEW k \in Key, m.index[k] # Null, NEW v \in Val
    PROVE  MapInv(Assigned(m, k, v))
<1> DEFINE N == Len(m.list)
           n == m.item[m.index[k]].TagIt
           c == [m.item[n] EXCEPT !.Value = v]
           I == [m.item EXCEPT ![n] = c]
           r == [list |-> m.list, item |-> I, index |-> m.index]
<1>1. /\ MapTypeOK(m) /\ MapLinked(m) /\ MapIndexed(m) /\ MapOrdered(m)
      /\ MapNonEmpty(m)
  BY DEF MapInv, Core
<1>2. /\ N \in Nat
      /\ m.list \in Seq(Node) /\ m.item \in [Node -> CellT]
      /\ m.index \in [Key -> Node \cup {Null}]
      /\ \A i \in 1..N : m.list[i] \in Node
  BY <1>1, Shape DEF MapTypeOK
<1>3. \A i, j \in 1..N : m.list[i] = m.list[j] => i = j
  BY <1>1 DEF MapTypeOK
<1>4. PICK i \in 1..N :
          m.list[i] = m.index[k] /\ ~IsTag(m, i) /\ At(m, i).Key = k
  BY <1>1 DEF MapIndexed
<1>5. PICK t \in 1..N : IsTag(m, t) /\ n = m.list[t]
  <2>1. PICK t \in 1..i : IsTag(m, t) /\ At(m, i).TagIt = m.list[t]
    BY <1>1 DEF MapLinked
  <2>2. n = m.list[t] /\ t \in 1..N
    BY <1>2, <1>4, <2>1 DEF At
  <2> QED
    BY <2>1, <2>2
<1> HIDE DEF n
<1>6. n \in Node /\ m.item[n] \in CellT
  BY <1>2, <1>5
<1>7. /\ c \in CellT /\ c.Value = v /\ c.Key = m.item[n].Key
      /\ c.TagIt = m.item[n].TagIt /\ c.OrderIdx = m.item[n].OrderIdx
  BY <1>6 DEF CellT
<1> HIDE DEF c
<1>8. /\ I \in [Node -> CellT] /\ I[n] = c
      /\ \A x \in Node : x # n => I[x] = m.item[x]
  BY <1>2, <1>6, <1>7
<1> HIDE DEF I
<1>9. /\ r \in [list : Seq(Node), item : [Node -> CellT],
                index : [Key -> Node \cup {Null}]]
      /\ r.list = m.list /\ r.index = m.index /\ r.item = I
  BY <1>2, <1>8
<1> HIDE DEF r
<1>10. /\ \A j \in 1..N : IsTag(m, j) <=> At(m, j).Value # Null
       /\ \A j \in 1..N : IsTag(r, j) <=> At(r, j).Value # Null
  BY <1>2, <1>9 DEF IsTag, End
<1>11. ASSUME NEW j \in 1..N
       PROVE  /\ At(r, j).Key = At(m, j).Key
              /\ At(r, j).TagIt = At(m, j).TagIt
              /\ At(r, j).OrderIdx = At(m, j).OrderIdx
              /\ IsTag(r, j) <=> IsTag(m, j)
  <2>1. CASE j = t
    <3>1. At(r, j) = c /\ At(m, j) = m.item[n]
      BY <2>1, <1>5, <1>8, <1>9 DEF At
    <3>2. IsTag(m, j) /\ IsTag(r, j)
      BY <2>1, <3>1, <1>5, <1>7, <1>10, ConstAssumption
    <3> QED
      BY <3>1, <3>2, <1>7
  <2>2. CASE j # t
    <3>1. m.list[j] \in Node /\ m.list[j] # n
      BY <2>2, <1>2, <1>3, <1>5
    <3>2. At(r, j) = At(m, j)
      BY <3>1, <1>8, <1>9 DEF At
    <3> QED
      BY <3>2, <1>10
  <2> QED
    BY <2>1, <2>2
<1>12. MapInv(r)
  BY <1>9, <1>11, SameShapeInv DEF N
<1> QED
  BY <1>12 DEF r, I, c, n, Assigned

\* The empty map.
LEMMA EmptyInv ==
    MapInv([list |-> <<>>, item |-> [n \in Node |-> FreeCell],
            index |-> [k \in Key |-> Null]])
<1> DEFINE m == [list |-> <<>>, item |-> [n \in Node |-> FreeCell],
                 index |-> [k \in Key |-> Null]]
<1>1. m.list = <<>> /\ Len(m.list) = 0 /\ m.index = [k \in Key |-> Null]
  OBVIOUS
<1>2. m \in [list : Seq(Node), item : [Node -> CellT],
            index : [Key -> Node \cup {Null}]]
  BY DEF CellT, FreeCell
<1> HIDE DEF m
<1>3. MapTypeOK(m)
  BY <1>1, <1>2 DEF MapTypeOK
<1>4. MapLinked(m) /\ MapIndexed(m) /\ MapOrdered(m) /\ MapNonEmpty(m)
  BY <1>1 DEF MapLinked, MapIndexed, MapOrdered, MapNonEmpty
<1>5. MapInv(m)
  BY <1>3, <1>4 DEF MapInv, Core
<1> QED
  BY <1>5 DEF m

(***************************************************************************)
(* The inductive invariant: TypeOK /\ Grouped /\ Indexed /\ Ordered.       *)
(***************************************************************************)
IInv == MapInv(Map)

\* Becoming a map that satisfies the invariant establishes it.
LEMMA BecomeInv ==
    ASSUME NEW m, MapInv(m), BecomeInRange(m) \/ Become(m)
    PROVE  IInv'
<1>1. /\ KeyList' = m.list /\ Item' = m.item /\ Index' = m.index
  BY DEF BecomeInRange, Become
<1>2. m = [list |-> m.list, item |-> m.item, index |-> m.index]
  BY DEF MapInv, Core, MapTypeOK
<1>3. MapInv([list |-> KeyList', item |-> Item', index |-> Index'])
  BY <1>1, <1>2
<1> QED
  BY <1>3 DEF IInv, Map

\* An empty map satisfies it, ...
LEMMA InitIInv == Init => IInv
BY EmptyInv DEF Init, IInv, Map

\* ... and every step keeps it.
LEMMA NextIInv == IInv /\ [Next]_vars => IInv'
<1> SUFFICES ASSUME IInv, [Next]_vars PROVE IInv'
  OBVIOUS
<1> USE DEF IInv
<1>1. /\ Map.list = KeyList /\ Map.item = Item /\ Map.index = Index
      /\ Len(Map.list) \in Nat /\ End(Map) = Len(Map.list) + 1
  BY Shape DEF Map, MapInv, Core
<1>2. ASSUME NEW p \in 1..End(Map), NEW k \in Key, NEW v \in Val, Insert(p, k, v)
      PROVE  IInv'
  <2>1. PICK q \in 1..End(Map) : NewListPos(Map, p, q)
                                 /\ BecomeInRange(InsertGroup(Map, q, k, v))
    BY <1>2 DEF Insert
  <2>2. q = End(Map) \/ IsTag(Map, q)
    BY <2>1, NewListPosBoundary
  <2>3. MapInv(InsertGroup(Map, q, k, v))
    BY <1>1, <1>2, <2>2, InsertGroupInv DEF Insert
  <2> QED
    BY <2>1, <2>3, BecomeInv
<1>3. ASSUME NEW p \in 1..End(Map), NEW k \in Key, InsertRight(p, k)
      PROVE  IInv'
  <2>1. p \in 1..Len(Map.list) /\ Map.index[k] = Null /\ Room(Map)
    BY <1>1, <1>3 DEF InsertRight
  <2>2. MapInv(InsertRightAt(Map, p, k))
    BY <2>1, InsertRightInv
  <2> QED
    BY <1>3, <2>2, BecomeInv DEF InsertRight
<1>4. ASSUME NEW p0 \in 1..End(Map), NEW k \in Key, InsertLeft(p0, k)
      PROVE  IInv'
  <2> DEFINE p == SkipTagForward(Map, p0)
  <2>1. p \in 2..End(Map)
    <3>1. CASE p0 = End(Map)
      <4>1. p = p0 /\ p # SkipTagForward(Map, 1)
        BY <1>4, <3>1 DEF InsertLeft, SkipTagForward, IsTag
      <4>2. p0 # 1
        BY <4>1
      <4> QED
        BY <4>1, <4>2, <1>1, <3>1
    <3>2. CASE p0 # End(Map)
      <4>1. p0 \in 1..Len(Map.list)
        BY <3>2, <1>1
      <4>2. p \in 2..Len(Map.list)
        BY <4>1, Neighbours
      <4> QED
        BY <4>2, <1>1
    <3> QED
      BY <3>1, <3>2
  <2>2. Map.index[k] = Null /\ Room(Map) /\ BecomeInRange(InsertLeftAt(Map, p, k))
    BY <1>1, <1>4 DEF InsertLeft
  <2> HIDE DEF p
  <2>3. MapInv(InsertLeftAt(Map, p, k))
    BY <2>1, <2>2, InsertLeftInv
  <2> QED
    BY <2>2, <2>3, BecomeInv
<1>5. ASSUME NEW p \in 1..End(Map), EraseAt(p) PROVE IInv'
  <2>1. p \in 1..Len(Map.list)
    BY <1>1, <1>5 DEF EraseAt
  <2>2. MapInv(Erase(Map, p))
    BY <2>1, EraseInv
  <2> QED
    BY <1>5, <2>2, BecomeInv DEF EraseAt
<1>6. ASSUME NEW p \in 1..End(Map), EraseAll(p) PROVE IInv'
  <2>1. p \in 1..Len(Map.list)
    BY <1>1, <1>6 DEF EraseAll
  <2>2. PICK a \in 1..Len(KeyList), b \in 1..End(Map) :
            /\ KeyList[a] = At(Map, p).TagIt
            /\ NextTag(Map, a + 1, b)
            /\ Become(EraseGroup(Map, a, b))
    BY <1>6 DEF EraseAll
  <2>3. IsTag(Map, a)
    <3>1. PICK t \in 1..p : IsTag(Map, t) /\ At(Map, p).TagIt = Map.list[t]
      BY <2>1 DEF MapInv, Core, MapLinked
    <3>2. t \in 1..Len(Map.list) /\ Map.list[a] = Map.list[t]
      BY <2>1, <2>2, <3>1, <1>1
    <3>3. a = t
      BY <3>2, <1>1 DEF MapInv, Core, MapTypeOK
    <3> QED
      BY <3>1, <3>3
  <2>4. a \in 1..Len(Map.list)
    BY <1>1
  <2>5. MapInv(EraseGroup(Map, a, b))
    BY <2>2, <2>3, <2>4, EraseGroupInv
  <2> QED
    BY <2>2, <2>5, BecomeInv
<1>7. ASSUME NEW k \in Key, NEW v \in Val, Assign(k, v) PROVE IInv'
  <2> DEFINE r == [list |-> KeyList,
                   item |-> [Item EXCEPT ![Item[Index[k]].TagIt].Value = v],
                   index |-> Index]
  <2>1. r = Assigned(Map, k, v)
    BY <1>1 DEF Assigned
  <2>2. Map.index[k] # Null
    BY <1>1, <1>7 DEF Assign
  <2>3. Become(r)
    BY <1>7 DEF Assign, Become
  <2> HIDE DEF r
  <2>4. MapInv(r)
    BY <2>1, <2>2, AssignInv
  <2> QED
    BY <2>3, <2>4, BecomeInv
<1>8. ASSUME NEW k \in Key, Delete(k) PROVE IInv'
  <2>1. Map.index[k] # Null
    BY <1>1, <1>8 DEF Delete
  <2>2. Find(Map, k) \in 1..Len(Map.list)
    BY <2>1, FindItem
  <2>3. MapInv(Erase(Map, Find(Map, k)))
    BY <2>2, EraseInv
  <2> QED
    BY <1>8, <2>3, BecomeInv DEF Delete
<1>9. ASSUME NEW old \in Key, NEW new \in Key, Rauw(old, new) PROVE IInv'
  <2>1. MapInv(ReplaceKey(Map, old, new))
    BY <1>1, <1>9, ReplaceKeyInv DEF Rauw
  <2> QED
    BY <1>9, <2>1, BecomeInv DEF Rauw
<1>10. CASE Clear
  <2>1. Become([list |-> <<>>, item |-> [n \in Node |-> FreeCell],
                index |-> [k \in Key |-> Null]])
    BY <1>10 DEF Clear, Become
  <2> QED
    BY <2>1, EmptyInv, BecomeInv
<1>11. CASE UNCHANGED vars
  BY <1>11 DEF vars, Map
<1> QED
  BY <1>2, <1>3, <1>4, <1>5, <1>6, <1>7, <1>8, <1>9, <1>10, <1>11 DEF Next

(***************************************************************************)
(* Whatever sequence of operations and callbacks a map goes through, its   *)
(* cells are distinct and well typed, ...                                  *)
(***************************************************************************)
THEOREM MapTypeCorrect == Spec => []TypeOK
<1>1. IInv => TypeOK
  BY DEF IInv, MapInv, Core, TypeOK
<1> QED
  BY <1>1, InitIInv, NextIInv, PTL DEF Spec

\* ... every item leads to the tag of its own group and no group is empty, ...
THEOREM MapStaysGrouped == Spec => []Grouped
<1>1. IInv => Grouped
  BY DEF IInv, MapInv, Core, Grouped, MapGrouped
<1> QED
  BY <1>1, InitIInv, NextIInv, PTL DEF Spec

\* ... a key is in exactly one item, which the index finds, ...
THEOREM MapStaysIndexed == Spec => []Indexed
<1>1. IInv => Indexed
  BY DEF IInv, MapInv, Core, Indexed
<1> QED
  BY <1>1, InitIInv, NextIInv, PTL DEF Spec

\* ... and the order indices never contradict the order of the list.
THEOREM MapStaysOrdered == Spec => []Ordered
<1>1. IInv => Ordered
  BY DEF IInv, MapInv, Core, Ordered
<1> QED
  BY <1>1, InitIInv, NextIInv, PTL DEF Spec

(***************************************************************************)
(* What an operation leaves alone: the group, the order index and the      *)
(* relative order of the cells of S.                                       *)
(***************************************************************************)
InFront(m, a, b) ==
    \E i, j \in 1..Len(m.list) : i < j /\ m.list[i] = a /\ m.list[j] = b

CellsStay(m, r, S) ==
    /\ \A n \in S : /\ r.item[n].TagIt = m.item[n].TagIt
                    /\ r.item[n].OrderIdx = m.item[n].OrderIdx
    /\ \A a, b \in S : InFront(m, a, b) => InFront(r, a, b)

\* The items of the keys in the map, but for those of K.
ItemsBut(m, K) == {m.index[k] : k \in {l \in Key \ K : m.index[l] # Null}}

\* What two steps leave alone, and what one leaves alone of fewer cells.
LEMMA StayTwice ==
    ASSUME NEW m, NEW m1, NEW r, NEW S, NEW T, NEW U, CellsStay(m, m1, S),
           CellsStay(m1, r, T), U \subseteq S, U \subseteq T
    PROVE  CellsStay(m, r, U)
BY DEF CellsStay

\* The index has no part in it.
LEMMA StayIndex ==
    ASSUME NEW m, NEW r0, NEW k, NEW n, NEW S, CellsStay(m, r0, S)
    PROVE  CellsStay(m, SetIndex(r0, k, n), S)
BY DEF CellsStay, SetIndex, InFront


\* Linking a fresh cell leaves the others alone.
LEMMA LinkStays ==
    ASSUME NEW m, MapTypeOK(m), NEW p \in 1..End(m), NEW c \in CellT,
           NEW n \in Node, n \notin Live(m), NEW r, r = LinkCell(m, p, n, c)
    PROVE  CellsStay(m, r, Live(m))
<1> DEFINE to(i) == IF i < p THEN i ELSE i + 1
           N == Len(m.list)
<1>1. /\ N \in Nat /\ End(m) = N + 1 /\ p \in 1..(N+1)
      /\ m.item \in [Node -> CellT] /\ \A i \in 1..N : m.list[i] \in Node
  BY Shape DEF MapTypeOK
<1>2. /\ MapTypeOK(r) /\ End(r) = N + 2
      /\ \A j \in 1..(p-1) : r.list[j] = m.list[j]
      /\ \A j \in (p+1)..End(m) : r.list[j] = m.list[j-1]
  BY <1>1, LinkCellAt
<1>3. Len(r.list) = N + 1
  BY <1>1, <1>2, Shape
<1>4. \A x \in Live(m) : r.item[x] = m.item[x]
  <2>1. r.item = [m.item EXCEPT ![n] = c]
    BY DEF LinkCell
  <2>2. \A x \in Live(m) : x \in Node /\ x # n
    BY <1>1 DEF Live
  <2> QED
    BY <2>1, <2>2, <1>1
<1>5. \A i \in 1..N : to(i) \in 1..Len(r.list) /\ r.list[to(i)] = m.list[i]
  BY SMTT(30), <1>1, <1>2, <1>3
<1>6. \A i, j \in 1..N : i < j => to(i) < to(j)
  BY <1>1
<1>7. ASSUME NEW a \in Live(m), NEW b \in Live(m), InFront(m, a, b)
      PROVE  InFront(r, a, b)
  <2>1. PICK i \in 1..N, j \in 1..N : i < j /\ m.list[i] = a /\ m.list[j] = b
    BY <1>7 DEF InFront
  <2> QED
    BY <2>1, <1>5, <1>6 DEF InFront
<1> QED
  BY <1>4, <1>7 DEF CellsStay

\* Unlinking a cell leaves the others alone.
LEMMA UnlinkStays ==
    ASSUME NEW m, MapTypeOK(m), NEW p \in 1..Len(m.list),
           NEW r, r = UnlinkCell(m, p)
    PROVE  CellsStay(m, r, Live(m) \ {m.list[p]})
<1> DEFINE to(i) == IF i < p THEN i ELSE i - 1
           N == Len(m.list)
           S == Live(m) \ {m.list[p]}
<1>1. /\ N \in Nat /\ End(m) = N + 1
      /\ m.item \in [Node -> CellT] /\ \A i \in 1..N : m.list[i] \in Node
  BY Shape DEF MapTypeOK
<1>2. /\ MapTypeOK(r) /\ End(r) = N
      /\ \A j \in 1..(p-1) : r.list[j] = m.list[j]
      /\ \A j \in p..(N-1) : r.list[j] = m.list[j+1]
  BY <1>1, UnlinkCellAt
<1>3. Len(r.list) = N - 1
  BY <1>1, <1>2, Shape
<1>4. \A x \in S : r.item[x] = m.item[x]
  <2>1. r.item = [m.item EXCEPT ![m.list[p]] = FreeCell]
    BY DEF UnlinkCell
  <2>2. \A x \in S : x \in Node /\ x # m.list[p]
    BY <1>1 DEF Live
  <2> QED
    BY <2>1, <2>2, <1>1
<1>5. ASSUME NEW i \in 1..N, m.list[i] \in S
      PROVE  to(i) \in 1..Len(r.list) /\ r.list[to(i)] = m.list[i] /\ i # p
  <2>1. i # p
    BY <1>5
  <2>2. CASE i < p
    BY <2>2, <1>1, <1>2, <1>3
  <2>3. CASE i > p
    <3>1. i - 1 \in p..(N-1) /\ (i - 1) + 1 = i
      BY <2>3, <1>1
    <3>2. r.list[i-1] = m.list[i]
      BY <3>1, <1>2
    <3> QED
      BY <3>1, <3>2, <2>3, <1>1, <1>3
  <2> QED
    BY <2>1, <2>2, <2>3, <1>1
<1>7. ASSUME NEW a \in S, NEW b \in S, InFront(m, a, b)
      PROVE  InFront(r, a, b)
  <2>1. PICK i \in 1..N, j \in 1..N : i < j /\ m.list[i] = a /\ m.list[j] = b
    BY <1>7 DEF InFront
  <2>2. to(i) < to(j) /\ i # p /\ j # p
    BY <2>1, <1>5, <1>1
  <2>3. to(i) \in 1..Len(r.list) /\ r.list[to(i)] = a
    BY <2>1, <1>5
  <2>4. to(j) \in 1..Len(r.list) /\ r.list[to(j)] = b
    BY <2>1, <1>5
  <2> HIDE DEF to
  <2> QED
    BY <2>2, <2>3, <2>4 DEF InFront
<1> QED
  BY <1>4, <1>7 DEF CellsStay

\* The index of a new element is a number.
LEMMA OrderIdxType ==
    ASSUME NEW m, MapTypeOK(m), NEW p \in 1..End(m)
    PROVE  OrderIdxForNewElem(m, p) \in Int
<1>1. /\ Len(m.list) \in Nat /\ End(m) = Len(m.list) + 1
      /\ \A i \in 1..Len(m.list) : At(m, i).OrderIdx \in Int
  BY Shape DEF CellT
<1>2. Spacing \in Int
  BY ConstAssumption
<1> QED
  BY SMTT(30), <1>1, <1>2 DEF OrderIdxForNewElem, Half

\* Linking the item of a key leaves the other cells alone.
LEMMA LinkItemStays ==
    ASSUME NEW m, MapTypeOK(m), NEW p \in 1..End(m), NEW k \in Key,
           NEW t \in Node \cup {Null}, Room(m)
    PROVE  CellsStay(m, LinkItem(m, p, k, t), Live(m))
<1> DEFINE n == NewNode(m)
           c == NewItem(m, p, k, t)
           r == LinkCell(m, p, n, c)
<1>1. n \in Node /\ n \notin Live(m)
  BY NewNodeFresh
<1>2. c \in CellT
  <2>1. OrderIdxForNewElem(m, p) \in Int
    BY OrderIdxType
  <2> QED
    BY <2>1 DEF NewItem, CellT
<1>3. LinkItem(m, p, k, t) = SetIndex(r, k, n)
  BY DEF LinkItem
<1> HIDE DEF n, c
<1>4. CellsStay(m, r, Live(m))
  BY <1>1, <1>2, LinkStays
<1> HIDE DEF r
<1> QED
  BY <1>3, <1>4, StayIndex

\* So does linking a tag, and a whole group.
LEMMA InsertGroupStays ==
    ASSUME NEW m, MapTypeOK(m), NEW q \in 1..End(m), NEW k \in Key,
           NEW v \in Val, Room2(m)
    PROVE  CellsStay(m, InsertGroup(m, q, k, v), Live(m))
<1> DEFINE n == NewNode(m)
           c == NewTag(m, q, v, n)
           m1 == LinkTag(m, q, v)
<1>1. n \in Node /\ n \notin Live(m)
  BY NewNodeFresh DEF Room, Room2
<1>2. c \in CellT
  <2>1. OrderIdxForNewElem(m, q) \in Int
    BY OrderIdxType
  <2> QED
    BY <1>1, <2>1 DEF NewTag, CellT
<1>3. m1 = LinkCell(m, q, n, c)
  BY DEF LinkTag
<1>4. InsertGroup(m, q, k, v) = LinkItem(m1, q + 1, k, m1.list[q])
  BY DEF InsertGroup
<1> HIDE DEF n, c, m1
<1>5. Len(m.list) \in Nat /\ End(m) = Len(m.list) + 1
  BY Shape
<1>6. /\ CellsStay(m, m1, Live(m))
      /\ MapTypeOK(m1) /\ End(m1) = End(m) + 1
      /\ m1.list[q] = n
      /\ \A j \in 1..(q-1) : m1.list[j] = m.list[j]
      /\ \A j \in (q+1)..End(m) : m1.list[j] = m.list[j-1]
  BY <1>1, <1>2, <1>3, LinkStays, LinkCellAt
<1>7. Len(m1.list) = Len(m.list) + 1
  BY <1>5, <1>6, Shape
<1>8. Room(m1)
  <2>1. PICK a \in Node, b \in Node : a # b /\ {a, b} \cap Live(m) = {}
    BY DEF Room2
  <2>2. PICK x \in Node : x # n /\ x \notin Live(m)
    BY <2>1
  <2>3. \A j \in 1..Len(m1.list) : m1.list[j] # x
    <3> SUFFICES ASSUME NEW j \in 1..Len(m1.list) PROVE m1.list[j] # x
      OBVIOUS
    <3>1. CASE j < q
      <4>1. j \in 1..Len(m.list) /\ m1.list[j] = m.list[j]
        BY <3>1, <1>5, <1>6, <1>7
      <4> QED
        BY <4>1, <2>2 DEF Live
    <3>2. CASE j > q
      <4>1. j - 1 \in 1..Len(m.list) /\ m1.list[j] = m.list[j-1]
        BY <3>2, <1>5, <1>6, <1>7
      <4> QED
        BY <4>1, <2>2 DEF Live
    <3> QED
      BY <3>1, <3>2, <2>2, <1>5, <1>6
  <2> QED
    BY <2>2, <2>3 DEF Room, Live
<1>9. Live(m) \subseteq Live(m1)
  <2> SUFFICES ASSUME NEW i \in 1..Len(m.list) PROVE m.list[i] \in Live(m1)
    BY DEF Live
  <2>1. CASE i < q
    <3>1. i \in 1..Len(m1.list) /\ m1.list[i] = m.list[i]
      BY <2>1, <1>5, <1>6, <1>7
    <3> QED
      BY <3>1 DEF Live
  <2>2. CASE i >= q
    <3>1. i + 1 \in (q+1)..End(m) /\ (i + 1) - 1 = i
      BY <2>2, <1>5
    <3>2. i + 1 \in 1..Len(m1.list) /\ m1.list[i+1] = m.list[i]
      BY <3>1, <1>5, <1>6, <1>7
    <3> QED
      BY <3>2 DEF Live
  <2> QED
    BY <2>1, <2>2, <1>5
<1>10. CellsStay(m1, LinkItem(m1, q + 1, k, n), Live(m1))
  <2>1. q + 1 \in 1..End(m1)
    BY <1>5, <1>6
  <2> QED
    BY <2>1, <1>1, <1>6, <1>8, LinkItemStays
<1> QED
  BY <1>4, <1>6, <1>9, <1>10, StayTwice

\* Inserting an item for a key leaves every cell alone.
LEMMA InsertRightStays ==
    ASSUME NEW m, MapInv(m), NEW p \in 1..Len(m.list), NEW k \in Key,
           Room(m)
    PROVE  CellsStay(m, InsertRightAt(m, p, k), Live(m))
<1> DEFINE q == SkipTagForward(m, p)
           t == At(m, q).TagIt
<1>1. /\ Len(m.list) \in Nat /\ End(m) = Len(m.list) + 1
      /\ MapTypeOK(m)
  BY Shape DEF MapInv, Core
<1>2. q \in 2..Len(m.list)
  BY Neighbours
<1>3. InsertRightAt(m, p, k) = LinkItem(m, q, k, t)
  BY DEF InsertRightAt
<1> HIDE DEF q
<1>4. t \in Node \cup {Null} /\ q \in 1..End(m)
  BY <1>1, <1>2, Shape DEF CellT
<1> HIDE DEF t
<1> QED
  BY <1>1, <1>3, <1>4, LinkItemStays

\* Also in front of p.
LEMMA InsertLeftStays ==
    ASSUME NEW m, MapInv(m), NEW p \in 2..End(m), NEW k \in Key, Room(m)
    PROVE  CellsStay(m, InsertLeftAt(m, p, k), Live(m))
<1>1. /\ Len(m.list) \in Nat /\ End(m) = Len(m.list) + 1
      /\ MapTypeOK(m)
  BY Shape DEF MapInv, Core
<1>2. ASSUME NEW i \in 1..Len(m.list), NEW q \in 1..End(m)
      PROVE  CellsStay(m, LinkItem(m, q, k, At(m, i).TagIt), Live(m))
  <2>1. At(m, i).TagIt \in Node \cup {Null}
    BY <1>1, Shape DEF CellT
  <2> QED
    BY <2>1, <1>1, LinkItemStays
<1>3. CASE IsTag(m, p-1) /\ p - 1 # 1
  <2>1. InsertLeftAt(m, p, k) = LinkItem(m, p - 1, k, At(m, p-2).TagIt)
    BY <1>3 DEF InsertLeftAt
  <2>2. p - 1 \in 1..End(m) /\ p - 2 \in 1..Len(m.list)
    BY <1>1, <1>3
  <2> QED
    BY <2>1, <2>2, <1>2
<1>4. CASE ~(IsTag(m, p-1) /\ p - 1 # 1)
  <2>1. InsertLeftAt(m, p, k) = LinkItem(m, p, k, At(m, p-1).TagIt)
    BY <1>4 DEF InsertLeftAt
  <2>2. p \in 1..End(m) /\ p - 1 \in 1..Len(m.list)
    BY <1>1
  <2> QED
    BY <2>1, <2>2, <1>2
<1> QED
  BY <1>3, <1>4

\* The item of a key in the map: where it is, and that no tag or item of
\* another key is there.
LEMMA ItemOfKey ==
    ASSUME NEW m, MapInv(m), NEW k \in Key, m.index[k] # Null
    PROVE  /\ m.index[k] \in Live(m)
           /\ \A i \in 1..Len(m.list) :
                 m.list[i] = m.index[k] => ~IsTag(m, i) /\ At(m, i).Key = k
<1>1. PICK i \in 1..Len(m.list) :
          m.list[i] = m.index[k] /\ ~IsTag(m, i) /\ At(m, i).Key = k
  BY DEF MapInv, Core, MapIndexed
<1>2. \A i1, i2 \in 1..Len(m.list) : m.list[i1] = m.list[i2] => i1 = i2
  BY DEF MapInv, Core, MapTypeOK
<1> QED
  BY <1>1, <1>2 DEF Live

\* An erasure leaves the items of the other keys alone.
LEMMA EraseStays ==
    ASSUME NEW m, MapInv(m), NEW p0 \in 1..Len(m.list), NEW K,
           At(m, SkipTagForward(m, p0)).Key \in K
    PROVE  CellsStay(m, Erase(m, p0), ItemsBut(m, K))
<1> DEFINE p == SkipTagForward(m, p0)
           k == At(m, p).Key
           m0 == UnlinkCell(m, p)
           m1 == SetIndex(m0, k, Null)
           r == Erase(m, p0)
           S == ItemsBut(m, K)
           N == Len(m.list)
<1>1. Core(m) /\ MapTypeOK(m) /\ MapLinked(m)
  BY DEF MapInv, Core
<1>2. N \in Nat /\ End(m) = N + 1
  BY <1>1, Shape
<1>3. p \in 2..N /\ p \in 1..N /\ ~IsTag(m, p) /\ k \in K
  BY Neighbours, <1>2
<1>4. r = IF TagOrSentinel(m1, p) /\ m1.list[p-1] = At(m, p).TagIt
          THEN UnlinkCell(m1, p - 1) ELSE m1
  BY DEF Erase
<1> HIDE DEF p, k
<1>5. /\ Core(m1) /\ End(m1) = N
      /\ \A j \in 1..(p-1) : m1.list[j] = m.list[j] /\ At(m1, j) = At(m, j)
  BY <1>1, <1>2, <1>3, UnlinkItemCore DEF k
<1>6. CellsStay(m, m0, Live(m) \ {m.list[p]})
  BY <1>1, <1>3, UnlinkStays
<1> HIDE DEF m0
<1>7. CellsStay(m, m1, Live(m) \ {m.list[p]})
  BY <1>6, StayIndex
<1> HIDE DEF m1, r
<1>8. ASSUME NEW n \in S
      PROVE  n \in Live(m) /\ \A i \in 1..N : m.list[i] = n => i # p /\ ~IsTag(m, i)
  <2>1. PICK l \in Key \ K : m.index[l] # Null /\ n = m.index[l]
    BY DEF ItemsBut
  <2>2. l # At(m, p).Key
    BY <2>1, <1>3 DEF k
  <2> QED
    BY <2>1, <2>2, ItemOfKey
<1>9. S \subseteq Live(m) \ {m.list[p]}
  BY <1>3, <1>8
<1>10. CellsStay(m, m1, S)
  BY <1>7, <1>9 DEF CellsStay
<1>11. CASE r = m1
  BY <1>10, <1>11 DEF r
<1>12. CASE /\ r = UnlinkCell(m1, p - 1)
            /\ m1.list[p-1] = At(m, p).TagIt
  <2>1. PICK t \in 1..p : IsTag(m, t) /\ At(m, p).TagIt = m.list[t]
    BY <1>1, <1>3 DEF MapLinked
  <2>2. p - 1 \in 1..N /\ m1.list[p-1] = m.list[p-1] /\ t \in 1..N
    BY <1>2, <1>3, <1>5
  <2>3. \A i \in 1..N : m.list[i] = m1.list[p-1] => IsTag(m, i)
    <3>1. \A i, j \in 1..N : m.list[i] = m.list[j] => i = j
      BY <1>1 DEF MapTypeOK
    <3> QED
      BY <3>1, <2>1, <2>2, <1>12
  <2>4. m1.list[p-1] \notin S
    <3>1. m.list[p-1] \in S => ~IsTag(m, p-1)
      BY <2>2, <1>8
    <3> QED
      BY <3>1, <2>2, <2>3
  <2>5. Len(m1.list) = N - 1 /\ MapTypeOK(m1)
    BY <1>5, <1>2, Shape DEF Core
  <2>6. S \subseteq Live(m1)
    <3> SUFFICES ASSUME NEW n \in S PROVE n \in Live(m1)
      OBVIOUS
    <3>1. PICK i \in 1..N : m.list[i] = n
      BY <1>8 DEF Live
    <3>2. i # p
      BY <3>1, <1>8
    <3>3. \A j \in p..(N-1) : m1.list[j] = m.list[j+1]
      BY <1>1, <1>2, <1>3, UnlinkItemCore DEF m1, m0, k
    <3>4. CASE i < p
      <4>1. i \in 1..Len(m1.list) /\ m1.list[i] = n
        BY <3>1, <3>4, <1>3, <1>5, <2>5
      <4> QED
        BY <4>1 DEF Live
    <3>5. CASE i > p
      <4>1. i - 1 \in p..(N-1) /\ (i - 1) + 1 = i
        BY <3>5, <1>3
      <4>2. i - 1 \in 1..Len(m1.list) /\ m1.list[i-1] = n
        BY <4>1, <3>1, <3>3, <1>3, <2>5
      <4> QED
        BY <4>2 DEF Live
    <3> QED
      BY <3>2, <3>4, <3>5, <1>3
  <2>7. p - 1 \in 1..Len(m1.list)
    BY <1>3, <2>5
  <2>8. CellsStay(m1, r, Live(m1) \ {m1.list[p-1]})
    BY <2>5, <2>7, <1>12, UnlinkStays
  <2>9. CellsStay(m, r, S)
    BY <2>4, <2>6, <2>8, <1>10 DEF CellsStay
  <2> QED
    BY <2>9 DEF r
<1> QED
  BY <1>4, <1>11, <1>12

\* insertLeft() inserts behind a tag, or at the end.
LEMMA LeftOfStart ==
    ASSUME NEW m, MapInv(m), NEW p0 \in 1..End(m),
           SkipTagForward(m, p0) # SkipTagForward(m, 1)
    PROVE  SkipTagForward(m, p0) \in 2..End(m)
<1>1. Len(m.list) \in Nat /\ End(m) = Len(m.list) + 1
  BY Shape DEF MapInv, Core
<1>2. CASE p0 = End(m)
  <2>1. SkipTagForward(m, p0) = p0
    BY <1>2 DEF SkipTagForward, IsTag
  <2>2. p0 # 1
    BY <2>1
  <2> QED
    BY <2>1, <2>2, <1>1, <1>2
<1>3. CASE p0 # End(m)
  <2>1. p0 \in 1..Len(m.list)
    BY <1>1, <1>3
  <2> QED
    BY <2>1, <1>1, Neighbours
<1> QED
  BY <1>2, <1>3

\* The items of the keys in the map are linked.
LEMMA ItemsAreLive ==
    ASSUME NEW m, MapInv(m), NEW K
    PROVE  ItemsBut(m, K) \subseteq Live(m)
BY ItemOfKey DEF ItemsBut

\* eraseAll() leaves the items of the keys that stay alone.
LEMMA EraseGroupStays ==
    ASSUME NEW m, MapInv(m), NEW a \in 1..Len(m.list), IsTag(m, a),
           NEW b \in 1..End(m), NextTag(m, a + 1, b), NEW r, r = EraseGroup(m, a, b)
    PROVE  CellsStay(m, r, ItemsBut(m, {k \in Key : r.index[k] = Null}))
<1> DEFINE N == Len(m.list)
           d == b - a
           Gone == {m.list[i] : i \in a..(b-1)}
           S == ItemsBut(m, {k \in Key : r.index[k] = Null})
           to(i) == IF i < a THEN i ELSE i - d
<1>1. MapTypeOK(m)
  BY DEF MapInv, Core
<1>2. /\ N \in Nat /\ End(m) = N + 1
      /\ m.list \in Seq(Node) /\ m.item \in [Node -> CellT]
      /\ \A i \in 1..N : m.list[i] \in Node
  BY <1>1, Shape DEF MapTypeOK
<1>3. b \in (a+1)..(N+1) /\ d \in 1..N
  BY <1>2 DEF NextTag
<1>4. /\ r.list = Cut(m.list, a, b)
      /\ r.item = [n \in Node |-> IF n \in Gone THEN FreeCell ELSE m.item[n]]
      /\ \A k \in Key : r.index[k] = IF \E i \in (a+1)..(b-1) : At(m, i).Key = k
                                     THEN Null ELSE m.index[k]
  BY DEF EraseGroup
<1>5. /\ Len(r.list) = N - d
      /\ \A j \in 1..(a-1) : r.list[j] = m.list[j]
      /\ \A j \in a..(N-d) : r.list[j] = m.list[j+d]
  <2>1. a \in 1..(N+1) /\ b \in a..(N+1) /\ m.list \in Seq(Node)
    BY <1>2, <1>3
  <2>2. ASSUME NEW s \in Seq(Node), NEW x \in 1..(Len(s)+1), NEW y \in x..(Len(s)+1)
        PROVE  /\ Len(Cut(s, x, y)) = Len(s) - (y - x)
               /\ \A j \in 1..(x-1) : Cut(s, x, y)[j] = s[j]
               /\ \A j \in x..(Len(s) - (y - x)) : Cut(s, x, y)[j] = s[j + (y - x)]
    BY CutElements
  <2>3. /\ Len(Cut(m.list, a, b)) = N - (b - a)
        /\ \A j \in 1..(a-1) : Cut(m.list, a, b)[j] = m.list[j]
        /\ \A j \in a..(N - (b - a)) : Cut(m.list, a, b)[j] = m.list[j + (b - a)]
    BY <2>1, <2>2
  <2> QED
    BY <2>3, <1>4
<1>6. ASSUME NEW n \in S
      PROVE  n \in Live(m) /\ \A i \in 1..N : m.list[i] = n => i \notin a..(b-1)
  <2>1. PICK l \in Key : r.index[l] # Null /\ m.index[l] # Null /\ n = m.index[l]
    BY DEF ItemsBut
  <2>2. /\ n \in Live(m)
        /\ \A i \in 1..N : m.list[i] = n => ~IsTag(m, i) /\ At(m, i).Key = l
    BY <2>1, ItemOfKey
  <2>3. ~\E i \in (a+1)..(b-1) : At(m, i).Key = l
    BY <2>1, <1>4
  <2>4. ASSUME NEW i \in 1..N, m.list[i] = n PROVE i \notin a..(b-1)
    <3>1. ~IsTag(m, i) /\ At(m, i).Key = l
      BY <2>2, <2>4
    <3>2. i # a /\ i \notin (a+1)..(b-1)
      BY <3>1, <2>3
    <3> QED
      BY <3>2, <1>2, <1>3
  <2> QED
    BY <2>2, <2>4
<1> HIDE DEF S
<1>7. \A n \in S : r.item[n] = m.item[n]
  <2> SUFFICES ASSUME NEW n \in S PROVE r.item[n] = m.item[n]
    OBVIOUS
  <2>1. PICK j \in 1..N : n = m.list[j]
    BY <1>6 DEF Live
  <2>2. n \notin Gone
    <3> SUFFICES ASSUME NEW i \in a..(b-1), n = m.list[i] PROVE FALSE
      OBVIOUS
    <3>1. i \in 1..N
      BY <1>2, <1>3
    <3> QED
      BY <3>1, <1>6
  <2>3. n \in Node
    BY <2>1, <1>2
  <2> QED
    BY <2>2, <2>3, <1>4
<1>8. ASSUME NEW i \in 1..N, m.list[i] \in S
      PROVE  to(i) \in 1..Len(r.list) /\ r.list[to(i)] = m.list[i] /\ i \notin a..(b-1)
  <2>1. i \notin a..(b-1)
    BY <1>6, <1>8
  <2>2. CASE i < a
    BY <2>1, <2>2, <1>2, <1>3, <1>5
  <2>3. CASE i >= b
    <3>1. i - d \in a..(N-d) /\ (i - d) + d = i /\ ~(i < a)
      BY <2>3, <1>2, <1>3
    <3>2. r.list[i-d] = m.list[i]
      BY <3>1, <1>5
    <3> QED
      BY <2>1, <3>1, <3>2, <1>2, <1>3, <1>5
  <2> QED
    BY <2>1, <2>2, <2>3, <1>2, <1>3
<1>9. ASSUME NEW x \in S, NEW y \in S, InFront(m, x, y) PROVE InFront(r, x, y)
  <2>1. PICK i \in 1..N, j \in 1..N : i < j /\ m.list[i] = x /\ m.list[j] = y
    BY <1>9 DEF InFront
  <2>2. to(i) \in 1..Len(r.list) /\ r.list[to(i)] = x /\ i \notin a..(b-1)
    BY <2>1, <1>8
  <2>3. to(j) \in 1..Len(r.list) /\ r.list[to(j)] = y /\ j \notin a..(b-1)
    BY <2>1, <1>8
  <2>4. to(i) < to(j)
    BY <2>1, <2>2, <2>3, <1>2, <1>3
  <2> HIDE DEF to
  <2> QED
    BY <2>2, <2>3, <2>4 DEF InFront
<1> QED
  BY <1>7, <1>9 DEF CellsStay, S

\* onRAUW() leaves the items of the keys it does not name alone.
LEMMA ReplaceKeyStays ==
    ASSUME NEW m, MapInv(m), NEW old \in Key, NEW new \in Key, old # new,
           m.index[old] # Null, Room(m), NEW r, r = ReplaceKey(m, old, new)
    PROVE  r.index[old] = Null /\ CellsStay(m, r, ItemsBut(m, {old, new}))
<1> DEFINE m1 == IF m.index[new] = Null THEN m ELSE Erase(m, Find(m, new))
           m2 == InsertRightAt(m1, Find(m1, old), new)
           S == ItemsBut(m, {old, new})
<1>1. /\ MapInv(m1) /\ m1.index[new] = Null
      /\ \A l \in Key \ {new} : m1.index[l] = m.index[l]
      /\ Live(m1) \subseteq Live(m)
      /\ CellsStay(m, m1, S)
  <2>1. CASE m.index[new] = Null
    BY <2>1 DEF CellsStay
  <2>2. CASE m.index[new] # Null
    <3> DEFINE f == Find(m, new)
    <3>1. f \in 1..Len(m.list) /\ At(m, SkipTagForward(m, f)).Key = new
      BY <2>2, FindItem
    <3>2. m1 = Erase(m, f)
      BY <2>2
    <3> HIDE DEF f, m1
    <3>3. CellsStay(m, m1, ItemsBut(m, {old, new}))
      BY <3>1, <3>2, EraseStays
    <3> QED
      BY <3>1, <3>2, <3>3, EraseInv
  <2> QED
    BY <2>1, <2>2
<1> HIDE DEF m1
<1>2. Room(m1) /\ m1.index[old] # Null
  BY <1>1 DEF Room
<1>3. Find(m1, old) \in 1..Len(m1.list)
  BY <1>1, <1>2, FindItem
<1>4. /\ MapInv(m2)
      /\ \A l \in Key \ {new} : m2.index[l] = m1.index[l]
      /\ CellsStay(m1, m2, Live(m1))
  BY <1>1, <1>2, <1>3, InsertRightInv, InsertRightStays
<1>5. r = Erase(m2, Find(m2, old))
  BY DEF ReplaceKey, m1
<1> HIDE DEF m2
<1>6. m2.index[old] # Null
  BY <1>1, <1>2, <1>4
<1>7. /\ Find(m2, old) \in 1..Len(m2.list)
      /\ At(m2, SkipTagForward(m2, Find(m2, old))).Key = old
  BY <1>4, <1>6, FindItem
<1>8. r.index[old] = Null
  BY <1>4, <1>5, <1>7, EraseInv
<1>9. CellsStay(m2, r, ItemsBut(m2, {old}))
  BY <1>4, <1>5, <1>7, EraseStays
<1>10. S \subseteq ItemsBut(m1, {new}) /\ S \subseteq ItemsBut(m2, {old})
  BY <1>1, <1>4 DEF ItemsBut
<1>11. S \subseteq Live(m1)
  BY <1>1, <1>10, ItemsAreLive
<1> HIDE DEF S
<1>12. CellsStay(m, m2, S)
  BY <1>1, <1>4, <1>11, StayTwice
<1>13. CellsStay(m, r, S)
  BY <1>9, <1>10, <1>12, StayTwice
<1> QED
  BY <1>8, <1>13 DEF S

\* A step that leaves alone the items of the keys that stay does not disturb
\* the pairs.
LEMMA PairsStayIn ==
    ASSUME NEW m, Become(m) \/ BecomeInRange(m), NEW S, CellsStay(Map, m, S),
           \A k \in Key : Stays(k) => Index[k] \in S
    PROVE  PairsStay
<1>1. KeyList' = m.list /\ Item' = m.item /\ Index' = m.index
  BY DEF Become, BecomeInRange
<1>2. \A k \in Key : Stays(k) => Index'[k] = Index[k]
  BY DEF Stays
<1>3. \A k, l \in Key : Before(k, l) <=> InFront(Map, Index[k], Index[l])
  BY DEF Before, InFront, Map
<1>4. \A k, l \in Key : Before(k, l)' <=> InFront(m, m.index[k], m.index[l])
  BY <1>1 DEF Before, InFront
<1>5. ASSUME NEW k \in Key, Stays(k)
      PROVE  /\ Item'[Index[k]].TagIt = Item[Index[k]].TagIt
             /\ Item'[Index[k]].OrderIdx = Item[Index[k]].OrderIdx
  <2>1. Index[k] \in S
    BY <1>5
  <2>2. Map.item = Item
    BY DEF Map
  <2> QED
    BY <2>1, <2>2, <1>1 DEF CellsStay
<1>6. ASSUME NEW k \in Key, NEW l \in Key, Stays(k), Stays(l), Before(k, l)
      PROVE  Before(k, l)'
  <2>1. Index[k] \in S /\ Index[l] \in S /\ m.index[k] = Index[k] /\ m.index[l] = Index[l]
    BY <1>1, <1>2, <1>6
  <2>2. InFront(Map, Index[k], Index[l])
    BY <1>3, <1>6
  <2>3. InFront(m, Index[k], Index[l])
    BY <2>1, <2>2 DEF CellsStay
  <2> QED
    BY <2>1, <2>3, <1>4
<1> QED
  BY <1>5, <1>6 DEF PairsStay

(***************************************************************************)
(* No operation disturbs a pair it leaves in the map.                      *)
(***************************************************************************)
LEMMA NextPairsStay == IInv /\ [Next]_vars => PairsStay
<1> SUFFICES ASSUME IInv, [Next]_vars PROVE PairsStay
  OBVIOUS
<1>1. /\ Map.list = KeyList /\ Map.item = Item /\ Map.index = Index
      /\ Len(Map.list) \in Nat /\ End(Map) = Len(Map.list) + 1
      /\ MapInv(Map) /\ MapTypeOK(Map)
  BY Shape DEF IInv, Map, MapInv, Core
<1>2. \A k \in Key : Stays(k) => Index[k] # Null /\ Index'[k] = Index[k]
  BY DEF Stays
<1>3. \A k \in Key : Stays(k) => Index[k] \in Live(Map)
  BY <1>1, <1>2, ItemOfKey
<1>4. ASSUME NEW K, \A k \in Key : Stays(k) => k \notin K
      PROVE  \A k \in Key : Stays(k) => Index[k] \in ItemsBut(Map, K)
  BY <1>1, <1>2, <1>4 DEF ItemsBut
<1>5. ASSUME NEW p \in 1..End(Map), NEW k \in Key, NEW v \in Val, Insert(p, k, v)
      PROVE  PairsStay
  <2>1. PICK q \in 1..End(Map) : BecomeInRange(InsertGroup(Map, q, k, v))
    BY <1>5 DEF Insert
  <2>2. CellsStay(Map, InsertGroup(Map, q, k, v), Live(Map))
    BY <1>1, <1>5, InsertGroupStays DEF Insert
  <2> QED
    BY <2>1, <2>2, <1>3, PairsStayIn
<1>6. ASSUME NEW p \in 1..End(Map), NEW k \in Key, InsertRight(p, k)
      PROVE  PairsStay
  <2>1. p \in 1..Len(Map.list) /\ Room(Map)
    BY <1>1, <1>6 DEF InsertRight
  <2>2. CellsStay(Map, InsertRightAt(Map, p, k), Live(Map))
    BY <1>1, <2>1, InsertRightStays
  <2> QED
    BY <1>6, <2>2, <1>3, PairsStayIn DEF InsertRight
<1>7. ASSUME NEW p0 \in 1..End(Map), NEW k \in Key, InsertLeft(p0, k)
      PROVE  PairsStay
  <2> DEFINE p == SkipTagForward(Map, p0)
  <2>1. p \in 2..End(Map)
    BY <1>1, <1>7, LeftOfStart DEF InsertLeft
  <2>2. Room(Map) /\ BecomeInRange(InsertLeftAt(Map, p, k))
    BY <1>7 DEF InsertLeft
  <2> HIDE DEF p
  <2>3. CellsStay(Map, InsertLeftAt(Map, p, k), Live(Map))
    BY <1>1, <2>1, <2>2, InsertLeftStays
  <2> QED
    BY <2>2, <2>3, <1>3, PairsStayIn
<1>8. ASSUME NEW p \in 1..Len(Map.list), Become(Erase(Map, p))
      PROVE  PairsStay
  <2> DEFINE k == At(Map, SkipTagForward(Map, p)).Key
             r == Erase(Map, p)
  <2>1. CellsStay(Map, r, ItemsBut(Map, {k}))
    BY <1>1, EraseStays
  <2>2. k \in Key => r.index[k] = Null
    BY <1>1, EraseInv
  <2>3. Index' = r.index
    BY <1>8 DEF Become
  <2> HIDE DEF k, r
  <2>4. \A l \in Key : Stays(l) => l \notin {k}
    BY <2>2, <2>3, <1>2
  <2>5. \A l \in Key : Stays(l) => Index[l] \in ItemsBut(Map, {k})
    BY <2>4, <1>4
  <2>6. Become(r)
    BY <1>8 DEF r
  <2> QED
    BY <2>1, <2>5, <2>6, PairsStayIn
<1>9. ASSUME NEW p \in 1..End(Map), EraseAll(p) PROVE PairsStay
  <2>1. p \in 1..Len(Map.list)
    BY <1>1, <1>9 DEF EraseAll
  <2>2. PICK a \in 1..Len(KeyList), b \in 1..End(Map) :
            /\ KeyList[a] = At(Map, p).TagIt
            /\ NextTag(Map, a + 1, b)
            /\ Become(EraseGroup(Map, a, b))
    BY <1>9 DEF EraseAll
  <2>3. IsTag(Map, a)
    <3>1. PICK t \in 1..p : IsTag(Map, t) /\ At(Map, p).TagIt = Map.list[t]
      BY <1>1, <2>1 DEF MapInv, Core, MapLinked
    <3>2. t \in 1..Len(Map.list) /\ Map.list[a] = Map.list[t]
      BY <2>1, <2>2, <3>1, <1>1
    <3>3. a = t
      BY <3>2, <1>1 DEF MapTypeOK
    <3> QED
      BY <3>1, <3>3
  <2> DEFINE r == EraseGroup(Map, a, b)
             K == {k \in Key : r.index[k] = Null}
  <2>4. CellsStay(Map, r, ItemsBut(Map, K))
    BY <1>1, <2>2, <2>3, EraseGroupStays
  <2>5. Become(r) /\ Index' = r.index
    BY <2>2 DEF Become
  <2> HIDE DEF r
  <2>6. \A l \in Key : Stays(l) => l \notin K
    BY <2>5, <1>2
  <2> HIDE DEF K
  <2>7. \A l \in Key : Stays(l) => Index[l] \in ItemsBut(Map, K)
    BY <2>6, <1>4
  <2> QED
    BY <2>4, <2>5, <2>7, PairsStayIn
<1>10. ASSUME NEW k \in Key, NEW v \in Val, Assign(k, v) PROVE PairsStay
  <2> DEFINE r == [list |-> KeyList,
                   item |-> [Item EXCEPT ![Item[Index[k]].TagIt].Value = v],
                   index |-> Index]
  <2>1. Become(r)
    BY <1>10 DEF Assign, Become
  <2>2. \A n \in Live(Map) : /\ r.item[n].TagIt = Item[n].TagIt
                             /\ r.item[n].OrderIdx = Item[n].OrderIdx
    <3> SUFFICES ASSUME NEW n \in Live(Map)
                 PROVE  /\ r.item[n].TagIt = Item[n].TagIt
                        /\ r.item[n].OrderIdx = Item[n].OrderIdx
      OBVIOUS
    <3>1. n \in Node /\ Item \in [Node -> CellT] /\ Item[n] \in CellT
      BY <1>1 DEF Live, MapTypeOK
    <3> QED
      BY <3>1 DEF CellT
  <2>3. \A a, b \in Live(Map) : InFront(Map, a, b) => InFront(r, a, b)
    BY <1>1 DEF InFront
  <2>4. CellsStay(Map, r, Live(Map))
    BY <2>2, <2>3, <1>1 DEF CellsStay
  <2> HIDE DEF r
  <2> QED
    BY <2>1, <2>4, <1>3, PairsStayIn
<1>11. ASSUME NEW k \in Key, Delete(k) PROVE PairsStay
  <2>1. Find(Map, k) \in 1..Len(Map.list) /\ Become(Erase(Map, Find(Map, k)))
    BY <1>1, <1>11, FindItem DEF Delete
  <2> QED
    BY <2>1, <1>8
<1>12. ASSUME NEW old \in Key, NEW new \in Key, Rauw(old, new) PROVE PairsStay
  <2> DEFINE r == ReplaceKey(Map, old, new)
  <2>1. old # new /\ Index[old] # Null /\ Room(Map) /\ BecomeInRange(r)
    BY <1>12 DEF Rauw
  <2>2. r.index[old] = Null /\ CellsStay(Map, r, ItemsBut(Map, {old, new}))
    BY <1>1, <2>1, ReplaceKeyStays
  <2>3. Index' = r.index
    BY <2>1 DEF BecomeInRange, Become
  <2> HIDE DEF r
  <2>4. ~Stays(old)
    BY <1>2, <2>2, <2>3
  <2>5. ~Stays(new)
    BY <1>12, <2>1, <2>2, <2>3 DEF Stays
  <2>6. \A l \in Key : Stays(l) => Index[l] \in ItemsBut(Map, {old, new})
    BY <2>4, <2>5, <1>4
  <2> QED
    BY <2>1, <2>2, <2>6, PairsStayIn
<1>13. CASE Clear
  <2>1. \A k \in Key : ~Stays(k)
    BY <1>2, <1>13 DEF Clear
  <2> QED
    BY <2>1 DEF PairsStay
<1>14. CASE UNCHANGED vars
  <2>1. KeyList' = KeyList /\ Item' = Item /\ Index' = Index
    BY <1>14 DEF vars
  <2> QED
    BY <2>1 DEF PairsStay, Before
<1>15. ASSUME NEW p \in 1..End(Map), EraseAt(p) PROVE PairsStay
  <2>1. p \in 1..Len(Map.list) /\ Become(Erase(Map, p))
    BY <1>1, <1>15 DEF EraseAt
  <2> QED
    BY <2>1, <1>8
<1> QED
  BY <1>5, <1>6, <1>7, <1>9, <1>10, <1>11, <1>12, <1>13, <1>14, <1>15 DEF Next

(***************************************************************************)
(* ... and whatever an operation does to the others, a key it leaves in    *)
(* the map keeps its group, its order index and its place.                 *)
(***************************************************************************)
THEOREM PairsAreKept == Spec => PairsStayProp
<1>1. IInv /\ [Next]_vars => [PairsStay]_vars
  BY NextPairsStay
<1> QED
  BY <1>1, InitIInv, NextIInv, PTL DEF Spec, PairsStayProp

(***************************************************************************)
(* The iterators of a map that satisfies the invariant.                    *)
(***************************************************************************)
\* What the invariant says of positions.
LEMMA MapFacts ==
    ASSUME NEW m, MapInv(m)
    PROVE  /\ Len(m.list) \in Nat /\ End(m) = Len(m.list) + 1
           /\ Positions(m) = 1..(Len(m.list) + 1)
           /\ \A i, j \in 1..Len(m.list) : m.list[i] = m.list[j] => i = j
           /\ ~IsTag(m, End(m)) /\ SkipTagForward(m, End(m)) = End(m)
           /\ \A p \in 1..Len(m.list) :
                 /\ SkipTagForward(m, p) \in 2..Len(m.list)
                 /\ ~IsTag(m, SkipTagForward(m, p))
                 /\ IsTag(m, p) => p # Len(m.list) /\ ~IsTag(m, p+1)
                 /\ ~IsTag(m, p) => p # 1
                 /\ At(m, p) = m.item[m.list[p]]
<1>1. MapTypeOK(m) /\ MapNonEmpty(m)
  BY DEF MapInv, Core
<1>2. /\ Len(m.list) \in Nat /\ End(m) = Len(m.list) + 1
      /\ Positions(m) = 1..(Len(m.list) + 1)
      /\ ~IsTag(m, End(m))
  BY <1>1, Shape DEF Positions
<1>3. SkipTagForward(m, End(m)) = End(m)
  BY <1>2 DEF SkipTagForward
<1> QED
  BY <1>1, <1>2, <1>3, Neighbours DEF MapTypeOK, MapNonEmpty, At

\* SkipTagForward() leaves an iterator on an item where it is.
LEMMA SkipOnItem ==
    ASSUME NEW m, NEW p, ~IsTag(m, p)
    PROVE  SkipTagForward(m, p) = p
BY DEF SkipTagForward

\* The tag of a cell is the nearest one at or in front of it, and only that.
LEMMA NearestTag ==
    ASSUME NEW m, MapInv(m), NEW p \in 1..Len(m.list)
    PROVE  /\ TagPos(m, p) \in 1..p /\ IsTag(m, TagPos(m, p))
           /\ At(m, p).TagIt = m.list[TagPos(m, p)]
           /\ \A x \in (TagPos(m, p) + 1)..p : ~IsTag(m, x)
           /\ \A t \in 1..p : IsTag(m, t) /\ (\A x \in (t+1)..p : ~IsTag(m, x))
                              => t = TagPos(m, p)
           /\ \A t \in 1..Len(m.list) : m.list[t] = At(m, p).TagIt
                              => t = TagPos(m, p)
<1>1. /\ Len(m.list) \in Nat
      /\ \A i, j \in 1..Len(m.list) : m.list[i] = m.list[j] => i = j
  BY MapFacts
<1>2. PICK t \in 1..p : /\ IsTag(m, t)
                        /\ At(m, p).TagIt = m.list[t]
                        /\ \A x \in (t+1)..p : ~IsTag(m, x)
  BY DEF MapInv, Core, MapLinked
<1>3. t \in 1..Len(m.list)
  BY <1>1
<1>4. TagPos(m, p) = t
  BY <1>1, <1>2, <1>3 DEF TagPos
<1>5. \A u \in 1..p : IsTag(m, u) /\ (\A x \in (u+1)..p : ~IsTag(m, x)) => u = t
  <2> SUFFICES ASSUME NEW u \in 1..p, IsTag(m, u),
                      \A x \in (u+1)..p : ~IsTag(m, x)
               PROVE  u = t
    OBVIOUS
  <2>1. ~(t \in (u+1)..p) /\ ~(u \in (t+1)..p)
    BY <1>2
  <2> QED
    BY <2>1, <1>1
<1> QED
  BY <1>1, <1>2, <1>3, <1>4, <1>5

\* Cells with the same nearest tag are in the same group.
LEMMA SameGroup ==
    ASSUME NEW m, MapInv(m), NEW p \in 1..Len(m.list), NEW q \in p..Len(m.list),
           \A x \in (p+1)..q : ~IsTag(m, x)
    PROVE  TagPos(m, q) = TagPos(m, p) /\ At(m, q).TagIt = At(m, p).TagIt
<1> DEFINE t == TagPos(m, p)
<1>1. Len(m.list) \in Nat /\ q \in 1..Len(m.list)
  BY MapFacts
<1>2. /\ t \in 1..p /\ IsTag(m, t) /\ At(m, p).TagIt = m.list[t]
      /\ \A x \in (t + 1)..p : ~IsTag(m, x)
  BY NearestTag
<1> HIDE DEF t
<1>3. t \in 1..q /\ \A x \in (t+1)..q : ~IsTag(m, x)
  BY <1>1, <1>2
<1>4. t = TagPos(m, q)
  BY <1>1, <1>2, <1>3, NearestTag
<1>5. At(m, q).TagIt = m.list[TagPos(m, q)]
  BY <1>1, NearestTag
<1> QED
  BY <1>2, <1>4, <1>5 DEF t

\* There is one next tag, or end().
LEMMA NextTagExists ==
    ASSUME NEW m, MapInv(m), NEW p \in 1..End(m)
    PROVE  \E e \in p..End(m) : /\ NextTag(m, p, e)
                                /\ e = CHOOSE q \in Positions(m) : NextTag(m, p, q)
<1>1. Len(m.list) \in Nat /\ End(m) = Len(m.list) + 1 /\ Positions(m) = 1..End(m)
  BY MapFacts
<1> DEFINE T == {q \in p..End(m) : q = End(m) \/ IsTag(m, q)}
<1>2. T \subseteq Nat /\ End(m) \in T
  BY <1>1
<1>3. PICK e \in T : \A k \in T : e <= k
  <2> HIDE DEF T
  <2> QED
    BY <1>2, LeastNatural
<1>4. NextTag(m, p, e) /\ e \in Positions(m)
  BY <1>1, <1>3 DEF NextTag
<1>5. ASSUME NEW q \in Positions(m), NextTag(m, p, q) PROVE q = e
  <2>1. q \in T
    BY <1>1, <1>5 DEF NextTag
  <2>2. ~(e \in p..(q-1))
    BY <1>1, <1>3, <1>5 DEF NextTag
  <2> QED
    BY <1>1, <1>3, <2>1, <2>2
<1> QED
  BY <1>3, <1>4, <1>5

\* The key of an item, and where find() finds it.
LEMMA KeyOfItem ==
    ASSUME NEW m, MapInv(m), NEW p \in 1..Len(m.list), ~IsTag(m, p)
    PROVE  /\ At(m, p).Key \in Key
           /\ m.index[At(m, p).Key] = m.list[p] /\ m.index[At(m, p).Key] # Null
           /\ Find(m, At(m, p).Key) = p
<1>1. /\ At(m, p).Key \in Key
      /\ m.index[At(m, p).Key] = m.list[p]
  BY DEF MapInv, Core, MapIndexed
<1>2. m.list[p] \in Node /\ Null \notin Node
  BY Shape, ConstAssumption DEF MapInv, Core
<1>3. \A i, j \in 1..Len(m.list) : m.list[i] = m.list[j] => i = j
  BY MapFacts
<1> QED
  BY <1>1, <1>2, <1>3 DEF Find

\* The iterator that is strictly less is in front.
LEMMA ComparingSound ==
    ASSUME NEW m, MapInv(m), NEW p \in Items(m), NEW q \in Items(m), Less(m, p, q)
    PROVE  p < q
<1>1. /\ Len(m.list) \in Nat /\ p \in 1..Len(m.list) /\ q \in 1..Len(m.list)
      /\ ~IsTag(m, q)
  BY MapFacts DEF Items
<1>2. ~(q = p \/ At(m, q).OrderIdx <= At(m, p).OrderIdx)
  BY <1>1, SkipOnItem DEF Less, LessEq
<1>3. q < p => At(m, q).OrderIdx <= At(m, p).OrderIdx
  BY <1>1 DEF MapInv, Core, MapOrdered
<1> QED
  BY <1>1, <1>2, <1>3

\* ++ moves to the next item; -- from there, back to this one.
LEMMA MovesForward ==
    ASSUME NEW m, MapInv(m), NEW p \in 1..Len(m.list)
    PROVE  /\ Inc(m, p) \in (SkipTagForward(m, p) + 1)..End(m)
           /\ ~IsTag(m, Inc(m, p))
           /\ \A x \in (SkipTagForward(m, p) + 1)..(Inc(m, p) - 1) : IsTag(m, x)
           /\ Dec(m, Inc(m, p)) = SkipTagForward(m, p)
<1> DEFINE s == SkipTagForward(m, p)
           N == Len(m.list)
<1>1. /\ N \in Nat /\ End(m) = N + 1
      /\ s \in 2..N /\ ~IsTag(m, s) /\ ~IsTag(m, End(m))
      /\ \A x \in 1..N : IsTag(m, x) => x # N /\ ~IsTag(m, x+1)
  BY MapFacts
<1>2. Inc(m, p) = IF IsTag(m, s + 1) THEN (s + 1) + 1 ELSE s + 1
  BY DEF Inc, SkipTagForward
<1> HIDE DEF s
<1>3. CASE IsTag(m, s + 1)
  <2>1. s + 1 \in 1..N
    BY <1>1, <1>3
  <2>2. Inc(m, p) = s + 2 /\ s + 2 \in 1..N /\ ~IsTag(m, s + 2)
    BY <2>1, <1>1, <1>2, <1>3
  <2>3. Dec(m, s + 2) = s
    <3>1. (s + 2) - 1 = s + 1 /\ s + 1 # 1 /\ (s + 1) - 1 = s
      BY <1>1
    <3> QED
      BY <3>1, <1>3 DEF Dec, SkipTagBack
  <2> QED
    BY <2>2, <2>3, <1>1, <1>3 DEF s
<1>4. CASE ~IsTag(m, s + 1)
  <2>1. Inc(m, p) = s + 1 /\ s + 1 \in 1..(N+1) /\ ~IsTag(m, s + 1)
    BY <1>1, <1>2, <1>4
  <2>2. Dec(m, s + 1) = s
    <3>1. (s + 1) - 1 = s
      BY <1>1
    <3> QED
      BY <3>1, <1>1 DEF Dec, SkipTagBack
  <2> QED
    BY <2>1, <2>2, <1>1 DEF s
<1> QED
  BY <1>3, <1>4

\* skip() moves to the first item of the next group, reverseSkip() back.
LEMMA GroupsForward ==
    ASSUME NEW m, MapInv(m), NEW p \in 1..Len(m.list), Skip(m, p) # End(m)
    PROVE  /\ At(m, Skip(m, p)).TagIt # At(m, p).TagIt
           /\ ReverseSkip(m, Skip(m, p)) = SkipTagForward(m, TagPos(m, p))
<1> DEFINE s == SkipTagForward(m, p)
           N == Len(m.list)
<1>1. /\ N \in Nat /\ End(m) = N + 1
      /\ s \in 2..N /\ ~IsTag(m, s) /\ SkipTagForward(m, End(m)) = End(m)
      /\ \A x \in 1..N : IsTag(m, x) => x # N /\ ~IsTag(m, x+1)
      /\ s = p \/ s = p + 1
  BY MapFacts DEF SkipTagForward
<1>2. Skip(m, p) = SkipTagForward(m, CHOOSE q \in Positions(m) : NextTag(m, s, q))
  BY DEF Skip
<1> HIDE DEF s
<1>3. PICK e \in s..End(m) : NextTag(m, s, e) /\ Skip(m, p) = SkipTagForward(m, e)
  <2>1. s \in 1..End(m)
    BY <1>1
  <2> QED
    BY <2>1, <1>2, NextTagExists
<1>4. e # End(m) /\ IsTag(m, e) /\ e \in (s+1)..N
  BY <1>1, <1>3 DEF NextTag
<1>5. /\ Skip(m, p) = e + 1 /\ e + 1 \in 1..N /\ ~IsTag(m, e + 1)
  BY <1>1, <1>3, <1>4 DEF SkipTagForward
<1>6. TagPos(m, e + 1) = e /\ At(m, e + 1).TagIt = m.list[e]
  <2>1. e \in 1..(e+1) /\ \A x \in (e+1)..(e+1) : ~IsTag(m, x)
    BY <1>1, <1>4, <1>5
  <2>2. e = TagPos(m, e + 1)
    BY <2>1, <1>4, <1>5, NearestTag
  <2>3. At(m, e + 1).TagIt = m.list[TagPos(m, e + 1)]
    BY <1>5, NearestTag
  <2> QED
    BY <2>2, <2>3
<1>7. \A x \in (p+1)..(e-1) : ~IsTag(m, x)
  <2>1. \A x \in s..(e-1) : ~IsTag(m, x)
    BY <1>3 DEF NextTag
  <2> QED
    BY <2>1, <1>1, <1>4
<1>8. TagPos(m, e - 1) = TagPos(m, p)
  <2>1. e - 1 \in p..N
    BY <1>1, <1>4
  <2> QED
    BY <2>1, <1>7, SameGroup
<1>9. At(m, e + 1).TagIt # At(m, p).TagIt
  <2>1. TagPos(m, p) \in 1..p /\ At(m, p).TagIt = m.list[TagPos(m, p)]
    BY NearestTag
  <2>2. TagPos(m, p) # e /\ TagPos(m, p) \in 1..N /\ e \in 1..N
    BY <2>1, <1>1, <1>4
  <2>3. m.list[TagPos(m, p)] # m.list[e]
    BY <2>2, MapFacts
  <2> QED
    BY <2>1, <2>3, <1>6
<1>10. ReverseSkip(m, e + 1) = SkipTagForward(m, TagPos(m, e - 1))
  <2>1. SkipTagForward(m, e + 1) = e + 1 /\ e # 1
    BY <1>1, <1>4, <1>5, SkipOnItem
  <2> QED
    BY <2>1, <1>6 DEF ReverseSkip
<1> QED
  BY <1>5, <1>8, <1>9, <1>10

\* ++ and --, skip() and reverseSkip() are inverse.
LEMMA MovesAreInverse == IInv => MovesInverse
<1> SUFFICES ASSUME IInv, NEW p \in Positions(Map) \ {End(Map)}
             PROVE  /\ Equal(Map, Dec(Map, Inc(Map, p)), p)
                    /\ Skip(Map, p) # End(Map) =>
                          /\ At(Map, Skip(Map, p)).TagIt # At(Map, p).TagIt
                          /\ Equal(Map, ReverseSkip(Map, Skip(Map, p)), TagPos(Map, p))
  BY DEF MovesInverse
<1>1. MapInv(Map)
  BY DEF IInv
<1>2. /\ p \in 1..Len(Map.list)
      /\ \A x \in 1..Len(Map.list) :
           SkipTagForward(Map, SkipTagForward(Map, x)) = SkipTagForward(Map, x)
  BY SMTT(30), <1>1, MapFacts DEF SkipTagForward
<1>3. Equal(Map, Dec(Map, Inc(Map, p)), p)
  BY <1>1, <1>2, MovesForward DEF Equal
<1>4. ASSUME Skip(Map, p) # End(Map)
      PROVE  /\ At(Map, Skip(Map, p)).TagIt # At(Map, p).TagIt
             /\ Equal(Map, ReverseSkip(Map, Skip(Map, p)), TagPos(Map, p))
  <2>1. /\ At(Map, Skip(Map, p)).TagIt # At(Map, p).TagIt
        /\ ReverseSkip(Map, Skip(Map, p)) = SkipTagForward(Map, TagPos(Map, p))
    BY <1>1, <1>2, <1>4, GroupsForward
  <2>2. TagPos(Map, p) \in 1..Len(Map.list)
    <3>1. TagPos(Map, p) \in 1..p /\ Len(Map.list) \in Nat
      BY <1>1, <1>2, NearestTag, MapFacts
    <3> QED
      BY <3>1, <1>2
  <2> QED
    BY <2>1, <2>2, <1>2 DEF Equal
<1> QED
  BY <1>3, <1>4

\* The keys in the map and their items.
LEMMA PresentItems ==
    ASSUME IInv, NEW k \in PresentKeys
    PROVE  /\ Find(Map, k) \in 1..Len(Map.list) /\ ~IsTag(Map, Find(Map, k))
           /\ At(Map, Find(Map, k)).Key = k
           /\ Item[Index[k]].TagIt = At(Map, Find(Map, k)).TagIt
<1>1. MapInv(Map) /\ Map.index = Index /\ Map.item = Item /\ Map.list = KeyList
  BY DEF IInv, Map
<1>2. k \in Key /\ Map.index[k] # Null
  BY <1>1 DEF PresentKeys
<1>3. /\ Find(Map, k) \in 1..Len(Map.list) /\ ~IsTag(Map, Find(Map, k))
      /\ At(Map, Find(Map, k)).Key = k
  BY <1>1, <1>2, FindItem
<1>4. Map.index[k] = Map.list[Find(Map, k)]
  BY <1>1, <1>3, KeyOfItem
<1> QED
  BY <1>1, <1>3, <1>4 DEF At

\* An item belongs to a key in the map.
LEMMA ItemsPresent ==
    ASSUME IInv, NEW p \in 1..Len(Map.list), ~IsTag(Map, p)
    PROVE  /\ At(Map, p).Key \in PresentKeys /\ Find(Map, At(Map, p).Key) = p
           /\ Item[Index[At(Map, p).Key]].TagIt = At(Map, p).TagIt
<1>1. MapInv(Map) /\ Map.index = Index /\ Map.item = Item /\ Map.list = KeyList
  BY DEF IInv, Map
<1>2. /\ At(Map, p).Key \in PresentKeys /\ Find(Map, At(Map, p).Key) = p
  BY <1>1, KeyOfItem DEF PresentKeys
<1>3. Index[At(Map, p).Key] = Map.list[p]
  BY <1>1, KeyOfItem
<1> QED
  BY <1>1, <1>2, <1>3 DEF At

\* getAssociatedValues() is exact.
LEMMA AssociatedAreExact == IInv => AssociatedExact
<1> SUFFICES ASSUME IInv, NEW k \in PresentKeys
             PROVE  LET a == AssociatedValues(Map, k)
                    IN  /\ ToSet(a) = {l \in PresentKeys :
                              Item[Index[l]].TagIt = Item[Index[k]].TagIt}
                        /\ \A i, j \in DOMAIN a :
                              i < j => Find(Map, a[i]) < Find(Map, a[j])
  BY DEF AssociatedExact
<1> DEFINE N == Len(Map.list)
           f == Find(Map, k)
           t == TagPos(Map, f)
           a == AssociatedValues(Map, k)
           Same == {l \in PresentKeys : Item[Index[l]].TagIt = Item[Index[k]].TagIt}
<1>1. MapInv(Map)
  BY DEF IInv
<1>2. /\ f \in 1..N /\ ~IsTag(Map, f) /\ At(Map, f).Key = k
      /\ Item[Index[k]].TagIt = At(Map, f).TagIt
  BY PresentItems
<1>3. /\ N \in Nat /\ End(Map) = N + 1
      /\ \A x, y \in 1..N : Map.list[x] = Map.list[y] => x = y
  BY <1>1, MapFacts
<1>4. /\ t \in 1..f /\ t \in 1..N /\ IsTag(Map, t)
      /\ At(Map, f).TagIt = Map.list[t]
      /\ \A u \in 1..N : Map.list[u] = At(Map, f).TagIt => u = t
  BY <1>1, <1>2, <1>3, NearestTag
<1>5. PICK e \in (t+1)..End(Map) :
          /\ NextTag(Map, t + 1, e)
          /\ e = CHOOSE q \in Positions(Map) : NextTag(Map, t + 1, q)
  <2>1. t + 1 \in 1..End(Map)
    BY <1>3, <1>4
  <2> HIDE DEF t
  <2> QED
    BY <2>1, <1>1, NextTagExists
<1>6. a = [i \in 1..(e - t - 1) |-> At(Map, t + i).Key]
  BY <1>5 DEF AssociatedValues
<1> HIDE DEF f, t, a
<1>7. /\ e \in (t+1)..(N+1)
      /\ e = N + 1 \/ IsTag(Map, e)
      /\ \A x \in (t+1)..(e-1) : ~IsTag(Map, x)
  BY <1>3, <1>5 DEF NextTag
<1>8. ASSUME NEW i \in 1..(e - t - 1)
      PROVE  a[i] \in Same /\ Find(Map, a[i]) = t + i
  <2>1. t + i \in 1..N /\ t + i \in t..N /\ ~IsTag(Map, t + i)
    <3>1. t \in Int /\ e \in Int /\ N \in Nat
      BY <1>3, <1>4, <1>7
    <3>2. t + i \in (t+1)..(e-1)
      BY <3>1
    <3>3. ~IsTag(Map, t + i)
      BY <3>2, <1>7
    <3> QED
      BY <3>1, <3>2, <3>3, <1>4, <1>7
  <2>2. \A x \in (t+1)..(t+i) : ~IsTag(Map, x)
    BY <1>3, <1>4, <1>7
  <2>3. /\ At(Map, t + i).Key \in PresentKeys /\ Find(Map, At(Map, t + i).Key) = t + i
        /\ Item[Index[At(Map, t + i).Key]].TagIt = At(Map, t + i).TagIt
    BY <2>1, ItemsPresent
  <2>4. At(Map, t + i).TagIt = At(Map, t).TagIt
    BY <2>1, <2>2, <1>1, <1>4, SameGroup
  <2>5. At(Map, t).TagIt = Map.list[t]
    BY <1>1, <1>4, Neighbours
  <2>6. a[i] = At(Map, t + i).Key
    BY <1>6
  <2> QED
    BY <2>3, <2>4, <2>5, <2>6, <1>2, <1>4
<1>9. ASSUME NEW l \in Same
      PROVE  \E i \in 1..(e - t - 1) : a[i] = l
  <2> DEFINE g == Find(Map, l)
  <2>1. /\ g \in 1..N /\ ~IsTag(Map, g) /\ At(Map, g).Key = l
        /\ Item[Index[l]].TagIt = At(Map, g).TagIt
    BY PresentItems
  <2> HIDE DEF g
  <2>2. At(Map, g).TagIt = Map.list[t]
    BY <2>1, <1>2, <1>4
  <2>3. /\ TagPos(Map, g) = t
        /\ TagPos(Map, g) \in 1..g
        /\ \A x \in (TagPos(Map, g) + 1)..g : ~IsTag(Map, x)
    BY <2>1, <2>2, <1>1, <1>4, NearestTag
  <2>4. g # t
    BY <2>1, <1>4
  <2>5. g < e
    <3> SUFFICES ASSUME e <= g PROVE FALSE
      BY <1>3, <1>7, <2>1
    <3>1. e \in (t+1)..g /\ e # N + 1
      BY <1>3, <1>7, <2>1
    <3> QED
      BY <3>1, <2>3, <1>7
  <2>6. g - t \in 1..(e - t - 1) /\ t + (g - t) = g
    BY <2>1, <2>3, <2>4, <2>5, <1>3, <1>4, <1>7
  <2>7. a[g - t] = l
    BY <2>1, <2>6, <1>6
  <2> QED
    BY <2>6, <2>7
<1>10. DOMAIN a = 1..(e - t - 1)
  BY <1>6
<1>11. ToSet(a) = Same
  <2> HIDE DEF Same
  <2> QED
    BY <1>8, <1>9, <1>10 DEF ToSet
<1>12. \A i, j \in DOMAIN a : i < j => Find(Map, a[i]) < Find(Map, a[j])
  BY <1>3, <1>4, <1>7, <1>8, <1>10
<1> QED
  BY <1>11, <1>12 DEF a

(***************************************************************************)
(* The traversal.  From a position on it meets the items behind it, each   *)
(* once and in order.                                                      *)
(***************************************************************************)
MetFrom(m, p, s) ==
    /\ s \in Seq(Key)
    /\ \A i \in 1..Len(s) :
          /\ m.index[s[i]] # Null
          /\ Find(m, s[i]) \in p..Len(m.list)
    /\ \A x \in p..Len(m.list) : ~IsTag(m, x) =>
          \E i \in 1..Len(s) : s[i] = At(m, x).Key
    /\ \A i, j \in 1..Len(s) : i < j => Find(m, s[i]) < Find(m, s[j])

\* One step of the traversal.
LEMMA MetOneMore ==
    ASSUME NEW m, MapInv(m), NEW p \in 1..Len(m.list),
           NEW s, MetFrom(m, Inc(m, p), s)
    PROVE  MetFrom(m, p, <<At(m, SkipTagForward(m, p)).Key>> \o s)
<1> DEFINE N == Len(m.list)
           f == SkipTagForward(m, p)
           k == At(m, f).Key
           n == Inc(m, p)
           r == <<k>> \o s
<1>1. /\ N \in Nat /\ End(m) = N + 1 /\ f \in 1..N /\ ~IsTag(m, f)
      /\ f = p \/ (f = p + 1 /\ IsTag(m, p))
  BY MapFacts DEF SkipTagForward
<1>2. k \in Key /\ m.index[k] # Null /\ Find(m, k) = f
  BY <1>1, KeyOfItem
<1>3. n \in (f+1)..(N+1) /\ \A x \in (f+1)..(n-1) : IsTag(m, x)
  BY <1>1, MovesForward
<1>4. /\ s \in Seq(Key)
      /\ \A i \in 1..Len(s) : m.index[s[i]] # Null /\ Find(m, s[i]) \in n..N
      /\ \A x \in n..N : ~IsTag(m, x) => \E i \in 1..Len(s) : s[i] = At(m, x).Key
      /\ \A i, j \in 1..Len(s) : i < j => Find(m, s[i]) < Find(m, s[j])
  BY DEF MetFrom
<1> HIDE DEF f, k, n
<1>5. /\ r \in Seq(Key) /\ Len(r) = Len(s) + 1 /\ r[1] = k
      /\ \A i \in 2..(Len(s) + 1) : r[i] = s[i - 1]
      /\ Len(s) \in Nat
  BY <1>2, <1>4
<1> HIDE DEF r
<1>6. ASSUME NEW i \in 1..Len(r)
      PROVE  /\ m.index[r[i]] # Null
             /\ Find(m, r[i]) \in p..N
             /\ i # 1 => Find(m, r[i]) \in n..N
  <2>1. CASE i = 1
    BY <2>1, <1>1, <1>2, <1>5
  <2>2. CASE i # 1
    <3>1. i \in 2..(Len(s) + 1) /\ i - 1 \in 1..Len(s)
      BY <2>2, <1>5
    <3>2. r[i] = s[i - 1] /\ m.index[s[i - 1]] # Null /\ Find(m, s[i - 1]) \in n..N
      BY <3>1, <1>4, <1>5
    <3> QED
      BY <3>2, <1>1, <1>3
  <2> QED
    BY <2>1, <2>2
<1>7. ASSUME NEW x \in p..N, ~IsTag(m, x)
      PROVE  \E i \in 1..Len(r) : r[i] = At(m, x).Key
  <2>1. x = f \/ x \in n..N
    BY <1>1, <1>3, <1>7
  <2>2. CASE x = f
    <3>1. 1 \in 1..Len(r) /\ r[1] = At(m, x).Key
      BY <2>2, <1>5 DEF k
    <3> QED
      BY <3>1
  <2>3. CASE x \in n..N
    <3>1. PICK i \in 1..Len(s) : s[i] = At(m, x).Key
      BY <2>3, <1>4, <1>7
    <3>2. i + 1 \in 1..Len(r) /\ i + 1 \in 2..(Len(s) + 1) /\ (i + 1) - 1 = i
      BY <1>5
    <3>3. r[i + 1] = s[i]
      BY <3>2, <1>5
    <3> QED
      BY <3>1, <3>2, <3>3
  <2> QED
    BY <2>1, <2>2, <2>3
<1>8. ASSUME NEW i \in 1..Len(r), NEW j \in 1..Len(r), i < j
      PROVE  Find(m, r[i]) < Find(m, r[j])
  <2>1. j # 1 /\ Find(m, r[j]) \in n..N
    BY <1>6, <1>8
  <2>2. CASE i = 1
    <3>1. Find(m, r[i]) = f
      BY <2>2, <1>2, <1>5
    <3> QED
      BY <2>1, <3>1, <1>1, <1>3
  <2>3. CASE i # 1
    <3>1. /\ i - 1 \in 1..Len(s) /\ j - 1 \in 1..Len(s) /\ i - 1 < j - 1
          /\ i \in 2..(Len(s) + 1) /\ j \in 2..(Len(s) + 1)
      BY <2>1, <2>3, <1>5, <1>8
    <3>2. r[i] = s[i - 1] /\ r[j] = s[j - 1]
      BY <3>1, <1>5
    <3>3. Find(m, s[i - 1]) < Find(m, s[j - 1])
      BY <3>1, <1>4
    <3> QED
      BY <3>2, <3>3
  <2> QED
    BY <2>2, <2>3
<1>9. MetFrom(m, p, r)
  BY <1>5, <1>6, <1>7, <1>8 DEF MetFrom
<1> QED
  BY <1>9 DEF r, k, f

\* The keys of the items from a position on exist as a sequence.
KeysFrom(m, h) ==
    /\ h \in [1..End(m) -> Seq(Key)]
    /\ h[End(m)] = <<>>
    /\ \A p \in 1..Len(m.list) :
          h[p] = IF IsTag(m, p) THEN h[p + 1] ELSE <<At(m, p).Key>> \o h[p + 1]

\* There is such a sequence for every position.
LEMMA KeysFromExist ==
    ASSUME NEW m, MapInv(m)
    PROVE  \E h : KeysFrom(m, h)
<1> DEFINE N == Len(m.list)
           A == Seq(Key)
           G == [i \in 1..N |-> [s \in A |->
                   IF IsTag(m, N + 1 - i) THEN s ELSE <<At(m, N + 1 - i).Key>> \o s]]
<1>1. N \in Nat /\ End(m) = N + 1
  BY MapFacts
<1>2. G \in [1..N -> [A -> A]]
  <2>1. ASSUME NEW i \in 1..N, NEW s \in A, ~IsTag(m, N + 1 - i)
        PROVE  <<At(m, N + 1 - i).Key>> \o s \in A
    <3>1. N + 1 - i \in 1..N
      BY <1>1
    <3>2. At(m, N + 1 - i).Key \in Key
      BY <2>1, <3>1, KeyOfItem
    <3> QED
      BY <3>2
  <2> QED
    BY <2>1
<1>3. PICK f \in [0..N -> A] : f[0] = <<>> /\ \A i \in 1..N : f[i] = G[i][f[i-1]]
  <2> DEFINE base == <<>>
  <2>1. base \in A /\ N \in Nat /\ G \in [1..N -> [A -> A]]
    BY <1>1, <1>2
  <2> HIDE DEF A, G, N, base
  <2>2. \E f \in [0..N -> A] : f[0] = base /\ \A i \in 1..N : f[i] = G[i][f[i-1]]
    BY <2>1, IterationExists
  <2> QED
    BY <2>2 DEF base
<1> DEFINE h == [p \in 1..(N+1) |-> f[N + 1 - p]]
<1>4. ASSUME NEW p \in 1..N
      PROVE  h[p] = IF IsTag(m, p) THEN h[p + 1] ELSE <<At(m, p).Key>> \o h[p + 1]
  <2> DEFINE i == N + 1 - p
  <2>1. i \in 1..N /\ i - 1 \in 0..N /\ N + 1 - i = p /\ i - 1 = N + 1 - (p + 1)
    BY <1>1
  <2>2. h[p] = f[i] /\ h[p + 1] = f[i - 1]
    BY <2>1, <1>1
  <2>3. f[i - 1] \in A /\ f[i] = G[i][f[i - 1]]
    <3> HIDE DEF G, A, i
    <3> QED
      BY <2>1, <1>3
  <2> HIDE DEF i, h
  <2>4. G[i][f[i - 1]] = IF IsTag(m, p) THEN f[i - 1] ELSE <<At(m, p).Key>> \o f[i - 1]
    BY <2>1, <2>3
  <2> QED
    BY <2>2, <2>3, <2>4
<1>5. h \in [1..End(m) -> Seq(Key)] /\ h[End(m)] = <<>>
  BY <1>1, <1>3
<1> HIDE DEF h
<1> QED
  BY <1>4, <1>5 DEF KeysFrom

\* The recursion of a traversal has a value.
LEMMA TraversalRecursion ==
    ASSUME NEW m, MapInv(m)
    PROVE  \E from : /\ Traversal(m) = from[1]
                     /\ from[End(m)] = <<>>
                     /\ \A p \in 1..Len(m.list) :
                          from[p] = <<At(m, SkipTagForward(m, p)).Key>> \o from[Inc(m, p)]
<1> DEFINE N == Len(m.list)
           Eq(g) == g = [p \in Positions(m) |->
                           IF Equal(m, p, End(m)) THEN <<>>
                           ELSE <<At(m, SkipTagForward(m, p)).Key>> \o g[Inc(m, p)]]
           from == CHOOSE g : Eq(g)
<1>1. /\ N \in Nat /\ End(m) = N + 1 /\ Positions(m) = 1..(N+1)
      /\ \A p \in 1..N : ~Equal(m, p, End(m))
      /\ Equal(m, End(m), End(m))
      /\ ~IsTag(m, End(m))
  BY MapFacts DEF Equal
<1>2. PICK h : KeysFrom(m, h)
  BY KeysFromExist
<1>3. /\ h \in [1..(N+1) -> Seq(Key)] /\ h[N+1] = <<>>
      /\ \A p \in 1..N :
            h[p] = IF IsTag(m, p) THEN h[p + 1] ELSE <<At(m, p).Key>> \o h[p + 1]
  BY <1>1, <1>2 DEF KeysFrom
<1>4. ASSUME NEW p \in 1..N
      PROVE  h[p] = <<At(m, SkipTagForward(m, p)).Key>> \o h[Inc(m, p)]
  <2> DEFINE f == SkipTagForward(m, p)
  <2>1. f \in 1..N /\ ~IsTag(m, f) /\ f = IF IsTag(m, p) THEN p + 1 ELSE p
    BY MapFacts DEF SkipTagForward
  <2>2. Inc(m, p) = IF IsTag(m, f + 1) THEN (f + 1) + 1 ELSE f + 1
    BY DEF Inc, SkipTagForward
  <2> HIDE DEF f
  <2>3. h[p] = h[f]
    BY <2>1, <1>3
  <2>4. h[f] = <<At(m, f).Key>> \o h[f + 1]
    BY <2>1, <1>3
  <2>5. h[f + 1] = h[Inc(m, p)]
    <3>1. CASE IsTag(m, f + 1)
      <4>1. f + 1 \in 1..N
        BY <3>1, <2>1, <1>1
      <4> QED
        BY <3>1, <4>1, <2>2, <1>3
    <3>2. CASE ~IsTag(m, f + 1)
      BY <3>2, <2>2
    <3> QED
      BY <3>1, <3>2
  <2> QED
    BY <2>3, <2>4, <2>5 DEF f
<1>5. Eq(h)
  <2>1. \A p \in 1..(N+1) : h[p] = IF Equal(m, p, End(m)) THEN <<>>
                      ELSE <<At(m, SkipTagForward(m, p)).Key>> \o h[Inc(m, p)]
    <3> SUFFICES ASSUME NEW p \in 1..(N+1)
                 PROVE  h[p] = IF Equal(m, p, End(m)) THEN <<>>
                      ELSE <<At(m, SkipTagForward(m, p)).Key>> \o h[Inc(m, p)]
      OBVIOUS
    <3>1. CASE p = N + 1
      BY <3>1, <1>1, <1>3
    <3>2. CASE p # N + 1
      <4>1. p \in 1..N
        BY <3>2, <1>1
      <4> QED
        BY <4>1, <1>1, <1>4
    <3> QED
      BY <3>1, <3>2
  <2> QED
    BY <2>1, <1>1, <1>3
<1>6. Eq(from)
  <2> HIDE DEF Eq
  <2> QED
    BY <1>5, Zenon
<1>7. Traversal(m) = from[1]
  BY Zenon DEF Traversal
<1> HIDE DEF from
<1>8. from[End(m)] = <<>>
  BY <1>1, <1>6
<1>9. \A p \in 1..N : from[p] = <<At(m, SkipTagForward(m, p)).Key>> \o from[Inc(m, p)]
  <2>1. \A p \in 1..N : p \in Positions(m) /\ ~Equal(m, p, End(m))
    BY <1>1
  <2> QED
    BY <2>1, <1>6
<1> QED
  BY <1>7, <1>8, <1>9

\* A traversal meets every key of the index once, in list order.
LEMMA TraversalMeets ==
    ASSUME NEW m, MapInv(m)
    PROVE  MetFrom(m, 1, Traversal(m))
<1> DEFINE N == Len(m.list)
<1>1. N \in Nat /\ End(m) = N + 1
  BY MapFacts
<1>2. PICK from : /\ Traversal(m) = from[1]
                  /\ from[End(m)] = <<>>
                  /\ \A p \in 1..N :
                       from[p] = <<At(m, SkipTagForward(m, p)).Key>> \o from[Inc(m, p)]
  BY TraversalRecursion
<1> DEFINE S == {n \in 0..N : \A p \in (N + 1 - n)..(N + 1) : MetFrom(m, p, from[p])}
<1>3. 0 \in S
  <2>1. MetFrom(m, N + 1, <<>>)
    BY <1>1 DEF MetFrom
  <2>2. \A p \in (N + 1 - 0)..(N + 1) : p = N + 1
    BY <1>1
  <2> QED
    BY <2>1, <2>2, <1>1, <1>2
<1>4. ASSUME NEW n \in 0..N, n < N, n \in S PROVE n + 1 \in S
  <2>0. \A q \in (N + 1 - n)..(N + 1) : MetFrom(m, q, from[q])
    BY <1>4
  <2> HIDE DEF S
  <2> DEFINE p == N + 1 - (n + 1)
  <2>1. p \in 1..N /\ n + 1 \in 0..N /\ p + 1 = N + 1 - n /\ n \in Nat
    <3>1. N \in Nat /\ n \in 0..N /\ n < N
      BY <1>1, <1>4
    <3> HIDE DEF N
    <3> QED
      BY <3>1
  <2> HIDE DEF p
  <2>2. Inc(m, p) \in (p+1)..(N+1)
    <3>1. SkipTagForward(m, p) = p \/ SkipTagForward(m, p) = p + 1
      BY DEF SkipTagForward
    <3>2. Inc(m, p) \in (SkipTagForward(m, p) + 1)..(N+1)
      BY <2>1, <1>1, MovesForward
    <3> QED
      BY <3>1, <3>2, <2>1, <1>1
  <2>3. Inc(m, p) \in (N + 1 - n)..(N + 1)
    BY <2>1, <2>2, <1>1
  <2>4. MetFrom(m, Inc(m, p), from[Inc(m, p)])
    BY <2>0, <2>3
  <2>5. MetFrom(m, p, from[p])
    <3>1. from[p] = <<At(m, SkipTagForward(m, p)).Key>> \o from[Inc(m, p)]
      BY <2>1, <1>2
    <3>2. MetFrom(m, p, <<At(m, SkipTagForward(m, p)).Key>> \o from[Inc(m, p)])
      BY <2>1, <2>4, MetOneMore
    <3> QED
      BY <3>1, <3>2
  <2>6. \A q \in p..(N + 1) : q = p \/ q \in (N + 1 - n)..(N + 1)
    BY <2>1, <1>1
  <2>7. \A q \in p..(N + 1) : MetFrom(m, q, from[q])
    BY <2>0, <2>5, <2>6
  <2> QED
    BY <2>1, <2>7 DEF S, p
<1>5. N \in S
  <2>1. \A n \in 0..N : n < N /\ n \in S => n + 1 \in S
    BY <1>4
  <2> HIDE DEF S
  <2>2. 0..N \subseteq S
    BY <1>1, <1>3, <2>1, InductionUpTo
  <2> QED
    BY <2>2, <1>1
<1>6. 1 \in (N + 1 - N)..(N + 1)
  BY <1>1
<1>7. MetFrom(m, 1, from[1])
  BY <1>5, <1>6
<1> QED
  BY <1>2, <1>7

\* The same in the words of the property.
LEMMA TraversalIsComplete == IInv => TraversalComplete
<1> SUFFICES ASSUME IInv PROVE TraversalComplete
  OBVIOUS
<1> DEFINE t == Traversal(Map)
           N == Len(Map.list)
<1>1. MapInv(Map) /\ Map.index = Index
  BY DEF IInv, Map
<1>2. MetFrom(Map, 1, t)
  BY <1>1, TraversalMeets
<1> HIDE DEF t
<1>3. /\ t \in Seq(Key)
      /\ \A i \in 1..Len(t) : Index[t[i]] # Null /\ Find(Map, t[i]) \in 1..N
      /\ \A x \in 1..N : ~IsTag(Map, x) => \E i \in 1..Len(t) : t[i] = At(Map, x).Key
      /\ \A i, j \in 1..Len(t) : i < j => Find(Map, t[i]) < Find(Map, t[j])
  BY <1>1, <1>2 DEF MetFrom
<1>4. DOMAIN t = 1..Len(t) /\ \A i \in 1..Len(t) : t[i] \in Key
  BY <1>3
<1>5. ToSet(t) = PresentKeys
  <2>1. \A i \in 1..Len(t) : t[i] \in PresentKeys
    BY <1>3, <1>4 DEF PresentKeys
  <2>2. ASSUME NEW k \in PresentKeys PROVE \E i \in 1..Len(t) : t[i] = k
    BY <1>3, PresentItems
  <2> QED
    BY <2>1, <2>2, <1>4 DEF ToSet
<1>6. ASSUME NEW i \in DOMAIN t, NEW j \in DOMAIN t, i < j
      PROVE  t[i] # t[j] /\ Find(Map, t[i]) < Find(Map, t[j])
  <2>1. Find(Map, t[i]) < Find(Map, t[j]) /\ Find(Map, t[i]) \in 1..N
    BY <1>3, <1>4, <1>6
  <2>2. Find(Map, t[i]) # Find(Map, t[j])
    BY <2>1
  <2> QED
    BY <2>1, <2>2
<1> QED
  BY <1>5, <1>6 DEF TraversalComplete, t

(***************************************************************************)
(* What a client sees through the iterators is the map, in every state of  *)
(* every map: a traversal is complete and without repetition, the moves    *)
(* are inverse, the comparison agrees with the list.                       *)
(***************************************************************************)
THEOREM IteratorsAreExact == Spec => []IteratorsExact
<1>1. IInv => IteratorsExact
  <2>1. IInv => CompareSound
    BY ComparingSound DEF IInv, CompareSound
  <2> QED
    BY <2>1, TraversalIsComplete, MovesAreInverse, AssociatedAreExact
    DEF IteratorsExact
<1> QED
  BY <1>1, InitIInv, NextIInv, PTL DEF Spec

(***************************************************************************)
(* The groups of a map.  bounds[g] is the position of the tag of the g-th  *)
(* group of gs, and the last of bounds is end(); the group is what is at   *)
(* the positions between its bound and the next one.                       *)
(***************************************************************************)
GroupT == [addr : Node, val : Val, keys : Seq(Key)]

GroupHere(m, e, a, b) ==
    /\ IsTag(m, a)
    /\ e.addr = m.list[a]
    /\ e.val = At(m, a).Value
    /\ Len(e.keys) = b - a - 1
    /\ \A i \in 1..(b - a - 1) : ~IsTag(m, a + i) /\ e.keys[i] = At(m, a + i).Key

Lays(m, bounds, gs) ==
    /\ gs \in Seq(GroupT)
    /\ bounds \in [1..(Len(gs) + 1) -> 1..End(m)]
    /\ bounds[1] = 1 /\ bounds[Len(gs) + 1] = End(m)
    /\ \A g, h \in 1..(Len(gs) + 1) : g < h => bounds[g] < bounds[h]
    /\ \A g \in 1..Len(gs) : GroupHere(m, gs[g], bounds[g], bounds[g+1])

\* A position between a tag and the next bound, counted from the tag.
LEMMA Offset ==
    ASSUME NEW t \in Int, NEW u \in Int, NEW p \in Int, t < p, p < u
    PROVE  p - t \in 1..(u - t - 1) /\ t + (p - t) = p
OBVIOUS

\* The group that a position is in.
LEMMA GroupOfCell ==
    ASSUME NEW m, MapTypeOK(m), NEW bounds, NEW gs, Lays(m, bounds, gs),
           NEW p \in 1..Len(m.list)
    PROVE  \E g \in 1..Len(gs) : bounds[g] <= p /\ p < bounds[g+1]
<1> DEFINE n == Len(gs)
           S == {g \in 1..(n+1) : bounds[g] <= p}
<1>1. /\ n \in Nat /\ Len(m.list) \in Nat /\ End(m) = Len(m.list) + 1
      /\ bounds \in [1..(n+1) -> 1..End(m)]
      /\ bounds[1] = 1 /\ bounds[n+1] = End(m)
  BY Shape DEF Lays
<1>2. 1 \in S /\ n + 1 \notin S
  BY <1>1
<1> HIDE DEF n
<1>3. PICK g \in S : \A h \in S : h <= g
  <2>1. n + 1 \in Nat /\ S \in SUBSET (1..(n+1)) /\ S # {}
    BY <1>1, <1>2
  <2> HIDE DEF S
  <2> QED
    BY <2>1, LargestUpTo
<1>4. g \in 1..n
  BY <1>1, <1>2, <1>3
<1>5. g + 1 \notin S
  BY <1>1, <1>3, <1>4
<1> QED
  BY <1>1, <1>3, <1>4, <1>5 DEF n

\* The bounds are in order, and each group lies between two of them.
LEMMA LaysFacts ==
    ASSUME NEW m, MapTypeOK(m), NEW bounds, NEW gs, Lays(m, bounds, gs)
    PROVE  /\ Len(gs) \in Nat /\ Len(m.list) \in Nat /\ End(m) = Len(m.list) + 1
           /\ \A g \in 1..(Len(gs) + 1) : bounds[g] \in 1..End(m)
           /\ \A g \in 1..Len(gs) :
                 /\ g + 1 \in 1..(Len(gs) + 1)
                 /\ bounds[g] \in 1..Len(m.list)
                 /\ bounds[g] < bounds[g+1]
                 /\ gs[g] \in GroupT
                 /\ GroupHere(m, gs[g], bounds[g], bounds[g+1])
                 /\ Len(gs[g].keys) \in Nat
                 /\ Len(gs[g].keys) = bounds[g+1] - bounds[g] - 1
           /\ \A g, h \in 1..Len(gs) : g < h => bounds[g+1] <= bounds[h]
<1> DEFINE n == Len(gs)
<1>1. /\ n \in Nat /\ Len(m.list) \in Nat /\ End(m) = Len(m.list) + 1
      /\ gs \in Seq(GroupT)
      /\ bounds \in [1..(n+1) -> 1..End(m)]
      /\ bounds[1] = 1 /\ bounds[n+1] = End(m)
      /\ \A g, h \in 1..(n + 1) : g < h => bounds[g] < bounds[h]
      /\ \A g \in 1..n : GroupHere(m, gs[g], bounds[g], bounds[g+1])
  BY Shape DEF Lays
<1> HIDE DEF n
<1>0. \A g \in 1..(n+1) : bounds[g] \in 1..End(m)
  BY <1>1
<1>2. ASSUME NEW g \in 1..n
      PROVE  /\ g + 1 \in 1..(n + 1) /\ gs[g] \in GroupT
             /\ bounds[g] \in 1..Len(m.list) /\ bounds[g] < bounds[g+1]
             /\ Len(gs[g].keys) \in Nat
             /\ Len(gs[g].keys) = bounds[g+1] - bounds[g] - 1
  <2>1. g \in 1..(n+1) /\ g + 1 \in 1..(n + 1) /\ gs[g] \in GroupT
    BY <1>1 DEF n
  <2>2. bounds[g] < bounds[g+1] /\ bounds[g] \in 1..End(m) /\ bounds[g+1] \in 1..End(m)
    <3>1. g < g + 1
      BY <2>1
    <3> QED
      BY <1>1, <1>0, <2>1, <3>1
  <2>3. gs[g].keys \in Seq(Key)
    BY <2>1 DEF GroupT
  <2>4. Len(gs[g].keys) \in Nat
    BY <2>3
  <2>5. Len(gs[g].keys) = bounds[g+1] - bounds[g] - 1
    BY <1>1 DEF GroupHere
  <2>6. bounds[g] \in 1..Len(m.list)
    BY <1>1, <2>2
  <2> QED
    BY <2>1, <2>2, <2>4, <2>5, <2>6
<1>3. ASSUME NEW g \in 1..n, NEW h \in 1..n, g < h PROVE bounds[g+1] <= bounds[h]
  <2>1. CASE g + 1 = h
    BY <1>1, <2>1, <1>2
  <2>2. CASE g + 1 < h
    <3>1. g + 1 \in 1..(n+1) /\ h \in 1..(n+1)
      BY <1>1
    <3>2. bounds[g+1] < bounds[h]
      BY <1>1, <2>2, <3>1
    <3> QED
      BY <3>2, <1>0, <1>1, <3>1
  <2> QED
    BY <1>1, <1>3, <2>1, <2>2
<1> QED
  BY <1>1, <1>0, <1>2, <1>3 DEF n

\* A group with other keys.
LEMMA OtherKeys ==
    ASSUME NEW e \in GroupT, NEW ks \in Seq(Key), NEW f, f = [e EXCEPT !.keys = ks]
    PROVE  f \in GroupT /\ f.addr = e.addr /\ f.val = e.val /\ f.keys = ks
BY DEF GroupT

\* What WithCell() makes of the groups of the cells in front.
LEMMA WithCellType ==
    ASSUME NEW gs \in Seq(GroupT), NEW n \in Node, NEW c \in CellT,
           c.Value = Null => c.Key \in Key
    PROVE  WithCell(gs, n, c) \in Seq(GroupT)
<1>1. CASE c.Value # Null
  <2>1. [addr |-> n, val |-> c.Value, keys |-> <<>>] \in GroupT
    BY <1>1 DEF GroupT, CellT
  <2> QED
    BY <1>1, <2>1 DEF WithCell
<1>2. CASE c.Value = Null
  <2>1. WithCell(gs, n, c) = [gs EXCEPT ![Len(gs)].keys = Append(@, c.Key)]
    BY <1>2 DEF WithCell
  <2>2. CASE gs = <<>>
    <3>1. DOMAIN gs = {} /\ gs \in [{} -> GroupT] 
      BY <2>2
    <3>2. [gs EXCEPT ![Len(gs)].keys = Append(@, c.Key)] \in [{} -> GroupT]
      BY <3>1
    <3> QED
      BY <2>1, <2>2, <3>1, <3>2
  <2>3. CASE gs # <<>>
    <3>1. Len(gs) \in 1..Len(gs) /\ gs[Len(gs)] \in GroupT
      BY <2>3
    <3>2. Append(gs[Len(gs)].keys, c.Key) \in Seq(Key)
      BY <1>2, <3>1 DEF GroupT
    <3>3. [gs[Len(gs)] EXCEPT !.keys = Append(@, c.Key)] \in GroupT
      BY <3>1, <3>2, OtherKeys
    <3> QED
      BY <2>1, <3>1, <3>3
  <2> QED
    BY <2>2, <2>3
<1> QED
  BY <1>1, <1>2

(***************************************************************************)
(* The groups gs of the first p cells of a map: all but the last are       *)
(* complete, and the last has its first items.                             *)
(***************************************************************************)
LaysUpTo(m, bounds, gs, p, fs) ==
    /\ fs \in Seq(GroupT)
    /\ Len(fs) <= Len(gs)
    /\ Len(fs) = 0 => p = 0
    /\ Len(fs) # 0 => bounds[Len(fs)] <= p /\ p < bounds[Len(fs) + 1]
    /\ \A g \in 1..Len(fs) :
          /\ g < Len(fs) => fs[g] = gs[g]
          /\ fs[g].addr = gs[g].addr /\ fs[g].val = gs[g].val
          /\ g = Len(fs) => /\ Len(fs[g].keys) = p - bounds[g]
                            /\ \A i \in 1..(p - bounds[g]) : fs[g].keys[i] = gs[g].keys[i]

\* One more cell.
LEMMA LaysOneMore ==
    ASSUME NEW m, MapTypeOK(m), NEW bounds, NEW gs, Lays(m, bounds, gs),
           NEW p \in 1..Len(m.list), NEW fs, LaysUpTo(m, bounds, gs, p - 1, fs)
    PROVE  LaysUpTo(m, bounds, gs, p, WithCell(fs, m.list[p], At(m, p)))
<1> DEFINE n == Len(gs)
           f == Len(fs)
           r == WithCell(fs, m.list[p], At(m, p))
<1>1. /\ n \in Nat /\ Len(m.list) \in Nat /\ End(m) = Len(m.list) + 1
      /\ \A g \in 1..(n + 1) : bounds[g] \in 1..End(m)
      /\ \A g \in 1..n :
            /\ g + 1 \in 1..(n + 1)
            /\ bounds[g] \in 1..Len(m.list)
            /\ bounds[g] < bounds[g+1]
            /\ gs[g] \in GroupT
            /\ GroupHere(m, gs[g], bounds[g], bounds[g+1])
            /\ Len(gs[g].keys) \in Nat
            /\ Len(gs[g].keys) = bounds[g+1] - bounds[g] - 1
  BY LaysFacts
<1>2. bounds[1] = 1 /\ bounds[n+1] = End(m)
  BY DEF Lays
<1>3. /\ f \in Nat /\ f <= n /\ fs \in Seq(GroupT)
      /\ f = 0 => p = 1
      /\ f # 0 => bounds[f] <= p - 1 /\ p - 1 < bounds[f + 1]
      /\ \A g \in 1..f :
            /\ fs[g] \in GroupT
            /\ g < f => fs[g] = gs[g]
            /\ fs[g].addr = gs[g].addr /\ fs[g].val = gs[g].val
            /\ g = f => /\ Len(fs[g].keys) = p - 1 - bounds[g]
                        /\ \A i \in 1..(p - 1 - bounds[g]) : fs[g].keys[i] = gs[g].keys[i]
  BY DEF LaysUpTo
<1>4. /\ m.list[p] \in Node /\ At(m, p) \in CellT
      /\ IsTag(m, p) <=> At(m, p).Value # Null
  BY Shape
<1> HIDE DEF n, f
<1>5. p <= bounds[f+1] /\ f + 1 \in 1..(n+1)
  BY <1>1, <1>2, <1>3
<1>6. CASE p = bounds[f+1]
  <2>1. f + 1 \in 1..n
    BY <1>6, <1>1, <1>2, <1>5
  <2>2. IsTag(m, p) /\ GroupHere(m, gs[f+1], p, bounds[f+2])
    <3>1. GroupHere(m, gs[f+1], bounds[f+1], bounds[(f+1)+1])
      BY <1>1, <2>1
    <3>2. (f + 1) + 1 = f + 2
      BY <1>3
    <3> QED
      BY <1>6, <3>1, <3>2 DEF GroupHere
  <2>3. r = Append(fs, [addr |-> m.list[p], val |-> At(m, p).Value, keys |-> <<>>])
    BY <1>4, <2>2 DEF WithCell
  <2> DEFINE e == [addr |-> m.list[p], val |-> At(m, p).Value, keys |-> <<>>]
  <2>4. e \in GroupT
    BY <1>4, <2>2 DEF GroupT, CellT
  <2>5. e.addr = gs[f+1].addr /\ e.val = gs[f+1].val /\ Len(e.keys) = 0
    BY <2>2 DEF GroupHere
  <2> HIDE DEF e
  <2>6. r \in Seq(GroupT) /\ Len(r) = f + 1 /\ r[f+1] = e /\ \A g \in 1..f : r[g] = fs[g]
    BY <2>3, <2>4, <1>3 DEF f, e
  <2> HIDE DEF r
  <2>7. bounds[f+1] <= p /\ p < bounds[f+2]
    <3>1. bounds[f+1] < bounds[(f+1)+1] /\ bounds[f+1] \in 1..Len(m.list)
      BY <1>1, <2>1
    <3>2. (f + 1) + 1 = f + 2
      BY <1>3
    <3> QED
      BY <1>6, <3>1, <3>2
  <2>8. ASSUME NEW g \in 1..f
        PROVE  fs[g] = gs[g]
    <3>1. CASE g < f
      BY <1>3, <3>1
    <3>2. CASE g = f
      <4>1. /\ fs[g] \in GroupT /\ gs[g] \in GroupT
            /\ fs[g].addr = gs[g].addr /\ fs[g].val = gs[g].val
        BY <1>1, <1>3
      <4>2. Len(fs[g].keys) = Len(gs[g].keys)
        BY <1>1, <1>3, <1>6, <3>2
      <4>3. \A i \in 1..Len(fs[g].keys) : fs[g].keys[i] = gs[g].keys[i]
        BY <1>1, <1>3, <1>6, <3>2
      <4>4. fs[g].keys = gs[g].keys
        BY <4>1, <4>2, <4>3 DEF GroupT
      <4> QED
        BY <4>1, <4>4 DEF GroupT
    <3> QED
      BY <1>3, <3>1, <3>2
  <2>9. p - bounds[f+1] = 0
    BY <1>6, <1>1, <2>1
  <2>10. (f + 1) + 1 = f + 2
    BY <1>3
  <2>11. LaysUpTo(m, bounds, gs, p, r)
    <3>1. f + 1 <= n /\ f + 1 # 0
      BY <1>1, <2>1
    <3>2. ASSUME NEW g \in 1..(f+1)
          PROVE  /\ g < f + 1 => r[g] = gs[g]
                 /\ r[g].addr = gs[g].addr /\ r[g].val = gs[g].val
                 /\ g = f + 1 => /\ Len(r[g].keys) = p - bounds[g]
                                 /\ \A i \in 1..(p - bounds[g]) : r[g].keys[i] = gs[g].keys[i]
      <4>1. CASE g = f + 1
        BY <4>1, <1>1, <1>3, <2>5, <2>6, <2>9
      <4>2. CASE g # f + 1
        BY <4>2, <1>3, <2>6, <2>8
      <4> QED
        BY <4>1, <4>2
    <3> QED
      BY <2>6, <2>7, <2>10, <3>1, <3>2 DEF LaysUpTo, n
  <2> QED
    BY <2>11 DEF r
<1>7. CASE p < bounds[f+1]
  <2>1. f # 0 /\ f \in 1..n /\ f \in 1..f
    BY <1>7, <1>2, <1>3
  <2> DEFINE i == p - bounds[f]
             e == fs[f]
             ks == Append(e.keys, At(m, p).Key)
  <2>2. i \in 1..Len(gs[f].keys) /\ bounds[f] + i = p
    <3>1. /\ bounds[f] \in Int /\ bounds[f+1] \in Int
          /\ Len(gs[f].keys) = bounds[f+1] - bounds[f] - 1
      BY <1>1, <2>1
    <3>2. p \in Int /\ bounds[f] < p
      BY <1>1, <1>3, <2>1, <3>1
    <3> QED
      BY <1>7, <3>1, <3>2, Offset
  <2>3. ~IsTag(m, p) /\ gs[f].keys[i] = At(m, p).Key
    <3> HIDE DEF i
    <3> QED
      BY <1>1, <2>1, <2>2 DEF GroupHere
  <2>4. At(m, p).Key \in Key
    BY <1>1, <2>1, <2>2, <2>3 DEF GroupT
  <2>5. r = [fs EXCEPT ![f] = [e EXCEPT !.keys = ks]]
    BY <1>4, <2>3 DEF WithCell, f
  <2>6. /\ e \in GroupT /\ e.keys \in Seq(Key) /\ ks \in Seq(Key) /\ Len(ks) = Len(e.keys) + 1
        /\ ks[Len(e.keys) + 1] = At(m, p).Key
        /\ \A j \in 1..Len(e.keys) : ks[j] = e.keys[j]
    BY <1>3, <2>1, <2>4 DEF GroupT
  <2>7. /\ Len(e.keys) = i - 1
        /\ \A j \in 1..(i-1) : e.keys[j] = gs[f].keys[j]
    BY <1>1, <1>3, <2>1, <2>2
  <2> HIDE DEF ks, e, i
  <2>8. Len(ks) = i /\ \A j \in 1..i : ks[j] = gs[f].keys[j]
    BY <2>2, <2>3, <2>6, <2>7
  <2> DEFINE e2 == [e EXCEPT !.keys = ks]
  <2>9. e2 \in GroupT /\ e2.addr = e.addr /\ e2.val = e.val /\ e2.keys = ks
    BY <2>6, OtherKeys
  <2> HIDE DEF e2
  <2>10. /\ r \in Seq(GroupT) /\ Len(r) = f /\ r[f] = e2
         /\ \A g \in 1..f : g < f => r[g] = fs[g]
    BY <2>1, <2>5, <2>9, <1>3 DEF f, e2
  <2> HIDE DEF r
  <2>11. bounds[f] <= p /\ p < bounds[f+1]
    BY <1>1, <1>3, <1>7, <2>1
  <2>12. e2.addr = gs[f].addr /\ e2.val = gs[f].val
    BY <1>3, <2>1, <2>9 DEF e
  <2>13. LaysUpTo(m, bounds, gs, p, r)
    <3>1. ASSUME NEW g \in 1..f
          PROVE  /\ g < f => r[g] = gs[g]
                 /\ r[g].addr = gs[g].addr /\ r[g].val = gs[g].val
                 /\ g = f => /\ Len(r[g].keys) = p - bounds[g]
                             /\ \A j \in 1..(p - bounds[g]) : r[g].keys[j] = gs[g].keys[j]
      <4>1. CASE g = f
        BY <4>1, <2>8, <2>9, <2>10, <2>12 DEF i
      <4>2. CASE g # f
        BY <4>2, <1>3, <2>10
      <4> QED
        BY <4>1, <4>2
    <3> QED
      BY <1>3, <2>1, <2>10, <2>11, <3>1 DEF LaysUpTo, n
  <2> QED
    BY <2>13 DEF r
<1>8. p \in Int /\ bounds[f+1] \in Int
  BY <1>1, <1>5
<1> QED
  BY <1>5, <1>6, <1>7, <1>8

\* A cell that is not a tag is the item of a key.
LEMMA ItemHasKey ==
    ASSUME NEW m, MapTypeOK(m), NEW bounds, NEW gs, Lays(m, bounds, gs),
           NEW p \in 1..Len(m.list), ~IsTag(m, p)
    PROVE  \E g \in 1..Len(gs) : \E i \in 1..Len(gs[g].keys) :
              p = bounds[g] + i /\ At(m, p).Key = gs[g].keys[i] /\ gs[g].keys[i] \in Key
<1>1. PICK g \in 1..Len(gs) : bounds[g] <= p /\ p < bounds[g+1]
  BY GroupOfCell
<1>2. /\ bounds[g] \in 1..Len(m.list) /\ bounds[g+1] \in 1..End(m)
      /\ gs[g] \in GroupT
      /\ GroupHere(m, gs[g], bounds[g], bounds[g+1])
      /\ Len(gs[g].keys) = bounds[g+1] - bounds[g] - 1
  BY LaysFacts
<1> DEFINE i == p - bounds[g]
<1>3. i \in 1..(bounds[g+1] - bounds[g] - 1) /\ p = bounds[g] + i
  <2>1. End(m) \in Nat /\ bounds[g] \in Int /\ p \in Int
    BY <1>2, Shape
  <2>2. bounds[g+1] \in Int
    BY <1>2, <2>1
  <2>3. bounds[g] # p
    BY <1>2 DEF GroupHere
  <2>4. bounds[g] < p
    BY <1>1, <2>1, <2>3
  <2> QED
    BY <1>1, <2>1, <2>2, <2>4, Offset
<1>4. At(m, p).Key = gs[g].keys[i]
  <2> HIDE DEF i
  <2> QED
    BY <1>2, <1>3 DEF GroupHere
<1>5. gs[g].keys[i] \in Key
  <2> HIDE DEF i
  <2> QED
    BY <1>2, <1>3 DEF GroupT
<1> QED
  BY <1>2, <1>3, <1>4, <1>5

\* The groups laid out in a map are those that the refinement mapping reads.
LEMMA LaysUnique ==
    ASSUME NEW m, MapTypeOK(m), NEW bounds, NEW gs, Lays(m, bounds, gs)
    PROVE  GroupsOf(m) = gs
<1> DEFINE N == Len(m.list)
           A == Seq(GroupT)
           G == [p \in 1..N |-> [s \in A |-> WithCell(s, m.list[p], At(m, p))]]
           base == <<>>
           Eq(f) == f = [p \in 0..N |-> IF p = 0 THEN <<>>
                                       ELSE WithCell(f[p-1], m.list[p], At(m, p))]
           upTo == CHOOSE f : Eq(f)
<1>1. N \in Nat /\ End(m) = N + 1
  BY Shape
<1>2. base \in A /\ G \in [1..N -> [A -> A]]
  <2>1. ASSUME NEW p \in 1..N, NEW s \in A
        PROVE  WithCell(s, m.list[p], At(m, p)) \in A
    <3>1. m.list[p] \in Node /\ At(m, p) \in CellT
      BY Shape
    <3>2. At(m, p).Value = Null => At(m, p).Key \in Key
      BY ItemHasKey, Shape
    <3> QED
      BY <3>1, <3>2, WithCellType
  <2> QED
    BY <2>1
<1>3. PICK f \in [0..N -> A] : f[0] = base /\ \A p \in 1..N : f[p] = G[p][f[p-1]]
  <2>1. base \in A /\ N \in Nat /\ G \in [1..N -> [A -> A]]
    BY <1>1, <1>2
  <2> HIDE DEF A, G, base, N
  <2> QED
    BY <2>1, IterationExists
<1>4. Eq(f)
  <2>1. ASSUME NEW p \in 1..N
        PROVE  f[p] = WithCell(f[p-1], m.list[p], At(m, p))
    <3>1. f[p-1] \in A
      BY <1>1, <1>3
    <3> HIDE DEF A
    <3> QED
      BY <1>3, <3>1
  <2>2. f[0] = <<>>
    BY <1>3
  <2> HIDE DEF N
  <2>3. \A p \in 0..N : f[p] = IF p = 0 THEN <<>> ELSE WithCell(f[p-1], m.list[p], At(m, p))
    <3>1. \A p \in 0..N : p = 0 \/ p \in 1..N
      BY <1>1
    <3> QED
      BY <2>1, <2>2, <3>1
  <2> QED
    BY <1>3, <2>3
<1>5. Eq(upTo)
  <2> HIDE DEF Eq
  <2> QED
    BY <1>4, Zenon
<1>6. GroupsOf(m) = upTo[N]
  BY Zenon DEF GroupsOf
<1> DEFINE S == {p \in 0..N : LaysUpTo(m, bounds, gs, p, upTo[p])}
<1> HIDE DEF upTo
<1>7. 0 \in S
  <2>1. upTo[0] = <<>>
    BY <1>1, <1>5
  <2>2. Len(gs) \in Nat
    BY LaysFacts
  <2>3. LaysUpTo(m, bounds, gs, 0, <<>>)
    BY <2>2 DEF LaysUpTo
  <2> QED
    BY <2>1, <2>3, <1>1
<1>8. ASSUME NEW p \in 0..N, p < N, p \in S
      PROVE  p + 1 \in S
  <2>1. p + 1 \in 1..N /\ (p + 1) - 1 = p /\ p + 1 \in 0..N /\ p + 1 # 0
    BY <1>1, <1>8
  <2>2. upTo[p+1] = WithCell(upTo[(p+1)-1], m.list[p+1], At(m, p+1))
    BY <1>5, <2>1
  <2>3. LaysUpTo(m, bounds, gs, (p + 1) - 1, upTo[p])
    BY <1>8, <2>1
  <2>4. LaysUpTo(m, bounds, gs, p + 1, WithCell(upTo[p], m.list[p+1], At(m, p+1)))
    <3> HIDE DEF S, Eq, A, G, base
    <3> QED
      BY <2>1, <2>3, LaysOneMore
  <2> QED
    BY <2>1, <2>2, <2>4
<1>9. LaysUpTo(m, bounds, gs, N, upTo[N])
  <2> HIDE DEF S
  <2>1. 0..N \subseteq S
    BY <1>1, <1>7, <1>8, InductionUpTo
  <2> QED
    BY <1>1, <2>1 DEF S
<1> DEFINE r == upTo[N]
           n == Len(gs)
<1>10. /\ n \in Nat
       /\ \A g \in 1..(n + 1) : bounds[g] \in 1..End(m)
       /\ bounds[1] = 1 /\ bounds[n+1] = End(m)
       /\ gs \in Seq(GroupT)
       /\ \A g \in 1..n : /\ gs[g] \in GroupT
                         /\ bounds[g] < bounds[g+1]
                         /\ Len(gs[g].keys) = bounds[g+1] - bounds[g] - 1
       /\ \A g, h \in 1..(n+1) : g < h => bounds[g] < bounds[h]
  BY SMTT(30), LaysFacts DEF Lays
<1> HIDE DEF r
<1>11. LaysUpTo(m, bounds, gs, N, r)
  BY <1>9 DEF r
<1>12. r \in Seq(GroupT) /\ Len(r) \in Nat /\ Len(r) <= n
  BY <1>11 DEF LaysUpTo
<1> HIDE DEF S, Eq, A, G, base, upTo, n, N
<1>13. Len(r) = n
  <2>1. CASE Len(r) = 0
    <3>1. N = 0
      BY <2>1, <1>11 DEF LaysUpTo
    <3>2. CASE n # 0
      <4>1. 1 \in 1..(n+1) /\ n + 1 \in 1..(n+1) /\ 1 < n + 1
        BY <3>2, <1>10
      <4>2. bounds[1] < bounds[n+1]
        BY <4>1, <1>10
      <4> QED
        BY <4>2, <3>1, <1>1, <1>10
    <3> QED
      BY <2>1, <3>2
  <2>2. CASE Len(r) # 0 /\ Len(r) < n
    <3>1. N < bounds[Len(r) + 1]
      BY <2>2, <1>11 DEF LaysUpTo
    <3>2. Len(r) + 1 \in 1..n
      BY <2>2, <1>10, <1>12
    <3>3. bounds[Len(r) + 1] < bounds[n+1]
      BY <3>2, <1>10
    <3>4. bounds[Len(r) + 1] \in 1..End(m)
      BY <3>2, <1>10
    <3> QED
      BY <3>1, <3>3, <3>4, <1>1, <1>10
  <2> QED
    BY <2>1, <2>2, <1>10, <1>12
<1>14. ASSUME NEW g \in 1..n
       PROVE  r[g] = gs[g]
  <2>1. CASE g < n
    BY <2>1, <1>11, <1>13 DEF LaysUpTo
  <2>2. CASE g = n
    <3>1. /\ r[g].addr = gs[g].addr /\ r[g].val = gs[g].val
          /\ Len(r[g].keys) = N - bounds[g]
          /\ \A i \in 1..(N - bounds[g]) : r[g].keys[i] = gs[g].keys[i]
      BY <2>2, <1>11, <1>13 DEF LaysUpTo
    <3>2. Len(gs[g].keys) = bounds[n+1] - bounds[g] - 1 /\ bounds[g] \in 1..End(m)
      BY <2>2, <1>10
    <3>3. Len(gs[g].keys) = N - bounds[g]
      <4>1. bounds[n+1] = N + 1
        BY <1>1, <1>10
      <4> QED
        BY <3>2, <4>1, <1>1
    <3>4. r[g] \in GroupT /\ gs[g] \in GroupT
      BY <1>10, <1>12, <1>13
    <3>5. r[g].keys = gs[g].keys
      <4>1. r[g].keys \in Seq(Key) /\ gs[g].keys \in Seq(Key)
        BY <3>4 DEF GroupT
      <4> QED
        BY <3>1, <3>3, <4>1
    <3> QED
      BY <3>1, <3>4, <3>5 DEF GroupT
  <2> QED
    BY <2>1, <2>2, <1>10
<1>15. r = gs
  BY <1>10, <1>12, <1>13, <1>14 DEF n
<1> QED
  BY <1>6, <1>15 DEF r

(***************************************************************************)
(* r is m with d more cells from position q on.                            *)
(***************************************************************************)
SameCell(m, i, r, j) == r.list[j] = m.list[i] /\ At(r, j) = At(m, i)

Widened(m, r, q, d) ==
    /\ End(r) = End(m) + d
    /\ \A j \in 1..(q-1) : SameCell(m, j, r, j)
    /\ \A j \in q..Len(m.list) : SameCell(m, j, r, j + d)

\* A group whose cells moved together is the same group.
LEMMA GroupMoved ==
    ASSUME NEW m, NEW r, MapTypeOK(m), MapTypeOK(r), NEW e,
           NEW a \in 1..Len(m.list), NEW b \in 1..End(m), a < b, GroupHere(m, e, a, b),
           NEW a2 \in 1..Len(r.list), NEW b2 \in 1..End(r), b2 - a2 = b - a,
           \A i \in 0..(b - a - 1) : SameCell(m, a + i, r, a2 + i)
    PROVE  GroupHere(r, e, a2, b2)
<1>1. /\ Len(m.list) \in Nat /\ End(m) = Len(m.list) + 1
      /\ Len(r.list) \in Nat /\ End(r) = Len(r.list) + 1
      /\ \A i \in 1..Len(m.list) : IsTag(m, i) <=> At(m, i).Value # Null
      /\ \A i \in 1..Len(r.list) : IsTag(r, i) <=> At(r, i).Value # Null
  BY Shape
<1>2. b2 - a2 - 1 = b - a - 1 /\ b - a - 1 \in Nat
  BY <1>1
<1>3. 0 \in 0..(b - a - 1) /\ a + 0 = a /\ a2 + 0 = a2
  BY <1>1, <1>2
<1>4. SameCell(m, a, r, a2)
  BY <1>3
<1>5. IsTag(r, a2) /\ e.addr = r.list[a2] /\ e.val = At(r, a2).Value
  BY <1>1, <1>4 DEF GroupHere, SameCell
<1>6. ASSUME NEW i \in 1..(b - a - 1)
      PROVE  ~IsTag(r, a2 + i) /\ e.keys[i] = At(r, a2 + i).Key
  <2>1. i \in 0..(b - a - 1) /\ a + i \in 1..Len(m.list) /\ a2 + i \in 1..Len(r.list)
    BY <1>1, <1>2
  <2>2. SameCell(m, a + i, r, a2 + i)
    BY <2>1
  <2>3. ~IsTag(m, a + i) /\ e.keys[i] = At(m, a + i).Key
    BY DEF GroupHere
  <2> QED
    BY <1>1, <2>1, <2>2, <2>3 DEF SameCell
<1>7. Len(e.keys) = b2 - a2 - 1
  BY <1>2 DEF GroupHere
<1> QED
  BY <1>2, <1>5, <1>6, <1>7 DEF GroupHere

\* The groups in front of the new cells stay where they were.
LEMMA GroupInFront ==
    ASSUME NEW m, NEW r, MapTypeOK(m), MapTypeOK(r), NEW q \in 1..End(m), NEW d \in Nat,
           Widened(m, r, q, d), NEW e,
           NEW a \in 1..Len(m.list), NEW b \in 1..End(m), a < b, b <= q
    PROVE  GroupHere(m, e, a, b) <=> GroupHere(r, e, a, b)
<1>1. /\ Len(m.list) \in Nat /\ End(m) = Len(m.list) + 1
      /\ Len(r.list) \in Nat /\ End(r) = Len(r.list) + 1
  BY Shape
<1>2. End(r) = End(m) + d
  BY DEF Widened
<1>3. a \in 1..Len(r.list) /\ b \in 1..End(r)
  BY <1>1, <1>2
<1>4. \A i \in 0..(b - a - 1) : SameCell(m, a + i, r, a + i)
  <2>1. ASSUME NEW i \in 0..(b - a - 1)
        PROVE  a + i \in 1..(q - 1)
    BY <1>1
  <2> QED
    BY <2>1 DEF Widened
<1>5. \A i \in 0..(b - a - 1) : SameCell(r, a + i, m, a + i)
  BY <1>4 DEF SameCell
<1> QED
  BY <1>3, <1>4, <1>5, GroupMoved

\* The groups behind them moved by their number.
LEMMA GroupBehind ==
    ASSUME NEW m, NEW r, MapTypeOK(m), MapTypeOK(r), NEW q \in 1..End(m), NEW d \in Nat,
           Widened(m, r, q, d), NEW e,
           NEW a \in 1..Len(m.list), NEW b \in 1..End(m), a < b, q <= a
    PROVE  GroupHere(m, e, a, b) <=> GroupHere(r, e, a + d, b + d)
<1>1. /\ Len(m.list) \in Nat /\ End(m) = Len(m.list) + 1
      /\ Len(r.list) \in Nat /\ End(r) = Len(r.list) + 1
  BY Shape
<1>2. End(r) = End(m) + d
  BY DEF Widened
<1>3. /\ a + d \in 1..Len(r.list) /\ b + d \in 1..End(r)
      /\ (b + d) - (a + d) = b - a /\ a + d < b + d
  BY <1>1, <1>2
<1>4. ASSUME NEW i \in 0..(b - a - 1)
      PROVE  SameCell(m, a + i, r, (a + d) + i)
  <2>1. a + i \in q..Len(m.list) /\ (a + i) + d = (a + d) + i
    BY <1>1
  <2>2. SameCell(m, a + i, r, (a + i) + d)
    BY <2>1 DEF Widened
  <2> QED
    BY <2>1, <2>2
<1>5. \A i \in 0..((b + d) - (a + d) - 1) : SameCell(r, (a + d) + i, m, a + i)
  BY <1>3, <1>4 DEF SameCell
<1>6. GroupHere(m, e, a, b) => GroupHere(r, e, a + d, b + d)
  BY <1>3, <1>4, GroupMoved
<1>7. GroupHere(r, e, a + d, b + d) => GroupHere(m, e, a, b)
  <2> DEFINE c == a + d
             f == b + d
  <2>1. /\ c \in 1..Len(r.list) /\ f \in 1..End(r) /\ c < f /\ b - a = f - c
        /\ \A i \in 0..(f - c - 1) : SameCell(r, c + i, m, a + i)
    BY <1>3, <1>5
  <2> HIDE DEF c, f
  <2>2. GroupHere(r, e, c, f) => GroupHere(m, e, a, b)
    BY <2>1, GroupMoved
  <2> QED
    BY <2>2 DEF c, f
<1> QED
  BY <1>6, <1>7

\* An item linked in a group is one more key of it.
LEMMA LaysAddKey ==
    ASSUME NEW m, NEW r, MapTypeOK(m), MapTypeOK(r), NEW bounds, NEW gs, Lays(m, bounds, gs),
           NEW g \in 1..Len(gs), NEW i \in 1..(Len(gs[g].keys) + 1),
           NEW q, q = bounds[g] + i, Widened(m, r, q, 1),
           NEW k \in Key, ~IsTag(r, q), At(r, q).Key = k
    PROVE  \E b2 : Lays(r, b2, [gs EXCEPT ![g].keys = InsertAt(@, i, k)])
<1> DEFINE n == Len(gs)
           e == gs[g]
           ks == InsertAt(e.keys, i, k)
           e2 == [e EXCEPT !.keys = ks]
           fs == [gs EXCEPT ![g] = e2]
           b2 == [h \in 1..(n+1) |-> IF h <= g THEN bounds[h] ELSE bounds[h] + 1]
<1>1. /\ n \in Nat /\ Len(m.list) \in Nat /\ End(m) = Len(m.list) + 1
      /\ \A h \in 1..(n + 1) : bounds[h] \in 1..End(m)
      /\ \A h \in 1..n :
            /\ h + 1 \in 1..(n + 1)
            /\ bounds[h] \in 1..Len(m.list)
            /\ bounds[h] < bounds[h+1]
            /\ gs[h] \in GroupT
            /\ GroupHere(m, gs[h], bounds[h], bounds[h+1])
            /\ Len(gs[h].keys) \in Nat
            /\ Len(gs[h].keys) = bounds[h+1] - bounds[h] - 1
      /\ \A h, l \in 1..n : h < l => bounds[h+1] <= bounds[l]
  BY LaysFacts
<1>2. /\ gs \in Seq(GroupT) /\ bounds[1] = 1 /\ bounds[n+1] = End(m)
      /\ \A h, l \in 1..(n+1) : h < l => bounds[h] < bounds[l]
  BY DEF Lays
<1>3. /\ Len(r.list) \in Nat /\ End(r) = Len(r.list) + 1 /\ End(r) = End(m) + 1
  BY Shape DEF Widened
<1>4. e \in GroupT /\ e.keys \in Seq(Key) /\ i \in 1..(Len(e.keys) + 1)
  BY <1>1 DEF GroupT
<1>5. /\ ks \in Seq(Key) /\ Len(ks) = Len(e.keys) + 1
      /\ \A j \in 1..(Len(e.keys)+1) :
            ks[j] = IF j < i THEN e.keys[j] ELSE IF j = i THEN k ELSE e.keys[j-1]
  <2> HIDE DEF e
  <2> QED
    BY SMTT(30), <1>4, InsertAtElements
<1>6. e2 \in GroupT /\ e2.addr = e.addr /\ e2.val = e.val /\ e2.keys = ks
  <2> HIDE DEF ks, e
  <2> QED
    BY <1>4, <1>5, OtherKeys
<1>7. fs = [gs EXCEPT ![g].keys = InsertAt(@, i, k)]
  OBVIOUS
<1> HIDE DEF e2
<1>8. /\ fs \in Seq(GroupT) /\ Len(fs) = n /\ fs[g] = e2
      /\ \A h \in 1..n : h # g => fs[h] = gs[h]
  BY <1>2, <1>6
<1> HIDE DEF fs, ks, n
<1> HIDE DEF e
<1> DEFINE t == bounds[g]
           u == bounds[g+1]
           len == Len(e.keys)
           N == Len(m.list)
<1>9. /\ g \in 1..n /\ g \in 1..(n+1) /\ g + 1 \in 1..(n+1)
      /\ t \in 1..N /\ u \in 1..End(m) /\ t < u
      /\ len \in Nat /\ len = u - t - 1 /\ i \in 1..(len + 1) /\ q = t + i
  <2>1. g \in 1..n
    BY DEF n
  <2> QED
    BY <1>1, <1>4, <2>1 DEF e
<1>0. N \in Nat /\ End(m) = N + 1 /\ Len(r.list) = N + 1 /\ End(r) = N + 2
  BY <1>1, <1>3
<1>15. \A h, l \in 1..n : h < l => bounds[h+1] <= bounds[l]
  BY <1>1
<1> HIDE DEF t, u, len, N
<1>16. q \in 1..End(m) /\ q \in 1..(N+1) /\ t < q /\ q <= u
  BY <1>9, <1>0
<1>10. ASSUME NEW h \in 1..(n+1)
       PROVE  b2[h] = (IF h <= g THEN bounds[h] ELSE bounds[h] + 1) /\ b2[h] \in 1..End(r)
  <2>1. bounds[h] \in 1..End(m)
    BY <1>1
  <2>2. b2[h] = IF h <= g THEN bounds[h] ELSE bounds[h] + 1
    OBVIOUS
  <2> HIDE DEF b2
  <2> QED
    BY <2>1, <2>2, <1>0
<1>11. b2 \in [1..(n+1) -> 1..End(r)] /\ b2[1] = 1 /\ b2[n+1] = End(r)
  <2>1. 1 <= g /\ ~(n + 1 <= g) /\ 1 \in 1..(n+1) /\ n + 1 \in 1..(n+1)
    BY <1>1, <1>9
  <2>2. b2 \in [1..(n+1) -> 1..End(r)]
    BY <1>10
  <2> HIDE DEF b2
  <2> QED
    BY <1>2, <1>3, <1>10, <2>1, <2>2
<1> HIDE DEF b2
<1>12. ASSUME NEW h \in 1..(n+1), NEW l \in 1..(n+1), h < l
       PROVE  b2[h] < b2[l]
  <2>1. bounds[h] < bounds[l]
    BY <1>2, <1>12
  <2>2. bounds[h] \in Int /\ bounds[l] \in Int
    BY <1>1, <1>0
  <2>3. CASE l <= g
    BY <2>1, <2>3, <1>9, <1>10, <1>12
  <2>4. CASE ~(l <= g)
    <3>1. b2[l] = bounds[l] + 1
      BY <2>4, <1>10
    <3>2. b2[h] = bounds[h] \/ b2[h] = bounds[h] + 1
      BY <1>10
    <3> QED
      BY <2>1, <2>2, <3>1, <3>2
  <2> QED
    BY <2>3, <2>4
<1>13. ASSUME NEW h \in 1..n
       PROVE  GroupHere(r, fs[h], b2[h], b2[h+1])
  <2>1. /\ h \in 1..(n+1) /\ h + 1 \in 1..(n+1)
        /\ bounds[h] \in 1..N /\ bounds[h+1] \in 1..End(m)
        /\ bounds[h] < bounds[h+1]
        /\ GroupHere(m, gs[h], bounds[h], bounds[h+1])
    BY <1>1 DEF N
  <2>0. bounds[h] \in Int /\ bounds[h+1] \in Int
    BY <2>1, <1>0
  <2>2. CASE h < g
    <3>1. bounds[h+1] <= q
      <4>1. bounds[h+1] <= t
        BY <1>15, <1>9, <2>2 DEF t
      <4> QED
        BY <4>1, <1>0, <1>9, <1>16, <2>0
    <3>2. b2[h] = bounds[h] /\ b2[h+1] = bounds[h+1]
      BY <2>1, <2>2, <1>9, <1>10
    <3>3. fs[h] = gs[h]
      BY <1>8, <2>2
    <3>4. GroupHere(r, gs[h], bounds[h], bounds[h+1])
      BY <1>16, <2>1, <3>1, GroupInFront DEF N
    <3> QED
      BY <3>2, <3>3, <3>4
  <2>3. CASE h > g
    <3>1. q <= bounds[h]
      <4>1. u <= bounds[h]
        BY <1>15, <1>9, <2>3 DEF u
      <4> QED
        BY <4>1, <1>0, <1>9, <1>16, <2>0
    <3>2. b2[h] = bounds[h] + 1 /\ b2[h+1] = bounds[h+1] + 1
      BY <2>1, <2>3, <1>9, <1>10
    <3>3. fs[h] = gs[h]
      BY <1>8, <2>3
    <3>4. GroupHere(r, gs[h], bounds[h] + 1, bounds[h+1] + 1)
      BY SMTT(30), <1>16, <2>1, <3>1, GroupBehind DEF N
    <3> QED
      BY <3>2, <3>3, <3>4
  <2>4. CASE h = g
    <3>0. e = gs[h] /\ t = bounds[h] /\ u = bounds[h+1]
      BY <2>4 DEF e, t, u
    <3>1. b2[h] = t /\ b2[h+1] = u + 1 /\ fs[h] = e2
      <4>1. h <= g /\ ~(h + 1 <= g)
        BY <2>4, <1>9
      <4> QED
        BY <2>1, <2>4, <3>0, <4>1, <1>8, <1>10
    <3>2. IsTag(m, t) /\ e.addr = m.list[t] /\ e.val = At(m, t).Value
      BY <2>1, <3>0 DEF GroupHere
    <3>3. t \in 1..(q-1) /\ t \in 1..Len(r.list)
      BY <1>0, <1>9, <1>16
    <3>4. SameCell(m, t, r, t)
      BY <3>3 DEF Widened
    <3>5. IsTag(r, t) /\ e2.addr = r.list[t] /\ e2.val = At(r, t).Value
      BY <3>2, <3>3, <3>4, <1>6, <1>9, Shape DEF SameCell, N
    <3>6. (u + 1) - t - 1 = len + 1
      BY <1>0, <1>9
    <3>7. ASSUME NEW j \in 1..len
          PROVE  t + j \in 1..N /\ ~IsTag(m, t + j) /\ e.keys[j] = At(m, t + j).Key
      <4>1. j \in 1..(u - t - 1)
        BY <1>9
      <4>2. t + j \in 1..N
        BY <1>0, <1>9
      <4>3. \A l \in 1..(u - t - 1) : ~IsTag(m, t + l) /\ e.keys[l] = At(m, t + l).Key
        BY <2>1, <3>0 DEF GroupHere
      <4> QED
        BY <4>1, <4>2, <4>3
    <3>9. ASSUME NEW j \in 1..(len + 1)
          PROVE  ~IsTag(r, t + j) /\ ks[j] = At(r, t + j).Key
      <4>1. t + j \in 1..Len(r.list)
        BY <1>0, <1>9
      <4>2. CASE j < i
        <5>1. t + j \in 1..(q-1) /\ j \in 1..len
          BY <4>2, <1>0, <1>9
        <5>2. SameCell(m, t + j, r, t + j)
          BY <5>1 DEF Widened
        <5>3. ks[j] = e.keys[j]
          BY <4>2, <1>5 DEF len
        <5> QED
          BY <4>1, <5>1, <5>2, <5>3, <3>7, Shape DEF SameCell, N
      <4>3. CASE j = i
        BY <4>3, <1>5, <1>9 DEF len
      <4>4. CASE j > i
        <5>1. j - 1 \in 1..len /\ t + (j - 1) \in q..N /\ (t + (j - 1)) + 1 = t + j
          BY <4>4, <1>0, <1>9
        <5>2. SameCell(m, t + (j - 1), r, t + j)
          BY <5>1 DEF Widened, N
        <5>3. ks[j] = e.keys[j-1]
          BY <4>4, <1>9, <1>5 DEF len
        <5>4. t + (j - 1) \in 1..N /\ ~IsTag(m, t + (j-1)) /\ e.keys[j-1] = At(m, t + (j-1)).Key
          BY <5>1, <3>7
        <5> QED
          BY <4>1, <5>2, <5>3, <5>4, Shape DEF SameCell, N
      <4> QED
        BY <4>2, <4>3, <4>4, <1>9
    <3>10. Len(ks) = len + 1
      BY <1>5 DEF len
    <3> QED
      BY <3>1, <3>5, <3>6, <3>9, <3>10, <1>6 DEF GroupHere
  <2> QED
    BY <2>2, <2>3, <2>4, <1>9
<1>14. Lays(r, b2, fs)
  BY <1>8, <1>11, <1>12, <1>13 DEF Lays
<1> QED
  BY <1>7, <1>14

\* An item unlinked from a group that has others is one key less of it.
LEMMA LaysDropKey ==
    ASSUME NEW m, NEW r, MapTypeOK(m), MapTypeOK(r), NEW bounds, NEW gs, Lays(m, bounds, gs),
           NEW g \in 1..Len(gs), NEW i \in 1..Len(gs[g].keys), Len(gs[g].keys) # 1,
           NEW q, q = bounds[g] + i, Widened(r, m, q, 1)
    PROVE  \E b2 : Lays(r, b2, [gs EXCEPT ![g].keys = RemoveAt(@, i)])
<1> DEFINE n == Len(gs)
           e == gs[g]
           ks == RemoveAt(e.keys, i)
           e2 == [e EXCEPT !.keys = ks]
           fs == [gs EXCEPT ![g] = e2]
           b2 == [h \in 1..(n+1) |-> IF h <= g THEN bounds[h] ELSE bounds[h] - 1]
<1>1. /\ n \in Nat /\ Len(m.list) \in Nat /\ End(m) = Len(m.list) + 1
      /\ \A h \in 1..(n + 1) : bounds[h] \in 1..End(m)
      /\ \A h \in 1..n :
            /\ h + 1 \in 1..(n + 1)
            /\ bounds[h] \in 1..Len(m.list)
            /\ bounds[h] < bounds[h+1]
            /\ gs[h] \in GroupT
            /\ GroupHere(m, gs[h], bounds[h], bounds[h+1])
            /\ Len(gs[h].keys) \in Nat
            /\ Len(gs[h].keys) = bounds[h+1] - bounds[h] - 1
      /\ \A h, l \in 1..n : h < l => bounds[h+1] <= bounds[l]
  BY LaysFacts
<1>2. /\ gs \in Seq(GroupT) /\ bounds[1] = 1 /\ bounds[n+1] = End(m)
      /\ \A h, l \in 1..(n+1) : h < l => bounds[h] < bounds[l]
  BY DEF Lays
<1>3. /\ Len(r.list) \in Nat /\ End(r) = Len(r.list) + 1 /\ End(m) = End(r) + 1
  BY Shape DEF Widened
<1>4. e \in GroupT /\ e.keys \in Seq(Key) /\ i \in 1..Len(e.keys) /\ Len(e.keys) # 1
  BY <1>1 DEF GroupT
<1>5. /\ ks \in Seq(Key) /\ Len(ks) = Len(e.keys) - 1
      /\ \A j \in 1..(i-1) : ks[j] = e.keys[j]
      /\ \A j \in i..(Len(e.keys)-1) : ks[j] = e.keys[j+1]
  <2> HIDE DEF e
  <2> QED
    BY <1>4, RemoveAtElements
<1>6. e2 \in GroupT /\ e2.addr = e.addr /\ e2.val = e.val /\ e2.keys = ks
  <2> HIDE DEF ks, e
  <2> QED
    BY <1>4, <1>5, OtherKeys
<1>7. fs = [gs EXCEPT ![g].keys = RemoveAt(@, i)]
  OBVIOUS
<1> HIDE DEF e2
<1>8. /\ fs \in Seq(GroupT) /\ Len(fs) = n /\ fs[g] = e2
      /\ \A h \in 1..n : h # g => fs[h] = gs[h]
  BY <1>2, <1>6
<1> HIDE DEF fs, ks, n
<1> HIDE DEF e
<1> DEFINE t == bounds[g]
           u == bounds[g+1]
           len == Len(e.keys)
           N == Len(m.list)
<1>9. /\ g \in 1..n /\ g \in 1..(n+1) /\ g + 1 \in 1..(n+1)
      /\ t \in 1..N /\ u \in 1..End(m) /\ t < u
      /\ len \in Nat /\ len = u - t - 1 /\ i \in 1..len /\ len # 1 /\ q = t + i
  <2>1. g \in 1..n
    BY DEF n
  <2> QED
    BY <1>1, <1>4, <2>1 DEF e
<1>0. N \in Nat /\ End(m) = N + 1 /\ Len(r.list) = N - 1 /\ End(r) = N
  BY <1>1, <1>3
<1>15. \A h, l \in 1..n : h < l => bounds[h+1] <= bounds[l]
  BY <1>1
<1> HIDE DEF t, u, len, N
<1>16. q \in 1..End(r) /\ q \in 1..N /\ t < q /\ q < u
  BY <1>9, <1>0
<1>10. ASSUME NEW h \in 1..(n+1)
       PROVE  b2[h] = (IF h <= g THEN bounds[h] ELSE bounds[h] - 1) /\ b2[h] \in 1..End(r)
  <2>1. bounds[h] \in 1..End(m)
    BY <1>1
  <2>2. b2[h] = IF h <= g THEN bounds[h] ELSE bounds[h] - 1
    OBVIOUS
  <2> HIDE DEF b2
  <2>3. CASE h <= g
    <3>1. CASE h = g
      BY <2>2, <3>1, <1>0, <1>9, <1>16 DEF t
    <3>2. CASE h # g
      <4>1. bounds[h] < bounds[g]
        BY <3>2, <2>3, <1>2, <1>9
      <4> QED
        BY SMTT(30), <4>1, <2>1, <2>2, <2>3, <1>0, <1>9, <1>16 DEF t
    <3> QED
      BY <3>1, <3>2
  <2>4. CASE ~(h <= g)
    <3>1. bounds[g] < bounds[h]
      BY <2>4, <1>2, <1>9
    <3>2. bounds[h] \in 2..(N+1)
      <4>1. bounds[h] \in 1..(N+1) /\ t < bounds[h] /\ t \in 1..N /\ N \in Nat
        BY <3>1, <2>1, <1>0, <1>9 DEF t
      <4> QED
        BY <4>1
    <3>3. b2[h] = bounds[h] - 1
      BY <2>2, <2>4
    <3>4. bounds[h] - 1 \in 1..N
      BY <3>2, <1>0
    <3> QED
      BY <2>4, <3>3, <3>4, <1>0
  <2> QED
    BY <2>3, <2>4
<1>11. b2 \in [1..(n+1) -> 1..End(r)] /\ b2[1] = 1 /\ b2[n+1] = End(r)
  <2>1. 1 <= g /\ ~(n + 1 <= g) /\ 1 \in 1..(n+1) /\ n + 1 \in 1..(n+1)
    BY <1>1, <1>9
  <2>2. b2 \in [1..(n+1) -> 1..End(r)]
    BY <1>10
  <2> HIDE DEF b2
  <2> QED
    BY <1>2, <1>3, <1>10, <2>1, <2>2
<1> HIDE DEF b2
<1>12. ASSUME NEW h \in 1..(n+1), NEW l \in 1..(n+1), h < l
       PROVE  b2[h] < b2[l]
  <2>1. bounds[h] < bounds[l]
    BY <1>2, <1>12
  <2>2. bounds[h] \in Int /\ bounds[l] \in Int
    BY <1>1, <1>0
  <2>3. CASE l <= g
    BY <2>1, <2>3, <1>9, <1>10, <1>12
  <2>4. CASE ~(l <= g)
    <3>1. b2[l] = bounds[l] - 1
      BY <2>4, <1>10
    <3>2. CASE ~(h <= g)
      BY <2>1, <2>2, <3>1, <3>2, <1>10
    <3>3. CASE h = g
      <4>1. CASE l = g + 1
        BY SMTT(30), <4>1, <3>1, <3>3, <1>10, <1>16, <1>9, <1>0 DEF t, u
      <4>2. CASE l # g + 1
        <5>1. u < bounds[l]
          BY <4>2, <2>4, <1>2, <1>9 DEF u
        <5>2. b2[h] = t
          BY <3>3, <1>10 DEF t
        <5>3. t \in Int /\ u \in Int /\ t < u
          BY <1>9, <1>0
        <5> QED
          BY <5>1, <5>2, <5>3, <2>2, <3>1
      <4> QED
        BY <4>1, <4>2
    <3>4. CASE h < g
      <4>1. bounds[h] < t /\ t < bounds[l]
        BY <2>4, <3>4, <1>2, <1>9 DEF t
      <4> QED
        BY <4>1, <2>2, <3>1, <3>4, <1>10, <1>9, <1>0
    <3> QED
      BY <3>2, <3>3, <3>4, <1>9
  <2> QED
    BY <2>3, <2>4
<1>13. ASSUME NEW h \in 1..n
       PROVE  GroupHere(r, fs[h], b2[h], b2[h+1])
  <2>1. /\ h \in 1..(n+1) /\ h + 1 \in 1..(n+1)
        /\ bounds[h] \in 1..N /\ bounds[h+1] \in 1..End(m)
        /\ bounds[h] < bounds[h+1]
        /\ GroupHere(m, gs[h], bounds[h], bounds[h+1])
    BY <1>1 DEF N
  <2>0. bounds[h] \in Int /\ bounds[h+1] \in Int
    BY <2>1, <1>0
  <2>2. CASE h < g
    <3>1. bounds[h+1] <= q
      <4>1. bounds[h+1] <= t
        BY <1>15, <1>9, <2>2 DEF t
      <4> QED
        BY <4>1, <1>0, <1>9, <1>16, <2>0
    <3>2. b2[h] = bounds[h] /\ b2[h+1] = bounds[h+1]
      BY <2>1, <2>2, <1>9, <1>10
    <3>3. fs[h] = gs[h]
      BY <1>8, <2>2
    <3>4. GroupHere(r, gs[h], bounds[h], bounds[h+1])
      <4>1. bounds[h] \in 1..Len(r.list) /\ bounds[h+1] \in 1..End(r)
        BY <2>1, <2>0, <3>1, <1>0, <1>16
      <4> QED
        BY <1>16, <2>1, <3>1, <4>1, GroupInFront
    <3> QED
      BY <3>2, <3>3, <3>4
  <2>3. CASE h > g
    <3>1. q < bounds[h]
      <4>1. u <= bounds[h]
        BY <1>15, <1>9, <2>3 DEF u
      <4> QED
        BY <4>1, <1>0, <1>9, <1>16, <2>0
    <3>2. b2[h] = bounds[h] - 1 /\ b2[h+1] = bounds[h+1] - 1
      BY <2>1, <2>3, <1>9, <1>10
    <3>3. fs[h] = gs[h]
      BY <1>8, <2>3
    <3>4. GroupHere(r, gs[h], bounds[h] - 1, bounds[h+1] - 1)
      <4> DEFINE c == bounds[h] - 1
                 f == bounds[h+1] - 1
      <4>1. c \in 1..Len(r.list) /\ f \in 1..End(r) /\ c < f /\ q <= c
        <5>1. q < bounds[h] /\ bounds[h] < bounds[h+1] /\ bounds[h+1] <= N + 1 /\ q >= 1
          BY <2>1, <2>0, <3>1, <1>0, <1>16
        <5>2. N \in Int /\ q \in Int /\ Len(r.list) = N - 1 /\ End(r) = N
          BY <1>0, <1>16
        <5>3. \A x, y \in Int : q < x /\ x < y /\ y <= N + 1 =>
                 x - 1 \in 1..(N - 1) /\ y - 1 \in 1..N /\ x - 1 < y - 1 /\ q <= x - 1
          BY <5>1, <5>2
        <5>4. c \in 1..(N - 1) /\ f \in 1..N /\ c < f /\ q <= c
          BY <5>1, <5>3, <2>0
        <5> HIDE DEF c, f
        <5> QED
          BY <5>2, <5>4
      <4>2. c + 1 = bounds[h] /\ f + 1 = bounds[h+1]
        BY <2>0
      <4> HIDE DEF c, f
      <4>3. GroupHere(r, gs[h], c, f) <=> GroupHere(m, gs[h], c + 1, f + 1)
        BY <1>16, <4>1, GroupBehind
      <4> QED
        BY <2>1, <4>2, <4>3 DEF c, f
    <3> QED
      BY <3>2, <3>3, <3>4
  <2>4. CASE h = g
    <3>0. e = gs[h] /\ t = bounds[h] /\ u = bounds[h+1]
      BY <2>4 DEF e, t, u
    <3>1. b2[h] = t /\ b2[h+1] = u - 1 /\ fs[h] = e2
      <4>1. h <= g /\ ~(h + 1 <= g)
        BY <2>4, <1>9
      <4> QED
        BY <2>1, <2>4, <3>0, <4>1, <1>8, <1>10
    <3>2. IsTag(m, t) /\ e.addr = m.list[t] /\ e.val = At(m, t).Value
      BY <2>1, <3>0 DEF GroupHere
    <3>3. t \in 1..(q-1) /\ t \in 1..Len(r.list)
      BY <1>0, <1>9, <1>16
    <3>4. SameCell(r, t, m, t)
      BY <3>3 DEF Widened
    <3>5. IsTag(r, t) /\ e2.addr = r.list[t] /\ e2.val = At(r, t).Value
      BY <3>2, <3>3, <3>4, <1>6, <1>9, Shape DEF SameCell, N
    <3>6. (u - 1) - t - 1 = len - 1
      BY <1>0, <1>9
    <3>7. ASSUME NEW j \in 1..len
          PROVE  t + j \in 1..N /\ ~IsTag(m, t + j) /\ e.keys[j] = At(m, t + j).Key
      <4>1. j \in 1..(u - t - 1)
        BY <1>9
      <4>2. t + j \in 1..N
        BY <1>0, <1>9
      <4>3. \A l \in 1..(u - t - 1) : ~IsTag(m, t + l) /\ e.keys[l] = At(m, t + l).Key
        BY <2>1, <3>0 DEF GroupHere
      <4> QED
        BY <4>1, <4>2, <4>3
    <3>9. ASSUME NEW j \in 1..(len - 1)
          PROVE  ~IsTag(r, t + j) /\ ks[j] = At(r, t + j).Key
      <4>1. t + j \in 1..Len(r.list) /\ j \in 1..len /\ j + 1 \in 1..len
        BY <1>0, <1>9
      <4>2. CASE j < i
        <5>1. t + j \in 1..(q-1) /\ j \in 1..(i-1)
          BY <4>2, <1>0, <1>9
        <5>2. SameCell(r, t + j, m, t + j)
          BY <5>1 DEF Widened
        <5>3. ks[j] = e.keys[j]
          BY <5>1, <1>5
        <5> QED
          <6>1. t + j \in 1..N /\ ~IsTag(m, t + j) /\ e.keys[j] = At(m, t + j).Key
            BY <4>1, <3>7
          <6> QED
            BY <4>1, <5>2, <5>3, <6>1, Shape DEF SameCell, N
      <4>3. CASE j >= i
        <5>1. t + j \in q..Len(r.list) /\ (t + j) + 1 = t + (j + 1) /\ j \in i..(len - 1)
          BY <4>3, <4>1, <1>0, <1>9
        <5>2. SameCell(r, t + j, m, t + (j + 1))
          BY <5>1 DEF Widened
        <5>3. ks[j] = e.keys[j+1]
          BY <5>1, <1>5 DEF len
        <5>4. t + (j + 1) \in 1..N /\ ~IsTag(m, t + (j+1)) /\ e.keys[j+1] = At(m, t + (j+1)).Key
          BY <4>1, <3>7
        <5> QED
          BY <4>1, <5>2, <5>3, <5>4, Shape DEF SameCell, N
      <4> QED
        BY <4>2, <4>3, <1>9
    <3>10. Len(ks) = len - 1
      BY <1>5 DEF len
    <3> QED
      BY <3>1, <3>5, <3>6, <3>9, <3>10, <1>6 DEF GroupHere
  <2> QED
    BY <2>2, <2>3, <2>4, <1>9
<1>14. Lays(r, b2, fs)
  BY <1>8, <1>11, <1>12, <1>13 DEF Lays
<1> QED
  BY <1>7, <1>14

\* A tag and an item linked between two groups are a group of their own.
LEMMA LaysAddGroup ==
    ASSUME NEW m, NEW r, MapTypeOK(m), MapTypeOK(r), NEW bounds, NEW gs, Lays(m, bounds, gs),
           NEW g \in 1..(Len(gs) + 1), NEW q, q = bounds[g], Widened(m, r, q, 2),
           NEW e \in GroupT, GroupHere(r, e, q, q + 2)
    PROVE  \E b2 : Lays(r, b2, InsertAt(gs, g, e))
<1> DEFINE n == Len(gs)
           N == Len(m.list)
           fs == InsertAt(gs, g, e)
           b2 == [h \in 1..(n+2) |-> IF h <= g THEN bounds[h] ELSE bounds[h-1] + 2]
<1>1. /\ n \in Nat /\ N \in Nat /\ End(m) = N + 1
      /\ \A h \in 1..(n + 1) : bounds[h] \in 1..End(m)
      /\ \A h \in 1..n :
            /\ h + 1 \in 1..(n + 1)
            /\ bounds[h] \in 1..N
            /\ bounds[h] < bounds[h+1]
            /\ GroupHere(m, gs[h], bounds[h], bounds[h+1])
  BY LaysFacts
<1>2. /\ gs \in Seq(GroupT) /\ bounds[1] = 1 /\ bounds[n+1] = End(m)
      /\ \A h, l \in 1..(n+1) : h < l => bounds[h] < bounds[l]
  BY DEF Lays
<1>3. Len(r.list) = N + 2 /\ End(r) = N + 3
  BY <1>1, Shape DEF Widened
<1>4. /\ fs \in Seq(GroupT) /\ Len(fs) = n + 1
      /\ \A j \in 1..(n + 1) :
            fs[j] = IF j < g THEN gs[j] ELSE IF j = g THEN e ELSE gs[j-1]
  BY <1>2, InsertAtElements
<1> HIDE DEF fs, n, N
<1>5. g \in 1..(n+1) /\ q \in 1..End(m) /\ q \in 1..(N+1)
  BY <1>1 DEF n
<1>6. ASSUME NEW h \in 1..(n+2)
      PROVE  /\ b2[h] = IF h <= g THEN bounds[h] ELSE bounds[h-1] + 2
             /\ b2[h] \in 1..End(r)
  <2>1. b2[h] = IF h <= g THEN bounds[h] ELSE bounds[h-1] + 2
    OBVIOUS
  <2> HIDE DEF b2
  <2>2. CASE h <= g
    <3>1. bounds[h] \in 1..End(m)
      BY <2>2, <1>1, <1>5
    <3> QED
      BY <2>1, <2>2, <3>1, <1>1, <1>3
  <2>3. CASE ~(h <= g)
    <3>1. h - 1 \in 1..(n+1)
      BY <2>3, <1>1, <1>5
    <3>2. bounds[h-1] \in 1..End(m)
      BY <3>1, <1>1
    <3> QED
      BY <2>1, <2>3, <3>2, <1>1, <1>3
  <2> QED
    BY <2>2, <2>3
<1>7. b2 \in [1..(n+2) -> 1..End(r)] /\ b2[1] = 1 /\ b2[n+2] = End(r)
  <2>1. 1 <= g /\ ~(n + 2 <= g) /\ 1 \in 1..(n+2) /\ n + 2 \in 1..(n+2) /\ (n + 2) - 1 = n + 1
    BY <1>1, <1>5
  <2>2. b2 \in [1..(n+2) -> 1..End(r)]
    BY <1>6
  <2> HIDE DEF b2
  <2>3. b2[n+2] = bounds[n+1] + 2
    BY <1>6, <2>1
  <2>4. b2[1] = bounds[1]
    BY <1>6, <2>1
  <2> QED
    BY <1>1, <1>2, <1>3, <2>2, <2>3, <2>4
<1> HIDE DEF b2
<1>8. ASSUME NEW h \in 1..(n+2), NEW l \in 1..(n+2), h < l
      PROVE  b2[h] < b2[l]
  <2>1. CASE l <= g
    <3>1. h \in 1..(n+1) /\ l \in 1..(n+1) /\ h <= g
      BY <2>1, <1>5, <1>8, <1>1
    <3> QED
      BY <2>1, <3>1, <1>2, <1>6, <1>8
  <2>2. CASE h <= g /\ ~(l <= g)
    <3>1. h \in 1..(n+1) /\ l - 1 \in 1..(n+1) /\ (h = l - 1 \/ h < l - 1)
      BY <2>2, <1>5, <1>8, <1>1
    <3>2. bounds[h] = bounds[l-1] \/ bounds[h] < bounds[l-1]
      BY <3>1, <1>2
    <3>3. bounds[h] \in 1..(N+1) /\ bounds[l-1] \in 1..(N+1)
      BY <3>1, <1>1
    <3>4. b2[h] = bounds[h] /\ b2[l] = bounds[l-1] + 2
      BY <2>2, <1>6
    <3> QED
      BY <3>2, <3>3, <3>4, <1>1
  <2>3. CASE ~(h <= g)
    <3>1. h - 1 \in 1..(n+1) /\ l - 1 \in 1..(n+1) /\ h - 1 < l - 1 /\ ~(l <= g)
      BY <2>3, <1>5, <1>8, <1>1
    <3>2. bounds[h-1] < bounds[l-1]
      BY <3>1, <1>2
    <3>3. bounds[h-1] \in 1..(N+1) /\ bounds[l-1] \in 1..(N+1)
      BY <3>1, <1>1
    <3>4. b2[h] = bounds[h-1] + 2 /\ b2[l] = bounds[l-1] + 2
      BY <2>3, <3>1, <1>6
    <3> QED
      BY <3>2, <3>3, <3>4, <1>1
  <2> QED
    BY <2>1, <2>2, <2>3
<1>9. ASSUME NEW h \in 1..(n+1)
      PROVE  GroupHere(r, fs[h], b2[h], b2[h+1])
  <2>0. h \in 1..(n+2) /\ h + 1 \in 1..(n+2)
    BY <1>1
  <2>1. CASE h < g
    <3>1. h \in 1..n /\ h + 1 \in 1..(n+1) /\ (h + 1 = g \/ h + 1 < g) /\ h <= g /\ h + 1 <= g
      BY <2>1, <1>1, <1>5
    <3>2. /\ bounds[h] \in 1..N /\ bounds[h] < bounds[h+1]
          /\ bounds[h+1] \in 1..End(m)
          /\ GroupHere(m, gs[h], bounds[h], bounds[h+1])
      BY <3>1, <1>1
    <3>3. bounds[h+1] <= q
      <4>1. bounds[h+1] = q \/ bounds[h+1] < q
        BY <3>1, <1>2, <1>5
      <4> QED
        BY <4>1, <3>2, <1>1, <1>5
    <3>4. GroupHere(r, gs[h], bounds[h], bounds[h+1])
      BY <1>5, <3>2, <3>3, GroupInFront DEF N
    <3>5. b2[h] = bounds[h] /\ b2[h+1] = bounds[h+1] /\ fs[h] = gs[h]
      BY <2>0, <2>1, <3>1, <1>4, <1>6
    <3> QED
      BY <3>4, <3>5
  <2>2. CASE h = g
    <3>1. h <= g /\ ~(h + 1 <= g) /\ (h + 1) - 1 = h
      BY <2>2, <1>5
    <3>2. b2[h] = q /\ b2[h+1] = q + 2
      BY <2>0, <2>2, <3>1, <1>6
    <3> QED
      BY <2>2, <3>2, <1>4
  <2>3. CASE h > g
    <3>1. h - 1 \in 1..n /\ (h - 1) + 1 = h /\ (g = h - 1 \/ g < h - 1)
          /\ ~(h <= g) /\ ~(h + 1 <= g) /\ (h + 1) - 1 = h /\ h - 1 \in 1..(n+1)
      BY <2>3, <1>1, <1>5
    <3>2. /\ bounds[h-1] \in 1..N /\ bounds[h-1] < bounds[h]
          /\ bounds[h] \in 1..End(m)
          /\ GroupHere(m, gs[h-1], bounds[h-1], bounds[h])
      BY <3>1, <1>1
    <3>3. q <= bounds[h-1]
      <4>1. q = bounds[h-1] \/ q < bounds[h-1]
        BY <3>1, <1>2, <1>5
      <4> QED
        BY <4>1, <3>2, <1>1, <1>5
    <3>4. GroupHere(r, gs[h-1], bounds[h-1] + 2, bounds[h] + 2)
      BY <1>5, <3>2, <3>3, GroupBehind DEF N
    <3>5. b2[h] = bounds[h-1] + 2 /\ b2[h+1] = bounds[h] + 2 /\ fs[h] = gs[h-1]
      BY <2>0, <2>3, <3>1, <1>4, <1>5, <1>6
    <3> QED
      BY <3>4, <3>5
  <2> QED
    BY <2>1, <2>2, <2>3, <1>5
<1>10. Lays(r, b2, fs)
  BY <1>1, <1>4, <1>7, <1>8, <1>9 DEF Lays
<1> QED
  BY <1>10 DEF fs

\* A group whose cells are unlinked is gone.
LEMMA LaysDropGroup ==
    ASSUME NEW m, NEW r, MapTypeOK(m), MapTypeOK(r), NEW bounds, NEW gs, Lays(m, bounds, gs),
           NEW g \in 1..Len(gs), NEW q, q = bounds[g],
           NEW d, d = bounds[g+1] - q, Widened(r, m, q, d)
    PROVE  \E b2 : Lays(r, b2, RemoveAt(gs, g))
<1> DEFINE n == Len(gs)
           N == Len(m.list)
           fs == RemoveAt(gs, g)
           b2 == [h \in 1..n |-> IF h <= g THEN bounds[h] ELSE bounds[h+1] - d]
<1>1. /\ n \in Nat /\ N \in Nat /\ End(m) = N + 1
      /\ \A h \in 1..(n + 1) : bounds[h] \in 1..End(m)
      /\ \A h \in 1..n :
            /\ h + 1 \in 1..(n + 1)
            /\ bounds[h] \in 1..N
            /\ bounds[h] < bounds[h+1]
            /\ GroupHere(m, gs[h], bounds[h], bounds[h+1])
  BY LaysFacts
<1>2. /\ gs \in Seq(GroupT) /\ bounds[1] = 1 /\ bounds[n+1] = End(m)
      /\ \A h, l \in 1..(n+1) : h < l => bounds[h] < bounds[l]
  BY DEF Lays
<1>4. /\ fs \in Seq(GroupT) /\ Len(fs) = n - 1
      /\ \A j \in 1..(g-1) : fs[j] = gs[j]
      /\ \A j \in g..(n-1) : fs[j] = gs[j+1]
  BY <1>2, RemoveAtElements
<1> HIDE DEF fs, n, N
<1> DEFINE u == bounds[g+1]
<1>5. g \in 1..n /\ g \in 1..(n+1) /\ g + 1 \in 1..(n+1)
  BY <1>1 DEF n
<1>6. q \in 1..N /\ u \in 1..(N+1) /\ q < u /\ d = u - q /\ d \in 1..N
  <2>1. q \in 1..N /\ u \in 1..(N+1) /\ q < u /\ d = u - q
    BY <1>1, <1>5
  <2> HIDE DEF u
  <2> QED
    BY <2>1, <1>1
<1> HIDE DEF u
<1>3. Len(r.list) = N - d /\ End(r) = N + 1 - d /\ q \in 1..End(r) /\ d \in Nat
  <2>1. End(m) = End(r) + d /\ Len(r.list) \in Nat /\ End(r) = Len(r.list) + 1
    BY Shape DEF Widened
  <2> DEFINE E == End(r)
             L == Len(r.list)
  <2>2. E + d = N + 1 /\ L \in Nat /\ E = L + 1
    BY <2>1, <1>1
  <2>3. /\ N \in Nat /\ q \in Int /\ u \in Int /\ d \in Int
        /\ 1 <= q /\ q < u /\ u <= N + 1 /\ d = u - q /\ 1 <= d
    BY <1>1, <1>6
  <2> HIDE DEF E, L
  <2>4. L = N - d /\ E = N + 1 - d /\ 1 <= q /\ q <= E /\ E \in Nat /\ d \in Nat
    BY SMTT(30), <2>2, <2>3
  <2> QED
    BY <2>4, <1>6 DEF E, L
<1>15. /\ N \in Int /\ q \in Int /\ u \in Int /\ d \in Int
       /\ 1 <= q /\ q < u /\ u <= N + 1 /\ d = u - q
  BY <1>1, <1>6
<1>7. \A h \in 1..n : g <= h => /\ h + 1 \in 1..(n+1) /\ bounds[h+1] \in u..(N+1)
                               /\ bounds[h+1] - d \in q..End(r)
  <2> SUFFICES ASSUME NEW h \in 1..n, g <= h
               PROVE  /\ h + 1 \in 1..(n+1) /\ bounds[h+1] \in u..(N+1)
                      /\ bounds[h+1] - d \in q..End(r)
    OBVIOUS
  <2>1. h + 1 \in 1..(n+1) /\ (g = h \/ g + 1 < h + 1)
    BY <1>1, <1>5
  <2>2. bounds[h+1] = u \/ u < bounds[h+1]
    BY <2>1, <1>2, <1>5 DEF u
  <2>3. bounds[h+1] \in 1..(N+1)
    BY <2>1, <1>1
  <2> QED
    <3>1. ASSUME NEW x \in Int, u <= x, x <= N + 1
          PROVE  x \in u..(N+1) /\ x - d \in q..(N + 1 - d)
      <4>1. q <= x - d /\ x - d <= N + 1 - d
        BY SMTT(30), <3>1, <1>15
      <4> QED
        BY <3>1, <4>1, <1>15
    <3>2. bounds[h+1] \in Int /\ u <= bounds[h+1] /\ bounds[h+1] <= N + 1
      BY <2>2, <2>3, <1>15
    <3> QED
      BY <2>1, <3>1, <3>2, <1>3
<1>8. \A h \in 1..n : h <= g => bounds[h] \in 1..q
  <2> SUFFICES ASSUME NEW h \in 1..n, h <= g PROVE bounds[h] \in 1..q
    OBVIOUS
  <2>1. h \in 1..(n+1) /\ (h = g \/ h < g)
    BY <1>1, <1>5
  <2>2. bounds[h] = q \/ bounds[h] < q
    BY <2>1, <1>2, <1>5
  <2>3. bounds[h] \in 1..(N+1)
    BY <2>1, <1>1
  <2> QED
    BY <2>2, <2>3, <1>6
<1>9. b2[g] = bounds[g+1] - d
  <2>1. b2[g] = bounds[g]
    BY <1>5
  <2> QED
    BY <2>1, <1>6 DEF u
<1>10. /\ b2 \in [1..n -> 1..End(r)]
       /\ \A h \in 1..n : h <= g => b2[h] = bounds[h]
       /\ \A h \in 1..n : g <= h => b2[h] = bounds[h+1] - d
  <2>1. \A h \in 1..n : b2[h] = IF h <= g THEN bounds[h] ELSE bounds[h+1] - d
    OBVIOUS
  <2>2. DOMAIN b2 = 1..n /\ b2 = [h \in 1..n |-> b2[h]]
    OBVIOUS
  <2> HIDE DEF b2
  <2>3. \A h \in 1..n : h <= g => b2[h] = bounds[h]
    BY <2>1
  <2>4. \A h \in 1..n : g <= h => b2[h] = bounds[h+1] - d
    <3> SUFFICES ASSUME NEW h \in 1..n, g <= h PROVE b2[h] = bounds[h+1] - d
      OBVIOUS
    <3>1. h = g \/ ~(h <= g)
      BY <1>5
    <3> QED
      BY <3>1, <2>1, <1>9
  <2>5. \A h \in 1..n : b2[h] \in 1..End(r)
    <3> SUFFICES ASSUME NEW h \in 1..n PROVE b2[h] \in 1..End(r)
      OBVIOUS
    <3>1. CASE h <= g
      <4>1. b2[h] \in 1..q
        BY <3>1, <2>3, <1>8
      <4>2. \A x \in 1..q : x \in 1..(N + 1 - d)
        BY <1>1, <1>3, <1>6
      <4> QED
        BY <4>1, <4>2, <1>3
    <3>2. CASE g <= h
      <4>1. b2[h] \in q..End(r)
        BY <3>2, <2>4, <1>7
      <4> QED
        BY <4>1, <1>3
    <3> QED
      BY <3>1, <3>2, <1>5
  <2> QED
    BY <2>2, <2>3, <2>4, <2>5
<1> HIDE DEF b2
<1>11. b2[1] = 1 /\ b2[n] = End(r)
  <2>1. 1 \in 1..n /\ n \in 1..n /\ 1 <= g /\ g <= n
    BY <1>1, <1>5
  <2>2. b2[n] = bounds[n+1] - d
    BY <2>1, <1>10
  <2>3. b2[1] = bounds[1]
    BY <2>1, <1>10
  <2>4. bounds[n+1] = N + 1
    BY <1>1, <1>2
  <2>5. b2[n] = End(r)
    BY <2>2, <2>4, <1>3, <1>15
  <2>6. b2[1] = 1
    BY <2>3, <1>2
  <2> QED
    BY <2>5, <2>6
<1>12. ASSUME NEW h \in 1..n, NEW l \in 1..n, h < l
       PROVE  b2[h] < b2[l]
  <2>1. CASE l <= g
    <3>1. h <= g /\ h \in 1..(n+1) /\ l \in 1..(n+1)
      BY <2>1, <1>1, <1>5, <1>12
    <3> QED
      BY <2>1, <3>1, <1>2, <1>10, <1>12
  <2>2. CASE g <= h
    <3>1. h + 1 \in 1..(n+1) /\ l + 1 \in 1..(n+1) /\ h + 1 < l + 1 /\ g <= l
      BY <2>2, <1>1, <1>5, <1>12
    <3>2. bounds[h+1] < bounds[l+1]
      BY <3>1, <1>2
    <3>3. b2[h] = bounds[h+1] - d /\ b2[l] = bounds[l+1] - d
      BY <2>2, <3>1, <1>10
    <3>4. bounds[h+1] \in 1..(N+1) /\ bounds[l+1] \in 1..(N+1)
      BY <3>1, <1>1
    <3> QED
      BY SMTT(30), <3>2, <3>3, <3>4, <1>1, <1>6
  <2>3. CASE h < g /\ g < l
    <3>1. h \in 1..(n+1) /\ h <= g /\ g <= l /\ l + 1 \in 1..(n+1) /\ g + 1 < l + 1
      BY <2>3, <1>1, <1>5
    <3>2. b2[h] = bounds[h] /\ b2[l] = bounds[l+1] - d
      BY <3>1, <1>10
    <3>3. bounds[h] < q /\ u < bounds[l+1]
      BY <2>3, <3>1, <1>2, <1>5 DEF u
    <3>4. bounds[h] \in 1..(N+1) /\ bounds[l+1] \in 1..(N+1)
      BY <3>1, <1>1
    <3>5. \A x, y \in 1..(N+1) : x < q /\ u < y => x < y - d
      BY <1>1, <1>6
    <3> QED
      BY <3>2, <3>3, <3>4, <3>5
  <2> QED
    BY <2>1, <2>2, <2>3, <1>5
<1>13. ASSUME NEW h \in 1..(n-1)
       PROVE  GroupHere(r, fs[h], b2[h], b2[h+1])
  <2>0. h \in 1..n /\ h + 1 \in 1..n
    BY <1>1
  <2>1. CASE h < g
    <3>1. h <= g /\ h + 1 <= g /\ h \in 1..(g-1)
      BY <2>1, <1>5
    <3>2. bounds[h] < bounds[h+1] /\ GroupHere(m, gs[h], bounds[h], bounds[h+1])
      BY <2>0, <1>1
    <3>3. bounds[h] \in 1..q /\ bounds[h+1] \in 1..q
      BY <2>0, <3>1, <1>8
    <3>4. bounds[h] \in 1..Len(r.list) /\ bounds[h+1] \in 1..End(r) /\ bounds[h+1] <= q
      <4>1. \A x, y \in 1..q : x < y => /\ x \in 1..(N - d) /\ y \in 1..(N + 1 - d)
                                       /\ y <= q
        BY SMTT(30), <1>15
      <4> QED
        BY <3>2, <3>3, <4>1, <1>3
    <3>5. GroupHere(r, gs[h], bounds[h], bounds[h+1])
      BY <1>3, <3>2, <3>4, GroupInFront
    <3>6. b2[h] = bounds[h] /\ b2[h+1] = bounds[h+1] /\ fs[h] = gs[h]
      BY <2>0, <3>1, <1>4, <1>10
    <3> QED
      BY <3>5, <3>6
  <2>2. CASE g <= h
    <3> DEFINE c == bounds[h+1] - d
               f == bounds[(h+1)+1] - d
    <3>1. g <= h + 1 /\ h \in g..(n-1)
      BY <2>2, <1>5
    <3>2. /\ bounds[h+1] < bounds[(h+1)+1]
          /\ GroupHere(m, gs[h+1], bounds[h+1], bounds[(h+1)+1])
          /\ bounds[h+1] \in 1..(N+1) /\ bounds[(h+1)+1] \in 1..(N+1)
      BY <2>0, <1>1
    <3>3. c \in q..End(r) /\ f \in q..End(r)
      BY <2>0, <2>2, <3>1, <1>7
    <3>4. c < f /\ c + d = bounds[h+1] /\ f + d = bounds[(h+1)+1]
      BY SMTT(30), <3>2, <1>1, <1>6
    <3>5. b2[h] = c /\ b2[h+1] = f /\ fs[h] = gs[h+1]
      BY <2>0, <2>2, <3>1, <1>4, <1>10
    <3> HIDE DEF c, f
    <3>6. c \in 1..Len(r.list) /\ f \in 1..End(r) /\ q <= c
      <4>1. \A x, y \in q..(N + 1 - d) : x < y => /\ x \in 1..(N - d)
                                                 /\ y \in 1..(N + 1 - d) /\ q <= x
        BY SMTT(30), <1>1, <1>6
      <4> QED
        BY <3>3, <3>4, <4>1, <1>3
    <3>7. GroupHere(r, gs[h+1], c, f) <=> GroupHere(m, gs[h+1], c + d, f + d)
      BY SMTT(30), <1>3, <3>4, <3>6, GroupBehind
    <3> QED
      BY <3>2, <3>4, <3>5, <3>7
  <2> QED
    BY <2>1, <2>2, <1>5
<1>14. Lays(r, b2, fs)
  <2>1. (n - 1) + 1 = n
    BY <1>1
  <2> QED
    BY <2>1, <1>4, <1>10, <1>11, <1>12, <1>13 DEF Lays
<1> QED
  BY <1>14 DEF fs

\* One group changed where it is.
LEMMA LaysOneGroup ==
    ASSUME NEW m, NEW r, MapTypeOK(m), MapTypeOK(r), NEW bounds, NEW gs, Lays(m, bounds, gs),
           NEW g \in 1..Len(gs), NEW e \in GroupT, End(r) = End(m),
           GroupHere(r, e, bounds[g], bounds[g+1]),
           \A j \in 1..Len(m.list) : j < bounds[g] \/ bounds[g+1] <= j => SameCell(m, j, r, j)
    PROVE  Lays(r, bounds, [gs EXCEPT ![g] = e])
<1> DEFINE n == Len(gs)
           N == Len(m.list)
           fs == [gs EXCEPT ![g] = e]
<1>1. /\ n \in Nat /\ N \in Nat /\ End(m) = N + 1
      /\ \A h \in 1..n : /\ h + 1 \in 1..(n + 1)
                        /\ bounds[h] \in 1..N /\ bounds[h+1] \in 1..End(m)
                        /\ bounds[h] < bounds[h+1]
                        /\ GroupHere(m, gs[h], bounds[h], bounds[h+1])
      /\ \A h, l \in 1..n : h < l => bounds[h+1] <= bounds[l]
  BY LaysFacts
<1>2. /\ gs \in Seq(GroupT) /\ bounds[1] = 1 /\ bounds[n+1] = End(m)
      /\ bounds \in [1..(n+1) -> 1..End(m)]
      /\ \A h, l \in 1..(n+1) : h < l => bounds[h] < bounds[l]
  BY DEF Lays
<1>3. Len(r.list) = N
  BY <1>1, Shape
<1>4. fs \in Seq(GroupT) /\ Len(fs) = n /\ fs[g] = e /\ \A h \in 1..n : h # g => fs[h] = gs[h]
  BY <1>2
<1> HIDE DEF fs, n, N
<1>5. g \in 1..n
  BY DEF n
<1>6. ASSUME NEW h \in 1..n
      PROVE  GroupHere(r, fs[h], bounds[h], bounds[h+1])
  <2>1. CASE h = g
    BY <2>1, <1>4
  <2>2. CASE h # g
    <3> DEFINE a == bounds[h]
               b == bounds[h+1]
               t == bounds[g]
               u == bounds[g+1]
    <3>1. /\ a \in 1..N /\ b \in 1..(N+1) /\ a < b /\ t \in 1..N /\ u \in 1..(N+1)
          /\ GroupHere(m, gs[h], a, b)
      BY <1>1, <1>5
    <3>2. b <= t \/ u <= a
      BY <1>1, <1>5, <2>2
    <3>3. \A j \in 1..N : j < t \/ u <= j => SameCell(m, j, r, j)
      BY DEF N
    <3> HIDE DEF a, b, t, u
    <3>4. ASSUME NEW i \in 0..(b - a - 1)
          PROVE  SameCell(m, a + i, r, a + i)
      <4>1. a + i \in 1..N /\ (a + i < t \/ u <= a + i)
        BY <3>1, <3>2, <1>1
      <4> QED
        BY <4>1, <3>3
    <3>5. GroupHere(r, gs[h], a, b)
      BY <1>1, <1>3, <3>1, <3>4, GroupMoved DEF N
    <3> QED
      BY <2>2, <3>5, <1>4 DEF a, b
  <2> QED
    BY <2>1, <2>2
<1>7. Lays(r, bounds, fs)
  BY <1>2, <1>4, <1>6 DEF Lays
<1> QED
  BY <1>7 DEF fs

\* A key of a group that is another one.
LEMMA LaysRenameKey ==
    ASSUME NEW m, NEW r, MapTypeOK(m), MapTypeOK(r), NEW bounds, NEW gs, Lays(m, bounds, gs),
           NEW g \in 1..Len(gs), NEW i \in 1..Len(gs[g].keys), End(r) = End(m),
           NEW q, q = bounds[g] + i, NEW k \in Key, ~IsTag(r, q), At(r, q).Key = k,
           \A j \in 1..Len(m.list) : j # q => SameCell(m, j, r, j)
    PROVE  Lays(r, bounds, [gs EXCEPT ![g].keys = [@ EXCEPT ![i] = k]])
<1> DEFINE e == gs[g]
           N == Len(m.list)
           t == bounds[g]
           u == bounds[g+1]
           len == Len(e.keys)
           ks == [e.keys EXCEPT ![i] = k]
           e2 == [e EXCEPT !.keys = ks]
<1>1. /\ N \in Nat /\ End(m) = N + 1 /\ t \in 1..N /\ u \in 1..(N+1) /\ t < u
      /\ e \in GroupT /\ e.keys \in Seq(Key) /\ len \in Nat /\ len = u - t - 1
      /\ GroupHere(m, e, t, u)
      /\ i \in 1..len
  <2>1. /\ N \in Nat /\ End(m) = N + 1 /\ t \in 1..N /\ u \in 1..(N+1) /\ t < u
        /\ e \in GroupT /\ GroupHere(m, e, t, u)
        /\ len \in Nat /\ len = u - t - 1
    BY LaysFacts
  <2> QED
    BY <2>1 DEF GroupT
<1>2. Len(r.list) = N
  BY SMTT(30), <1>1, Shape
<1>3. /\ ks \in Seq(Key) /\ Len(ks) = len
      /\ \A j \in 1..len : ks[j] = IF j = i THEN k ELSE e.keys[j]
  <2> HIDE DEF e
  <2> QED
    BY SMTT(30), <1>1
<1>4. e2 \in GroupT /\ e2.addr = e.addr /\ e2.val = e.val /\ e2.keys = ks
  <2> HIDE DEF e, ks
  <2> QED
    BY <1>1, <1>3, OtherKeys
<1>5. \A j \in 1..N : j # q => SameCell(m, j, r, j)
  OBVIOUS
<1>6. q = t + i
  OBVIOUS
<1> HIDE DEF e, N, t, u, len, ks, e2
<1>7. t \in 1..N /\ t # q
  BY <1>1, <1>6
<1>8. IsTag(m, t) /\ e.addr = m.list[t] /\ e.val = At(m, t).Value
  BY <1>1 DEF GroupHere
<1>9. IsTag(r, t) /\ e2.addr = r.list[t] /\ e2.val = At(r, t).Value
  BY <1>2, <1>4, <1>5, <1>7, <1>8, Shape DEF SameCell, N
<1>10. ASSUME NEW j \in 1..len
       PROVE  ~IsTag(r, t + j) /\ ks[j] = At(r, t + j).Key
  <2>1. CASE j = i
    BY <2>1, <1>3, <1>6
  <2>2. CASE j # i
    <3>1. t + j \in 1..N /\ t + j # q /\ j \in 1..(u - t - 1)
      BY <2>2, <1>1, <1>6
    <3>2. ~IsTag(m, t + j) /\ e.keys[j] = At(m, t + j).Key
      BY <3>1, <1>1 DEF GroupHere
    <3>3. SameCell(m, t + j, r, t + j)
      BY <3>1, <1>5
    <3> QED
      BY <2>2, <3>1, <3>2, <3>3, <1>2, <1>3, Shape DEF SameCell, N
  <2> QED
    BY <2>1, <2>2
<1>11. GroupHere(r, e2, t, u)
  BY <1>1, <1>3, <1>4, <1>9, <1>10 DEF GroupHere
<1>12. ASSUME NEW j \in 1..N, j < t \/ u <= j
       PROVE  SameCell(m, j, r, j)
  <2>1. j # q
    BY <1>1, <1>6, <1>12
  <2> QED
    BY <2>1, <1>5
<1>13. Lays(r, bounds, [gs EXCEPT ![g] = e2])
  BY <1>4, <1>11, <1>12, LaysOneGroup DEF t, u, N
<1>14. [gs EXCEPT ![g] = e2] = [gs EXCEPT ![g].keys = [@ EXCEPT ![i] = k]]
  BY DEF e2, ks, e
<1> QED
  BY <1>13, <1>14

\* Another value owned by a tag.
LEMMA LaysAssign ==
    ASSUME NEW m, NEW r, MapTypeOK(m), MapTypeOK(r), NEW bounds, NEW gs, Lays(m, bounds, gs),
           NEW g \in 1..Len(gs), NEW v \in Val, r.list = m.list,
           At(r, bounds[g]).Value = v,
           \A j \in 1..Len(m.list) : j # bounds[g] => At(r, j) = At(m, j)
    PROVE  Lays(r, bounds, [gs EXCEPT ![g].val = v])
<1> DEFINE e == gs[g]
           N == Len(m.list)
           t == bounds[g]
           u == bounds[g+1]
           e2 == [e EXCEPT !.val = v]
<1>1. /\ N \in Nat /\ End(m) = N + 1 /\ t \in 1..N /\ u \in 1..(N+1) /\ t < u
      /\ e \in GroupT /\ GroupHere(m, e, t, u)
  BY LaysFacts
<1>2. Len(r.list) = N /\ End(r) = End(m)
  BY <1>1, Shape
<1>3. e2 \in GroupT /\ e2.addr = e.addr /\ e2.val = v /\ e2.keys = e.keys
  <2> HIDE DEF e
  <2> QED
    BY <1>1 DEF GroupT
<1>4. \A j \in 1..N : j # t => SameCell(m, j, r, j)
  BY DEF SameCell
<1>5. At(r, t).Value = v /\ r.list[t] = m.list[t]
  OBVIOUS
<1> HIDE DEF e, N, t, u, e2
<1>6. IsTag(r, t)
  <2>1. v # Null
    BY ConstAssumption
  <2> QED
    BY <2>1, <1>1, <1>2, <1>5, Shape
<1>7. ASSUME NEW j \in 1..(u - t - 1)
      PROVE  ~IsTag(r, t + j) /\ e2.keys[j] = At(r, t + j).Key
  <2>1. t + j \in 1..N /\ t + j # t
    BY <1>1
  <2>2. ~IsTag(m, t + j) /\ e.keys[j] = At(m, t + j).Key
    BY <1>1 DEF GroupHere
  <2> QED
    BY <2>1, <2>2, <1>2, <1>3, <1>4, Shape DEF SameCell, N
<1>8. GroupHere(r, e2, t, u)
  BY <1>1, <1>3, <1>5, <1>6, <1>7 DEF GroupHere
<1>9. ASSUME NEW j \in 1..N, j < t \/ u <= j
      PROVE  SameCell(m, j, r, j)
  <2>1. j # t
    BY <1>1, <1>9
  <2> QED
    BY <2>1, <1>4
<1>10. Lays(r, bounds, [gs EXCEPT ![g] = e2])
  BY <1>2, <1>3, <1>8, <1>9, LaysOneGroup DEF t, u, N
<1> QED
  BY <1>10 DEF e2, e

(***************************************************************************)
(* Keys.                                                                   *)
(***************************************************************************)
\* The abstract specification has the same operators on sequences.
LEMMA SameOperators ==
    /\ \A s : Abs!ToSet(s) = ToSet(s)
    /\ \A s, i, e : Abs!InsertAt(s, i, e) = InsertAt(s, i, e)
    /\ \A s, i : Abs!RemoveAt(s, i) = RemoveAt(s, i)
BY DEF Abs!ToSet, ToSet, Abs!InsertAt, InsertAt, Abs!RemoveAt, RemoveAt

\* A key of a group is that of the item at its place, which the index finds.
LEMMA KeyOfGroup ==
    ASSUME NEW m, MapInv(m), NEW bounds, NEW gs, Lays(m, bounds, gs),
           NEW g \in 1..Len(gs), NEW i \in 1..Len(gs[g].keys)
    PROVE  /\ bounds[g] + i \in 1..Len(m.list) /\ ~IsTag(m, bounds[g] + i)
           /\ bounds[g] + i < bounds[g+1]
           /\ At(m, bounds[g] + i).Key = gs[g].keys[i]
           /\ gs[g].keys[i] \in Key
           /\ m.index[gs[g].keys[i]] = m.list[bounds[g] + i]
           /\ m.index[gs[g].keys[i]] # Null
<1> DEFINE t == bounds[g]
           u == bounds[g+1]
           N == Len(m.list)
<1>1. /\ MapTypeOK(m) /\ N \in Nat /\ End(m) = N + 1
      /\ t \in 1..N /\ u \in 1..(N+1) /\ t < u
      /\ gs[g] \in GroupT /\ GroupHere(m, gs[g], t, u)
      /\ Len(gs[g].keys) = u - t - 1
  <2>1. MapTypeOK(m)
    BY DEF MapInv, Core
  <2> QED
    BY <2>1, LaysFacts
<1> HIDE DEF t, u, N
<1>2. i \in 1..(u - t - 1) /\ t + i \in 1..N /\ t + i < u
  BY <1>1
<1>3. ~IsTag(m, t + i) /\ gs[g].keys[i] = At(m, t + i).Key
  BY <1>1, <1>2 DEF GroupHere
<1>4. /\ At(m, t + i).Key \in Key
      /\ m.index[At(m, t + i).Key] = m.list[t + i] /\ m.index[At(m, t + i).Key] # Null
  BY <1>2, <1>3, KeyOfItem DEF N
<1> QED
  BY <1>2, <1>3, <1>4 DEF t, u, N

\* The place of a cell in the groups is its own.
LEMMA PlaceIsUnique ==
    ASSUME NEW m, MapTypeOK(m), NEW bounds, NEW gs, Lays(m, bounds, gs),
           NEW g \in 1..Len(gs), NEW h \in 1..Len(gs), NEW p \in Int,
           bounds[g] <= p, p < bounds[g+1], bounds[h] <= p, p < bounds[h+1]
    PROVE  g = h
<1>1. /\ Len(gs) \in Nat
      /\ \A l \in 1..Len(gs) : l + 1 \in 1..(Len(gs)+1)
      /\ \A l \in 1..(Len(gs)+1) : bounds[l] \in 1..End(m)
      /\ \A x, y \in 1..Len(gs) : x < y => bounds[x+1] <= bounds[y]
      /\ End(m) \in Nat
  BY LaysFacts
<1>2. bounds[g] \in Int /\ bounds[h] \in Int /\ bounds[g+1] \in Int /\ bounds[h+1] \in Int
  BY <1>1
<1>3. ~(g < h)
  BY <1>1, <1>2
<1>4. ~(h < g)
  BY <1>1, <1>2
<1> QED
  BY <1>1, <1>3, <1>4

\* A key of the index is in one place of the groups.
LEMMA PlaceOfKey ==
    ASSUME NEW m, MapInv(m), NEW bounds, NEW gs, Lays(m, bounds, gs),
           NEW k \in Key, m.index[k] # Null
    PROVE  \E g \in 1..Len(gs) : \E i \in 1..Len(gs[g].keys) :
              gs[g].keys[i] = k /\ Find(m, k) = bounds[g] + i
<1>1. Find(m, k) \in 1..Len(m.list) /\ ~IsTag(m, Find(m, k)) /\ At(m, Find(m, k)).Key = k
  BY FindItem
<1> DEFINE p == Find(m, k)
<1> HIDE DEF p
<1>2. \E g \in 1..Len(gs) : \E i \in 1..Len(gs[g].keys) :
         p = bounds[g] + i /\ At(m, p).Key = gs[g].keys[i]
  BY <1>1, ItemHasKey DEF p, MapInv, Core
<1> QED
  BY <1>1, <1>2 DEF p

\* A key is at one place of the groups.
LEMMA OnePlaceOfKey ==
    ASSUME NEW m, MapInv(m), NEW bounds, NEW gs, Lays(m, bounds, gs),
           NEW g \in 1..Len(gs), NEW i \in 1..Len(gs[g].keys),
           NEW h \in 1..Len(gs), NEW j \in 1..Len(gs[h].keys),
           gs[g].keys[i] = gs[h].keys[j]
    PROVE  g = h /\ i = j
<1> DEFINE p == bounds[g] + i
           q == bounds[h] + j
<1>1. p \in 1..Len(m.list) /\ p < bounds[g+1] /\ m.index[gs[g].keys[i]] = m.list[p]
  BY SMTT(30), KeyOfGroup
<1>2. q \in 1..Len(m.list) /\ q < bounds[h+1] /\ m.index[gs[h].keys[j]] = m.list[q]
  BY KeyOfGroup
<1>3. MapTypeOK(m) /\ \A x, y \in 1..Len(m.list) : m.list[x] = m.list[y] => x = y
  BY DEF MapInv, Core, MapTypeOK
<1>4. /\ Len(m.list) \in Nat /\ bounds[g] \in 1..Len(m.list) /\ bounds[h] \in 1..Len(m.list)
      /\ Len(gs[g].keys) \in Nat /\ Len(gs[h].keys) \in Nat
  BY <1>3, LaysFacts
<1>5. p = q
  <2> HIDE DEF p, q
  <2> QED
    BY <1>1, <1>2, <1>3
<1>6. bounds[g] <= p /\ bounds[h] <= q /\ p \in Int
  BY <1>4
<1>7. g = h
  <2> HIDE DEF p, q
  <2> QED
    BY <1>1, <1>2, <1>3, <1>5, <1>6, PlaceIsUnique
<1> QED
  BY <1>4, <1>5, <1>7

\* The keys of the groups are those of the index.
LEMMA KeysOfGroups ==
    ASSUME NEW m, MapInv(m), NEW bounds, NEW gs, Lays(m, bounds, gs)
    PROVE  /\ \A k \in Key : k \in Abs!KeysIn(gs) <=> m.index[k] # Null
           /\ DOMAIN gs = 1..Len(gs)
           /\ \A g \in 1..Len(gs) : DOMAIN gs[g].keys = 1..Len(gs[g].keys)
           /\ \A g \in 1..Len(gs) :
                 ToSet(gs[g].keys) = {gs[g].keys[i] : i \in 1..Len(gs[g].keys)}
<1>1. gs \in Seq(GroupT)
  BY DEF Lays
<1>2. /\ DOMAIN gs = 1..Len(gs)
      /\ \A g \in 1..Len(gs) : DOMAIN gs[g].keys = 1..Len(gs[g].keys)
  BY <1>1 DEF GroupT
<1>3. \A g \in 1..Len(gs) : ToSet(gs[g].keys) = {gs[g].keys[i] : i \in 1..Len(gs[g].keys)}
  BY <1>2 DEF ToSet
<1>4. ASSUME NEW k \in Key
      PROVE  k \in Abs!KeysIn(gs) <=>
                \E g \in 1..Len(gs) : \E i \in 1..Len(gs[g].keys) : k = gs[g].keys[i]
  <2>1. k \in Abs!KeysIn(gs) <=> \E g \in DOMAIN gs : k \in ToSet(gs[g].keys)
    BY SameOperators, Zenon DEF Abs!KeysIn
  <2>2. \A g \in 1..Len(gs) : k \in ToSet(gs[g].keys)
                             <=> \E i \in 1..Len(gs[g].keys) : k = gs[g].keys[i]
    BY <1>3
  <2> QED
    BY <1>2, <2>1, <2>2, Zenon
<1>5. ASSUME NEW k \in Key, m.index[k] # Null
      PROVE  k \in Abs!KeysIn(gs)
  BY <1>4, <1>5, PlaceOfKey
<1>6. ASSUME NEW k \in Key, k \in Abs!KeysIn(gs)
      PROVE  m.index[k] # Null
  <2>1. PICK g \in 1..Len(gs) : \E i \in 1..Len(gs[g].keys) : k = gs[g].keys[i]
    BY <1>4, <1>6
  <2>2. PICK i \in 1..Len(gs[g].keys) : k = gs[g].keys[i]
    BY <2>1
  <2> QED
    BY <2>2, KeyOfGroup
<1> QED
  BY <1>2, <1>3, <1>5, <1>6

\* Without() at the one place of its key.
LEMMA WithoutKey ==
    ASSUME NEW m, MapInv(m), NEW bounds, NEW gs, Lays(m, bounds, gs),
           NEW g \in 1..Len(gs), NEW i \in 1..Len(gs[g].keys), NEW k, k = gs[g].keys[i]
    PROVE  Abs!Without(gs, k) =
              IF Len(gs[g].keys) = 1 THEN RemoveAt(gs, g)
              ELSE [gs EXCEPT ![g].keys = RemoveAt(@, i)]
<1>1. /\ DOMAIN gs = 1..Len(gs)
      /\ \A h \in 1..Len(gs) : DOMAIN gs[h].keys = 1..Len(gs[h].keys)
      /\ \A h \in 1..Len(gs) :
            k \in Abs!ToSet(gs[h].keys) <=> \E j \in 1..Len(gs[h].keys) : k = gs[h].keys[j]
  <2>1. \A h \in 1..Len(gs) : ToSet(gs[h].keys) = {gs[h].keys[j] : j \in 1..Len(gs[h].keys)}
    BY KeysOfGroups
  <2>2. \A h \in 1..Len(gs) :
            k \in ToSet(gs[h].keys) <=> \E j \in 1..Len(gs[h].keys) : k = gs[h].keys[j]
    BY <2>1
  <2>3. \A h \in 1..Len(gs) :
            k \in Abs!ToSet(gs[h].keys) <=> \E j \in 1..Len(gs[h].keys) : k = gs[h].keys[j]
    BY <2>2, SameOperators, Zenon
  <2> QED
    BY <2>3, KeysOfGroups
<1>2. k \in Abs!KeysIn(gs)
  <2>1. g \in DOMAIN gs /\ k \in Abs!ToSet(gs[g].keys)
    BY <1>1, Zenon
  <2> QED
    BY <2>1, Zenon DEF Abs!KeysIn
<1>3. ASSUME NEW h \in 1..Len(gs), NEW j \in 1..Len(gs[h].keys), k = gs[h].keys[j]
      PROVE  g = h /\ i = j
  <2>1. gs[g].keys[i] = gs[h].keys[j]
    BY <1>3
  <2> QED
    BY <2>1, OnePlaceOfKey
<1>4. (CHOOSE h \in DOMAIN gs : k \in Abs!ToSet(gs[h].keys)) = g
  <2>1. g \in DOMAIN gs /\ k \in Abs!ToSet(gs[g].keys)
    BY <1>1
  <2>2. \A h \in DOMAIN gs : k \in Abs!ToSet(gs[h].keys) => h = g
    BY <1>1, <1>3
  <2> QED
    BY <2>1, <2>2
<1>5. (CHOOSE j \in DOMAIN gs[g].keys : gs[g].keys[j] = k) = i
  <2>1. i \in DOMAIN gs[g].keys /\ gs[g].keys[i] = k
    BY <1>1
  <2>2. \A j \in DOMAIN gs[g].keys : gs[g].keys[j] = k => j = i
    BY <1>1, <1>3
  <2> QED
    BY <2>1, <2>2
<1> DEFINE G == CHOOSE h \in DOMAIN gs : k \in Abs!ToSet(gs[h].keys)
           I(x) == CHOOSE j \in DOMAIN gs[x].keys : gs[x].keys[j] = k
<1>6. Abs!Without(gs, k) = IF Len(gs[G].keys) = 1 THEN Abs!RemoveAt(gs, G)
                           ELSE [gs EXCEPT ![G].keys = Abs!RemoveAt(@, I(G))]
  BY <1>2, Zenon DEF Abs!Without
<1>7. G = g /\ I(g) = i
  BY <1>4, <1>5
<1> HIDE DEF G, I
<1> QED
  BY <1>6, <1>7, SameOperators, Zenon

\* A cell linked.
LEMMA LinkWidens ==
    ASSUME NEW m, MapTypeOK(m), NEW p \in 1..End(m), NEW c \in CellT,
           NEW n \in Node, n \notin Live(m), NEW r0, r0 = LinkCell(m, p, n, c),
           NEW r, r.list = r0.list, r.item = r0.item
    PROVE  /\ Widened(m, r, p, 1) /\ End(r) = End(m) + 1
           /\ r.list[p] = n /\ At(r, p) = c
<1>1. /\ End(r0) = End(m) + 1
      /\ r0.list[p] = n /\ At(r0, p) = c
      /\ \A j \in 1..(p-1) : r0.list[j] = m.list[j] /\ At(r0, j) = At(m, j)
      /\ \A j \in (p+1)..End(m) : r0.list[j] = m.list[j-1] /\ At(r0, j) = At(m, j-1)
  BY LinkCellAt
<1>2. Len(m.list) \in Nat /\ End(m) = Len(m.list) + 1
  BY Shape
<1>3. End(r) = End(r0) /\ \A j : At(r, j) = At(r0, j)
  BY DEF End, At
<1>4. ASSUME NEW j \in p..Len(m.list)
      PROVE  SameCell(m, j, r, j + 1)
  <2>1. j + 1 \in (p+1)..End(m) /\ (j + 1) - 1 = j
    BY <1>2
  <2>2. r0.list[j+1] = m.list[(j+1)-1] /\ At(r0, j+1) = At(m, (j+1)-1)
    BY <1>1, <2>1
  <2> QED
    BY <2>1, <2>2, <1>3 DEF SameCell
<1>5. \A j \in 1..(p-1) : SameCell(m, j, r, j)
  BY <1>1, <1>3 DEF SameCell
<1> QED
  BY <1>1, <1>3, <1>4, <1>5 DEF Widened

\* An item linked, with its key.
LEMMA LinkItemWidens ==
    ASSUME NEW m, MapTypeOK(m), NEW p \in 1..End(m),
           NEW k \in Key, NEW t \in Node \cup {Null}, Room(m),
           NEW r, r = LinkItem(m, p, k, t), MapTypeOK(r)
    PROVE  Widened(m, r, p, 1) /\ ~IsTag(r, p) /\ At(r, p).Key = k
<1> DEFINE n == NewNode(m)
           c == NewItem(m, p, k, t)
           r0 == LinkCell(m, p, n, c)
<1>1. n \in Node /\ n \notin Live(m)
  BY NewNodeFresh
<1>2. c \in CellT /\ c.Key = k /\ c.Value = Null
  <2>1. OrderIdxForNewElem(m, p) \in Int
    BY OrderIdxType
  <2> QED
    BY <2>1 DEF CellT, NewItem
<1>3. r = SetIndex(r0, k, n)
  BY DEF LinkItem
<1> HIDE DEF n, c
<1>4. r.list = r0.list /\ r.item = r0.item
  BY <1>3 DEF SetIndex
<1>5. /\ Widened(m, r, p, 1) /\ End(r) = End(m) + 1
      /\ r.list[p] = n /\ At(r, p) = c
  BY <1>1, <1>2, <1>4, LinkWidens
<1> HIDE DEF r0
<1>6. p \in 1..Len(r.list)
  BY <1>5, Shape
<1>7. ~IsTag(r, p) /\ At(r, p).Key = k
  BY <1>2, <1>5, <1>6, Shape
<1> QED
  BY <1>5, <1>7

\* The key of an item linked in a group joins the keys of the group there.
LEMMA LinkItemAddsKey ==
    ASSUME NEW m, MapTypeOK(m), NEW bounds, NEW gs, Lays(m, bounds, gs),
           NEW g \in 1..Len(gs), NEW i \in 1..(Len(gs[g].keys) + 1),
           NEW p \in 1..End(m), p = bounds[g] + i,
           NEW k \in Key, NEW t \in Node \cup {Null}, Room(m),
           NEW r, r = LinkItem(m, p, k, t), MapTypeOK(r)
    PROVE  \E b2 : Lays(r, b2, [gs EXCEPT ![g].keys = InsertAt(@, i, k)])
<1>1. Widened(m, r, p, 1) /\ ~IsTag(r, p) /\ At(r, p).Key = k
  BY LinkItemWidens
<1> QED
  BY <1>1, LaysAddKey

\* A tag and its item linked between groups.
LEMMA InsertGroupAddsGroup ==
    ASSUME NEW m, MapInv(m), NEW bounds, NEW gs, Lays(m, bounds, gs),
           NEW g \in 1..(Len(gs) + 1), NEW q, q = bounds[g],
           NEW k \in Key, m.index[k] = Null, NEW v \in Val, Room2(m)
    PROVE  \E b2 : Lays(InsertGroup(m, q, k, v), b2,
                        InsertAt(gs, g, [addr |-> NewNode(m), val |-> v, keys |-> <<k>>]))
<1> DEFINE n == NewNode(m)
           c == NewTag(m, q, v, n)
           m1 == LinkTag(m, q, v)
           n1 == NewNode(m1)
           c1 == NewItem(m1, q + 1, k, m1.list[q])
           r0 == LinkCell(m1, q + 1, n1, c1)
           r == InsertGroup(m, q, k, v)
           N == Len(m.list)
<1>0. Core(m) /\ MapTypeOK(m) /\ N \in Nat /\ End(m) = N + 1 /\ Room(m)
  BY Shape DEF MapInv, Core, Room, Room2
<1>1. q \in 1..End(m) /\ (q = End(m) \/ IsTag(m, q))
  <2>1. CASE g = Len(gs) + 1
    BY <2>1, <1>0 DEF Lays
  <2>2. CASE g # Len(gs) + 1
    <3>1. Len(gs) \in Nat
      BY DEF Lays
    <3>2. g \in 1..Len(gs)
      BY <2>2, <3>1
    <3>3. GroupHere(m, gs[g], q, bounds[g+1]) /\ q \in 1..N
      BY <1>0, <3>2, LaysFacts
    <3> QED
      BY <1>0, <3>3 DEF GroupHere
  <2> QED
    BY <2>1, <2>2
<1>2. n \in Node /\ n \notin Live(m)
  BY <1>0, NewNodeFresh
<1>3. c \in CellT /\ c.Value = v
  <2>1. OrderIdxForNewElem(m, q) \in Int
    BY <1>0, <1>1, OrderIdxType
  <2> QED
    BY <1>2, <2>1 DEF CellT, NewTag
<1>4. m1 = LinkCell(m, q, n, c)
  BY DEF LinkTag
<1>5. /\ Core(m1) /\ MapTypeOK(m1) /\ Live(m1) = Live(m) \cup {n}
  <2>1. Core(m1) /\ Live(m1) = Live(m) \cup {n}
    BY <1>0, <1>1, LinkTagCore
  <2> QED
    BY <2>1 DEF Core
<1> HIDE DEF c, n
<1>6. /\ Widened(m, m1, q, 1) /\ End(m1) = N + 2
      /\ m1.list[q] = n /\ At(m1, q) = c
  BY <1>0, <1>1, <1>2, <1>3, <1>4, LinkWidens
<1>7. r = LinkItem(m1, q + 1, k, m1.list[q])
  BY DEF InsertGroup
<1> HIDE DEF m1
<1>8. Room(m1)
  BY <1>5 DEF Room, Room2
<1>9. n1 \in Node /\ n1 \notin Live(m1)
  BY <1>8, NewNodeFresh
<1>10. q + 1 \in 1..End(m1)
  BY <1>0, <1>1, <1>6
<1>11. c1 \in CellT /\ c1.Key = k /\ c1.Value = Null
  <2>1. OrderIdxForNewElem(m1, q + 1) \in Int
    BY <1>5, <1>10, OrderIdxType
  <2> QED
    BY <1>2, <1>6, <2>1 DEF CellT, NewItem
<1>12. r = SetIndex(r0, k, n1)
  BY <1>7 DEF LinkItem
<1> HIDE DEF n1, c1
<1>13. r.list = r0.list /\ r.item = r0.item
  BY <1>12 DEF SetIndex
<1>14. MapTypeOK(r)
  BY <1>1, InsertGroupInv DEF MapInv, Core
<1> HIDE DEF r
<1>15. /\ Widened(m1, r, q + 1, 1) /\ End(r) = N + 3
       /\ r.list[q+1] = n1 /\ At(r, q+1) = c1
  BY <1>0, <1>5, <1>6, <1>9, <1>10, <1>11, <1>13, LinkWidens
<1> HIDE DEF r0
<1>16. Len(m1.list) = N + 1 /\ Len(r.list) = N + 2 /\ q \in 1..(N+1)
  <2>1. Len(m1.list) \in Nat /\ End(m1) = Len(m1.list) + 1
    BY ONLY <1>5, Shape
  <2>2. Len(r.list) \in Nat /\ End(r) = Len(r.list) + 1
    BY ONLY <1>14, Shape
  <2> QED
    <3>1. N \in Nat /\ End(m) = N + 1 /\ q \in 1..End(m)
      BY <1>0, <1>1
    <3>2. End(m1) = N + 2 /\ End(r) = N + 3
      BY <1>6, <1>15
    <3> QED
      BY ONLY <2>1, <2>2, <3>1, <3>2
<1>17. Widened(m, r, q, 2)
  <2>1. ASSUME NEW j \in 1..(q-1) PROVE SameCell(m, j, r, j)
    <3>1. j \in 1..((q+1)-1)
      BY <1>16
    <3> QED
      BY <3>1, <1>6, <1>15 DEF Widened, SameCell
  <2>2. ASSUME NEW j \in q..N PROVE SameCell(m, j, r, j + 2)
    <3>1. j + 1 \in (q+1)..Len(m1.list) /\ (j + 1) + 1 = j + 2
      BY <1>0, <1>16
    <3>2. SameCell(m, j, m1, j + 1)
      BY <1>6 DEF Widened
    <3>3. SameCell(m1, j + 1, r, (j + 1) + 1)
      BY <3>1, <1>15 DEF Widened
    <3> QED
      BY <3>1, <3>2, <3>3 DEF SameCell
  <2> QED
    BY <2>1, <2>2, <1>0, <1>15 DEF Widened
<1>18. r.list[q] = n /\ At(r, q) = c
  <2>1. q \in 1..((q+1)-1)
    BY <1>16
  <2>2. SameCell(m1, q, r, q)
    BY <2>1, <1>15 DEF Widened
  <2> QED
    BY <2>2, <1>6 DEF SameCell
<1> DEFINE e == [addr |-> n, val |-> v, keys |-> <<k>>]
<1>19. e \in GroupT /\ e.addr = n /\ e.val = v /\ Len(e.keys) = 1 /\ e.keys[1] = k
  BY <1>2 DEF GroupT
<1>20. GroupHere(r, e, q, q + 2)
  <2>1. q \in 1..Len(r.list) /\ q + 1 \in 1..Len(r.list) /\ (q + 2) - q - 1 = 1
    BY <1>0, <1>16
  <2>2. v # Null
    BY ConstAssumption
  <2>3. IsTag(r, q) /\ ~IsTag(r, q + 1)
    BY <2>1, <2>2, <1>3, <1>11, <1>14, <1>15, <1>18, Shape
  <2>4. At(r, q + 1).Key = k /\ At(r, q).Value = v
    BY <1>3, <1>11, <1>15, <1>18
  <2> HIDE DEF e
  <2>5. \A i \in 1..1 : i = 1
    OBVIOUS
  <2> QED
    BY <2>1, <2>3, <2>4, <2>5, <1>18, <1>19 DEF GroupHere
<1> HIDE DEF e
<1>21. \E b2 : Lays(r, b2, InsertAt(gs, g, e))
  BY <1>0, <1>14, <1>17, <1>19, <1>20, LaysAddGroup
<1> QED
  BY <1>21 DEF r, e, n

\* A cell unlinked.
LEMMA UnlinkWidens ==
    ASSUME NEW m, MapTypeOK(m), NEW p \in 1..Len(m.list), NEW r0, r0 = UnlinkCell(m, p),
           NEW r, r.list = r0.list, r.item = r0.item
    PROVE  Widened(r, m, p, 1) /\ Len(r.list) = Len(m.list) - 1
<1>1. /\ End(r0) = End(m) - 1
      /\ \A j \in 1..(p-1) : r0.list[j] = m.list[j] /\ At(r0, j) = At(m, j)
      /\ \A j \in p..(Len(m.list) - 1) :
            r0.list[j] = m.list[j+1] /\ At(r0, j) = At(m, j+1)
      /\ MapTypeOK(r0)
  BY UnlinkCellAt
<1>2. /\ Len(m.list) \in Nat /\ End(m) = Len(m.list) + 1
      /\ Len(r0.list) \in Nat /\ End(r0) = Len(r0.list) + 1
  BY <1>1, Shape
<1>3. End(r) = End(r0) /\ \A j : At(r, j) = At(r0, j)
  BY DEF End, At
<1>4. Len(r.list) = Len(m.list) - 1
  BY <1>1, <1>2
<1>5. \A j \in 1..(p-1) : SameCell(r, j, m, j)
  BY <1>1, <1>3 DEF SameCell
<1>6. \A j \in p..Len(r.list) : SameCell(r, j, m, j + 1)
  BY <1>1, <1>3, <1>4 DEF SameCell
<1> QED
  BY <1>1, <1>2, <1>3, <1>4, <1>5, <1>6 DEF Widened

\* The tag of a group is the first cell of it, and the TagIt of its items.
LEMMA TagOfGroup ==
    ASSUME NEW m, MapInv(m), NEW bounds, NEW gs, Lays(m, bounds, gs),
           NEW g \in 1..Len(gs), NEW i \in 0..Len(gs[g].keys)
    PROVE  /\ bounds[g] + i \in 1..Len(m.list) /\ bounds[g] \in 1..Len(m.list)
           /\ At(m, bounds[g] + i).TagIt = m.list[bounds[g]]
<1> DEFINE t == bounds[g]
           u == bounds[g+1]
           N == Len(m.list)
           p == t + i
<1>1. /\ N \in Nat /\ End(m) = N + 1
      /\ t \in 1..N /\ u \in 1..(N+1) /\ t < u
      /\ GroupHere(m, gs[g], t, u)
      /\ Len(gs[g].keys) = u - t - 1
  <2>1. MapTypeOK(m)
    BY DEF MapInv, Core
  <2> QED
    BY <2>1, LaysFacts
<1>2. p \in 1..N /\ t \in 1..p /\ p < u
  BY SMTT(30), <1>1
<1>3. IsTag(m, t)
  BY <1>1 DEF GroupHere
<1>4. ASSUME NEW x \in (t+1)..p PROVE ~IsTag(m, x)
  <2>1. x - t \in 1..(u - t - 1) /\ t + (x - t) = x
    <3>1. t \in Int /\ u \in Int /\ p \in Int /\ x \in Int
      BY <1>1, <1>2
    <3> HIDE DEF t, u, p
    <3>2. t < x /\ x < u
      BY <3>1, <1>2
    <3> QED
      BY <3>1, <3>2, Offset
  <2>2. \A j \in 1..(u - t - 1) : ~IsTag(m, t + j)
    BY <1>1 DEF GroupHere
  <2> QED
    BY <2>1, <2>2
<1> HIDE DEF p, t, u
<1>5. t = TagPos(m, p)
  BY <1>2, <1>3, <1>4, NearestTag
<1>6. At(m, p).TagIt = m.list[t]
  BY <1>2, <1>5, NearestTag
<1> QED
  BY <1>1, <1>2, <1>6 DEF p, t

\* erase() takes the key of the item from the groups, and its group when it
\* was the only one there.
LEMMA EraseDropsKey ==
    ASSUME NEW m, MapInv(m), NEW bounds, NEW gs, Lays(m, bounds, gs),
           NEW p0 \in 1..Len(m.list), NEW k, k = At(m, SkipTagForward(m, p0)).Key
    PROVE  /\ \E b2 : Lays(Erase(m, p0), b2, Abs!Without(gs, k))
           /\ k \in Key /\ m.index[k] # Null
<1> DEFINE p == SkipTagForward(m, p0)
           r0 == UnlinkCell(m, p)
           m1 == SetIndex(r0, k, Null)
           r == Erase(m, p0)
           N == Len(m.list)
<1>0. /\ Core(m) /\ MapTypeOK(m) /\ N \in Nat /\ End(m) = N + 1
      /\ \A x, y \in 1..N : m.list[x] = m.list[y] => x = y
  BY Shape DEF MapInv, Core, MapTypeOK
<1>1. p \in 1..N /\ ~IsTag(m, p)
  BY <1>0, Neighbours
<1>2. k = At(m, p).Key
  OBVIOUS
<1>3. r = IF TagOrSentinel(m1, p) /\ m1.list[p-1] = At(m, p).TagIt
          THEN UnlinkCell(m1, p - 1) ELSE m1
  BY DEF Erase
<1>4. MapInv(r)
  BY EraseInv
<1>5. MapTypeOK(r)
  BY <1>4 DEF MapInv, Core
<1> HIDE DEF r, p
<1>6. /\ Core(m1)
      /\ \A j \in p..(N-1) : IsTag(m1, j) <=> IsTag(m, j+1)
  BY <1>0, <1>1, <1>2, UnlinkItemCore
<1>7. m1.list = r0.list /\ m1.item = r0.item
  BY DEF SetIndex
<1>8. Widened(m1, m, p, 1) /\ Len(m1.list) = N - 1
  <2> HIDE DEF m1
  <2> QED
    BY <1>0, <1>1, <1>7, UnlinkWidens
<1> HIDE DEF m1, r0
<1>9. MapTypeOK(m1) /\ End(m1) = N
  BY <1>0, <1>6, <1>8, Shape DEF Core
<1>10. PICK g \in 1..Len(gs) : \E i \in 1..Len(gs[g].keys) :
              p = bounds[g] + i /\ At(m, p).Key = gs[g].keys[i] /\ gs[g].keys[i] \in Key
  BY <1>0, <1>1, ItemHasKey
<1>11. PICK i \in 1..Len(gs[g].keys) :
              p = bounds[g] + i /\ At(m, p).Key = gs[g].keys[i] /\ gs[g].keys[i] \in Key
  BY <1>10
<1> DEFINE t == bounds[g]
           u == bounds[g+1]
           len == Len(gs[g].keys)
<1>12. /\ t \in 1..N /\ u \in 1..(N+1) /\ len \in Nat /\ len = u - t - 1
       /\ i \in 1..len /\ p = t + i
       /\ GroupHere(m, gs[g], t, u)
  BY SMTT(30), <1>0, <1>11, LaysFacts
<1>13. At(m, p).TagIt = m.list[t]
  <2>1. i \in 0..Len(gs[g].keys)
    BY <1>12
  <2> QED
    BY <2>1, <1>11, TagOfGroup
<1>14. Abs!Without(gs, k) = IF len = 1 THEN RemoveAt(gs, g)
                            ELSE [gs EXCEPT ![g].keys = RemoveAt(@, i)]
  <2>1. k = gs[g].keys[i]
    BY <1>2, <1>11
  <2>2. Abs!Without(gs, k) = IF Len(gs[g].keys) = 1 THEN RemoveAt(gs, g)
                             ELSE [gs EXCEPT ![g].keys = RemoveAt(@, i)]
    BY <2>1, WithoutKey
  <2> QED
    BY <2>2
<1> HIDE DEF t, u, len, N
<1>15. p - 1 \in 1..N /\ p - 1 \in 1..(p-1) /\ m1.list[p-1] = m.list[p-1]
  <2>1. p - 1 \in 1..N /\ p - 1 \in 1..(p-1)
    BY <1>0, <1>1, <1>12
  <2> QED
    BY <2>1, <1>8 DEF Widened, SameCell
<1>16. m1.list[p-1] = At(m, p).TagIt <=> i = 1
  <2>1. m1.list[p-1] = At(m, p).TagIt <=> p - 1 = t
    BY <1>0, <1>12, <1>13, <1>15 DEF N
  <2> QED
    BY <2>1, <1>0, <1>12
<1>17. TagOrSentinel(m1, p) <=> i = len
  <2>1. CASE i = len
    <3>1. p + 1 = u
      BY <2>1, <1>0, <1>12
    <3>2. CASE u = N + 1
      BY <3>1, <3>2, <2>1, <1>0, <1>1, <1>9 DEF TagOrSentinel, N
    <3>3. CASE u # N + 1
      <4>1. IsTag(m, u)
        <5>1. PICK h \in 1..Len(gs) : bounds[h] <= u /\ u < bounds[h+1]
          <6>1. u \in 1..N
            BY <3>3, <1>0, <1>12
          <6>2. u \in 1..Len(m.list)
            BY <6>1 DEF N
          <6> QED
            BY <6>2, <1>0, GroupOfCell
        <5>2. /\ Len(gs) \in Nat /\ bounds[Len(gs)+1] = N + 1
              /\ \A x, y \in 1..(Len(gs)+1) : x < y => bounds[x] < bounds[y]
          BY <1>0 DEF Lays
        <5>3. g + 1 \in 1..Len(gs)
          <6>1. g # Len(gs)
            BY <3>3, <5>2 DEF u
          <6> QED
            BY <6>1, <5>2
        <5>4. GroupHere(m, gs[g+1], bounds[g+1], bounds[(g+1)+1])
          BY <5>3, <1>0, LaysFacts
        <5> QED
          BY <5>4 DEF GroupHere, u
      <4>2. p \in p..(N-1)
        BY <3>1, <3>3, <1>0, <1>12
      <4> QED
        BY <3>1, <4>1, <4>2, <2>1, <1>6 DEF TagOrSentinel, N
    <3> QED
      BY <3>2, <3>3
  <2>2. CASE i # len
    <3>1. p + 1 < u /\ p + 1 = t + (i + 1) /\ i + 1 \in 1..(u - t - 1) /\ p \in p..(N-1) /\ p # N
      BY <2>2, <1>0, <1>12
    <3>2. ~IsTag(m, p + 1)
      BY <3>1, <1>12 DEF GroupHere
    <3> QED
      BY <3>1, <3>2, <2>2, <1>6, <1>9 DEF TagOrSentinel, N
  <2> QED
    BY <2>1, <2>2
<1>18. CASE len # 1
  <2>1. ~(i = 1 /\ i = len)
    BY <1>18
  <2>2. r = m1
    BY <2>1, <1>3, <1>16, <1>17
  <2>3. \E b2 : Lays(m1, b2, [gs EXCEPT ![g].keys = RemoveAt(@, i)])
    BY <1>0, <1>8, <1>9, <1>11, <1>18, LaysDropKey DEF len
  <2> QED
    BY <2>2, <2>3, <1>1, <1>2, <1>14, <1>18, KeyOfItem DEF r, p, N
<1>19. CASE len = 1
  <2>1. i = 1 /\ i = len /\ p - 1 = t /\ u - t = 2
    BY <1>19, <1>12, <1>0
  <2>2. r = UnlinkCell(m1, p - 1)
    BY <2>1, <1>3, <1>16, <1>17
  <2>3. t \in 1..Len(m1.list)
    <3>1. Len(m1.list) = N - 1
      BY <1>8
    <3>2. t \in Int /\ p \in Int /\ N \in Int /\ t >= 1 /\ p <= N /\ p - 1 = t
      BY <2>1, <1>12, <1>1, <1>0
    <3> QED
      BY <3>1, <3>2
  <2>4. Widened(r, m1, t, 1) /\ Len(r.list) = Len(m1.list) - 1
    BY <2>1, <2>2, <2>3, <1>9, UnlinkWidens
  <2>5. Widened(r, m, t, 2)
    <3>1. ASSUME NEW j \in 1..(t-1) PROVE SameCell(r, j, m, j)
      <4>1. j \in 1..(p-1)
        BY <2>1, <1>12, <1>0
      <4> QED
        BY <4>1, <2>4, <1>8 DEF Widened, SameCell
    <3>2. ASSUME NEW j \in t..Len(r.list) PROVE SameCell(r, j, m, j + 2)
      <4>1. j + 1 \in p..Len(m1.list) /\ (j + 1) + 1 = j + 2
        BY <2>1, <2>3, <2>4, <1>12, <1>0, <1>8
      <4>2. SameCell(r, j, m1, j + 1)
        BY <2>4 DEF Widened
      <4>3. SameCell(m1, j + 1, m, (j + 1) + 1)
        BY <4>1, <1>8 DEF Widened
      <4> QED
        BY <4>1, <4>2, <4>3 DEF SameCell
    <3>3. End(m) = End(r) + 2
      <4>1. End(m) = End(m1) + 1 /\ End(m1) = End(r) + 1
        BY <2>4, <1>8 DEF Widened
      <4>2. End(r) \in Nat
        BY <1>5, Shape
      <4> QED
        BY <4>1, <4>2
    <3> QED
      BY <3>1, <3>2, <3>3 DEF Widened
  <2>6. \E b2 : Lays(r, b2, RemoveAt(gs, g))
    <3>1. 2 = bounds[g+1] - bounds[g]
      BY <2>1 DEF t, u
    <3> QED
      BY <2>5, <3>1, <1>0, <1>5, LaysDropGroup DEF t
  <2> QED
    BY <2>6, <1>1, <1>2, <1>14, <1>19, KeyOfItem DEF r, p, N
<1> QED
  BY <1>18, <1>19

\* The bounds of the groups are the tags and the end of the list.
LEMMA BoundsAreTags ==
    ASSUME NEW m, MapTypeOK(m), NEW bounds, NEW gs, Lays(m, bounds, gs)
    PROVE  /\ \A g \in 1..(Len(gs) + 1) : bounds[g] = End(m) \/ IsTag(m, bounds[g])
           /\ \A q \in 1..Len(m.list) : IsTag(m, q) =>
                 \E g \in 1..Len(gs) : q = bounds[g]
<1> DEFINE n == Len(gs)
           N == Len(m.list)
<1>1. /\ n \in Nat /\ N \in Nat /\ End(m) = N + 1
      /\ \A g \in 1..(n+1) : bounds[g] \in 1..(N+1)
      /\ \A g \in 1..n : GroupHere(m, gs[g], bounds[g], bounds[g+1]) /\ g + 1 \in 1..(n+1)
      /\ bounds[n+1] = End(m)
  BY LaysFacts DEF Lays
<1>2. ASSUME NEW g \in 1..(n+1) PROVE bounds[g] = End(m) \/ IsTag(m, bounds[g])
  <2>1. CASE g = n + 1
    BY <2>1, <1>1
  <2>2. CASE g # n + 1
    <3>1. g \in 1..n
      BY <2>2, <1>1
    <3> QED
      BY <3>1, <1>1 DEF GroupHere
  <2> QED
    BY <2>1, <2>2
<1>3. ASSUME NEW q \in 1..N, IsTag(m, q) PROVE \E g \in 1..n : q = bounds[g]
  <2>1. PICK g \in 1..n : bounds[g] <= q /\ q < bounds[g+1]
    BY GroupOfCell
  <2> DEFINE t == bounds[g]
             u == bounds[g+1]
  <2>2. t \in Int /\ u \in Int /\ q \in Int /\ t <= q /\ q < u
    BY <1>1, <2>1
  <2>3. \A i \in 1..(u - t - 1) : ~IsTag(m, t + i)
    BY <1>1 DEF GroupHere
  <2> HIDE DEF t, u
  <2>4. CASE q # t
    <3>1. q - t \in 1..(u - t - 1) /\ t + (q - t) = q
      BY <2>2, <2>4
    <3> QED
      BY <3>1, <2>3, <1>3
  <2> QED
    BY <2>4 DEF t
<1> QED
  BY <1>2, <1>3

\* The iterator p of the map m stands for the place P of the groups gs.
StandsFor(m, bounds, gs, p, P) ==
    LET q == SkipTagForward(m, p) IN
    /\ P = <<P[1], P[2]>>
    /\ \/ q = End(m) /\ p = End(m) /\ P[1] = Len(gs) + 1 /\ P[2] = 1
       \/ /\ q # End(m) /\ p # End(m)
          /\ P[1] \in 1..Len(gs) /\ P[2] \in 1..Len(gs[P[1]].keys)
          /\ q = bounds[P[1]] + P[2]

\* Every cell but the tags is a place.
LEMMA PlaceOfItem ==
    ASSUME NEW m, MapInv(m), NEW bounds, NEW gs, Lays(m, bounds, gs),
           NEW q \in 1..Len(m.list), ~IsTag(m, q)
    PROVE  \E g \in 1..Len(gs) : \E i \in 1..Len(gs[g].keys) :
              q = bounds[g] + i /\ gs[g].keys[i] = At(m, q).Key
<1>1. MapTypeOK(m) /\ Len(m.list) \in Nat /\ End(m) = Len(m.list) + 1
  BY Shape DEF MapInv, Core
<1>2. PICK g \in 1..Len(gs) : bounds[g] <= q /\ q < bounds[g+1]
  BY <1>1, GroupOfCell
<1>3. /\ bounds[g] \in 1..Len(m.list) /\ bounds[g+1] \in 1..End(m)
      /\ Len(gs[g].keys) = bounds[g+1] - bounds[g] - 1
      /\ IsTag(m, bounds[g])
  BY <1>1, LaysFacts DEF GroupHere
<1> DEFINE i == q - bounds[g]
<1>4. i \in 1..Len(gs[g].keys) /\ q = bounds[g] + i
  <2>1. bounds[g] # q
    BY <1>3
  <2>2. bounds[g] \in Int /\ bounds[g+1] \in Int /\ q \in Int /\ bounds[g] < q
    BY <1>1, <1>2, <1>3, <2>1
  <2> QED
    BY <1>2, <1>3, <2>2, Offset
<1> HIDE DEF i
<1>5. At(m, bounds[g] + i).Key = gs[g].keys[i]
  BY <1>4, KeyOfGroup
<1> QED
  BY <1>4, <1>5

\* insertRight() adds the key to the group at the iterator, in front of it.
LEMMA InsertRightJoins ==
    ASSUME NEW m, MapInv(m), NEW bounds, NEW gs, Lays(m, bounds, gs),
           NEW p \in 1..Len(m.list), NEW k \in Key, m.index[k] = Null, Room(m),
           NEW g \in 1..Len(gs), NEW i \in 1..Len(gs[g].keys),
           SkipTagForward(m, p) = bounds[g] + i
    PROVE  \E b2 : Lays(InsertRightAt(m, p, k), b2,
                        [gs EXCEPT ![g].keys = InsertAt(@, i, k)])
<1> DEFINE q == SkipTagForward(m, p)
           t == At(m, q).TagIt
           r == InsertRightAt(m, p, k)
<1>1. MapTypeOK(m) /\ Len(m.list) \in Nat /\ End(m) = Len(m.list) + 1
  BY Shape DEF MapInv, Core
<1>2. q \in 2..Len(m.list) /\ q = bounds[g] + i
  BY Neighbours
<1>3. r = LinkItem(m, q, k, t)
  BY DEF InsertRightAt
<1>4. MapTypeOK(r)
  BY InsertRightInv DEF MapInv, Core
<1> HIDE DEF q, r
<1>5. t \in Node \cup {Null} /\ q \in 1..End(m)
  <2>1. q \in 1..Len(m.list)
    BY <1>1, <1>2
  <2>2. At(m, q) \in CellT
    BY <2>1, <1>1, Shape
  <2> QED
    BY <2>1, <2>2, <1>1 DEF CellT
<1> HIDE DEF t
<1>6. i \in 1..(Len(gs[g].keys) + 1)
  BY <1>1, LaysFacts
<1>7. \E b2 : Lays(r, b2, [gs EXCEPT ![g].keys = InsertAt(@, i, k)])
  BY <1>1, <1>2, <1>3, <1>4, <1>5, <1>6, LinkItemAddsKey
<1> QED
  BY <1>7 DEF r

\* The group and the place in it that insertLeft() inserts at.
LeftGroup(P) == IF P[2] = 1 THEN P[1] - 1 ELSE P[1]
LeftPlace(gs, P) == IF P[2] = 1 THEN Len(gs[P[1] - 1].keys) + 1 ELSE P[2]

\* In front of a group insertLeft() is at the end of the one on its left.
LEMMA LeftCell ==
    ASSUME NEW m, MapInv(m), NEW bounds, NEW gs, Lays(m, bounds, gs),
           NEW p \in 2..End(m), ~IsTag(m, p), NEW P,
           StandsFor(m, bounds, gs, p, P), P # <<1, 1>>,
           NEW q, q = IF IsTag(m, p-1) /\ p - 1 # 1 THEN p - 1 ELSE p
    PROVE  /\ LeftGroup(P) \in 1..Len(gs)
           /\ LeftPlace(gs, P) \in 1..(Len(gs[LeftGroup(P)].keys) + 1)
           /\ q = bounds[LeftGroup(P)] + LeftPlace(gs, P)
<1>1. /\ MapTypeOK(m) /\ Len(m.list) \in Nat /\ End(m) = Len(m.list) + 1
      /\ Len(gs) \in Nat /\ bounds[1] = 1 /\ bounds[Len(gs) + 1] = End(m)
      /\ \A g \in 1..(Len(gs) + 1) : bounds[g] \in 1..End(m)
      /\ \A g, h \in 1..(Len(gs) + 1) : g < h => bounds[g] < bounds[h]
  BY LaysFacts DEF MapInv, Core, Lays
<1>2. \A g \in 1..Len(gs) :
         /\ Len(gs[g].keys) \in Nat
         /\ bounds[g+1] = bounds[g] + (Len(gs[g].keys) + 1)
         /\ bounds[g] \in Int /\ IsTag(m, bounds[g])
  <2> SUFFICES ASSUME NEW g \in 1..Len(gs)
               PROVE  /\ Len(gs[g].keys) \in Nat
                      /\ bounds[g+1] = bounds[g] + (Len(gs[g].keys) + 1)
                      /\ bounds[g] \in Int /\ IsTag(m, bounds[g])
    OBVIOUS
  <2>1. /\ bounds[g] \in 1..Len(m.list) /\ g + 1 \in 1..(Len(gs) + 1)
        /\ GroupHere(m, gs[g], bounds[g], bounds[g+1])
        /\ Len(gs[g].keys) \in Nat
        /\ Len(gs[g].keys) = bounds[g+1] - bounds[g] - 1
    BY <1>1, LaysFacts
  <2>2. bounds[g] \in Int /\ bounds[g+1] \in Int
    BY <2>1, <1>1
  <2>3. IsTag(m, bounds[g])
    BY <2>1 DEF GroupHere
  <2> QED
    BY ONLY <2>1, <2>2, <2>3
<1>3. SkipTagForward(m, p) = p
  BY DEF SkipTagForward
<1> DEFINE g == P[1]
           i == P[2]
<1>4. CASE p = End(m)
  <2>1. g = Len(gs) + 1 /\ i = 1
    BY <1>3, <1>4 DEF StandsFor
  <2>2. g - 1 = Len(gs) /\ Len(gs) \in 1..Len(gs)
    <3>1. Len(gs) # 0
      BY <1>1, <1>4
    <3> QED
      BY <2>1, <3>1, <1>1
  <2>3. ~IsTag(m, p - 1)
    <3>1. p - 1 = Len(m.list) /\ Len(m.list) \in 1..Len(m.list)
      BY <1>1, <1>4
    <3> QED
      BY <3>1 DEF MapInv, MapNonEmpty
  <2>4. q = bounds[Len(gs)] + (Len(gs[Len(gs)].keys) + 1)
    BY <2>2, <2>3, <1>1, <1>2, <1>4
  <2>5. Len(gs[Len(gs)].keys) + 1 \in 1..(Len(gs[Len(gs)].keys) + 1)
    BY <2>2, <1>2
  <2> QED
    BY <2>1, <2>2, <2>4, <2>5 DEF LeftGroup, LeftPlace
<1>5. CASE p # End(m)
  <2>1. g \in 1..Len(gs) /\ i \in 1..Len(gs[g].keys) /\ p = bounds[g] + i
    BY <1>3, <1>5 DEF StandsFor
  <2>2. CASE i = 1
    <3>1. g # 1
      BY <2>2 DEF StandsFor
    <3>2. g - 1 \in 1..Len(gs) /\ (g - 1) + 1 = g /\ 1 \in 1..(Len(gs) + 1)
          /\ g \in 1..(Len(gs) + 1) /\ 1 < g
      BY SMTT(30), <2>1, <3>1, <1>1
    <3>3. p - 1 = bounds[g] /\ bounds[g] # 1 /\ IsTag(m, p - 1)
      <4>1. bounds[g] \in Int /\ 1 < bounds[g] /\ IsTag(m, bounds[g])
        BY <2>1, <3>2, <1>1, <1>2
      <4> QED
        BY <4>1, <2>1, <2>2
    <3>4. q = bounds[g]
      BY <3>3
    <3>5. bounds[(g - 1) + 1] = bounds[g - 1] + (Len(gs[g-1].keys) + 1)
      BY <3>2, <1>2
    <3>6. Len(gs[g-1].keys) + 1 \in 1..(Len(gs[g-1].keys) + 1)
      BY <3>2, <1>2
    <3> QED
      BY <2>2, <3>2, <3>4, <3>5, <3>6 DEF LeftGroup, LeftPlace
  <2>3. CASE i # 1
    <3>1. i - 1 \in 1..Len(gs[g].keys) /\ i \in 1..(Len(gs[g].keys) + 1)
          /\ p - 1 = bounds[g] + (i - 1)
      <4>1. Len(gs[g].keys) \in Nat /\ bounds[g] \in Int
        BY <2>1, <1>2
      <4> QED
        BY ONLY SMTT(30), <2>1, <2>3, <4>1
    <3>2. ~IsTag(m, p - 1)
      BY <2>1, <3>1, KeyOfGroup
    <3>3. q = p
      BY <3>2
    <3> QED
      BY <2>1, <2>3, <3>1, <3>3 DEF LeftGroup, LeftPlace
  <2> QED
    BY <2>2, <2>3
<1> QED
  BY <1>4, <1>5

\* insertLeft() adds the key to the group on the left of the iterator.
LEMMA InsertLeftJoins ==
    ASSUME NEW m, MapInv(m), NEW bounds, NEW gs, Lays(m, bounds, gs),
           NEW p \in 2..End(m), ~IsTag(m, p), NEW P,
           StandsFor(m, bounds, gs, p, P), P # <<1, 1>>,
           NEW k \in Key, m.index[k] = Null, Room(m),
           NEW h, h = LeftGroup(P), NEW j, j = LeftPlace(gs, P)
    PROVE  \E b2 : Lays(InsertLeftAt(m, p, k), b2,
                        [gs EXCEPT ![h].keys = InsertAt(@, j, k)])
<1> DEFINE q == IF IsTag(m, p-1) /\ p - 1 # 1 THEN p - 1 ELSE p
           r == InsertLeftAt(m, p, k)
<1>1. MapTypeOK(m) /\ Len(m.list) \in Nat /\ End(m) = Len(m.list) + 1
  BY Shape DEF MapInv, Core
<1>2. MapTypeOK(r)
  BY InsertLeftInv DEF MapInv, Core
<1>3. /\ h \in 1..Len(gs) /\ j \in 1..(Len(gs[h].keys) + 1)
      /\ q = bounds[h] + j
  BY LeftCell
<1>4. \E t \in Node \cup {Null} : r = LinkItem(m, q, k, t)
  <2>0. \A x \in 1..Len(m.list) : At(m, x).TagIt \in Node \cup {Null}
    BY <1>1, Shape DEF CellT
  <2>1. CASE IsTag(m, p-1) /\ p - 1 # 1
    <3>1. p - 2 \in 1..Len(m.list)
      BY <2>1, <1>1
    <3>2. r = LinkItem(m, p - 1, k, At(m, p-2).TagIt) /\ q = p - 1
      BY <2>1 DEF InsertLeftAt
    <3> HIDE DEF r, q
    <3> QED
      BY <3>1, <3>2, <2>0
  <2>2. CASE ~(IsTag(m, p-1) /\ p - 1 # 1)
    <3>1. p - 1 \in 1..Len(m.list)
      BY <1>1
    <3>2. r = LinkItem(m, p, k, At(m, p-1).TagIt) /\ q = p
      BY <2>2 DEF InsertLeftAt
    <3> HIDE DEF r, q
    <3> QED
      BY <3>1, <3>2, <2>0
  <2> QED
    BY <2>1, <2>2
<1>5. q \in 1..End(m)
  BY <1>1
<1> HIDE DEF r, q
<1>6. PICK t \in Node \cup {Null} : r = LinkItem(m, q, k, t)
  BY <1>4
<1>7. \E b2 : Lays(r, b2, [gs EXCEPT ![h].keys = InsertAt(@, j, k)])
  BY <1>1, <1>2, <1>3, <1>5, <1>6, LinkItemAddsKey
<1> QED
  BY <1>7 DEF r

\* The next tag from a key on, or the end, is where the next group begins.
LEMMA NextBound ==
    ASSUME NEW m, MapInv(m), NEW bounds, NEW gs, Lays(m, bounds, gs),
           NEW g \in 1..Len(gs), NEW i \in 1..Len(gs[g].keys),
           NEW q \in 1..End(m), NextTag(m, bounds[g] + i, q)
    PROVE  q = bounds[g+1]
<1> DEFINE u == bounds[g+1]
           p == bounds[g] + i
<1>1. /\ MapTypeOK(m) /\ End(m) \in Nat /\ End(m) = Len(m.list) + 1 /\ Len(m.list) \in Nat
      /\ bounds[g] \in 1..Len(m.list) /\ g + 1 \in 1..(Len(gs)+1)
      /\ \A j \in 1..(u - bounds[g] - 1) : ~IsTag(m, bounds[g] + j)
      /\ Len(gs[g].keys) = u - bounds[g] - 1
  BY LaysFacts DEF MapInv, Core, GroupHere
<1>2. u \in 1..End(m) /\ (u = End(m) \/ IsTag(m, u))
  BY <1>1, LaysFacts, BoundsAreTags
<1>3. q >= p /\ (q = End(m) \/ IsTag(m, q)) /\ \A x \in p..(q-1) : ~IsTag(m, x)
  BY DEF NextTag
<1> DEFINE t == bounds[g]
<1>4. t \in Int /\ u \in Int /\ q \in Int /\ t < p /\ p < u /\ p = t + i /\ i \in Int
  BY SMTT(30), <1>1, <1>2
<1>5. \A j \in 1..(u - t - 1) : ~IsTag(m, t + j)
  BY <1>1
<1> HIDE DEF u, p, t
<1>6. CASE q < u
  <2>1. q - t \in 1..(u - t - 1) /\ t + (q - t) = q
    BY <1>6, <1>3, <1>4
  <2>2. q # End(m)
    BY <1>6, <1>1, <1>2
  <2> QED
    BY <2>1, <2>2, <1>3, <1>5
<1>7. CASE u < q
  <2>1. u \in p..(q-1) /\ u # End(m)
    BY <1>7, <1>1, <1>2, <1>4
  <2> QED
    BY <2>1, <1>2, <1>3
<1> QED
  BY <1>4, <1>6, <1>7 DEF u

\* insertionPointerForNewList finds the beginning of the group of the iterator
\* when it is on the first key, else that of the next group.
LEMMA NewListGroup ==
    ASSUME NEW m, MapInv(m), NEW bounds, NEW gs, Lays(m, bounds, gs),
           NEW p \in 1..End(m), NEW q \in 1..End(m), NewListPos(m, p, q),
           NEW P, StandsFor(m, bounds, gs, p, P),
           NEW h, h = IF P[2] = 1 THEN P[1] ELSE P[1] + 1
    PROVE  h \in 1..(Len(gs) + 1) /\ q = bounds[h]
<1>1. /\ MapTypeOK(m) /\ Len(m.list) \in Nat /\ End(m) = Len(m.list) + 1
      /\ Len(gs) \in Nat /\ bounds[1] = 1 /\ bounds[Len(gs) + 1] = End(m)
      /\ \A g \in 1..(Len(gs) + 1) : bounds[g] \in 1..End(m)
      /\ \A g, x \in 1..(Len(gs) + 1) : g < x => bounds[g] < bounds[x]
      /\ \A g \in 1..Len(gs) : Len(gs[g].keys) \in Nat /\ IsTag(m, bounds[g])
  <2>1. MapTypeOK(m)
    BY DEF MapInv, Core
  <2>2. bounds[1] = 1 /\ bounds[Len(gs) + 1] = End(m)
        /\ \A g, x \in 1..(Len(gs) + 1) : g < x => bounds[g] < bounds[x]
    BY DEF Lays
  <2>3. /\ Len(m.list) \in Nat /\ End(m) = Len(m.list) + 1 /\ Len(gs) \in Nat
        /\ \A g \in 1..(Len(gs) + 1) : bounds[g] \in 1..End(m)
        /\ \A g \in 1..Len(gs) :
              Len(gs[g].keys) \in Nat /\ GroupHere(m, gs[g], bounds[g], bounds[g+1])
    BY <2>1, LaysFacts
  <2>4. \A g \in 1..Len(gs) : IsTag(m, bounds[g])
    BY <2>3 DEF GroupHere
  <2> QED
    BY ONLY <2>1, <2>2, <2>3, <2>4
<1> DEFINE g == P[1]
           i == P[2]
<1>2. CASE p = End(m)
  <2>1. q = End(m)
    BY <1>2 DEF NewListPos
  <2>2. ~IsTag(m, p)
    BY <1>2 DEF IsTag
  <2>3. g = Len(gs) + 1 /\ i = 1
    BY <1>2, <2>2 DEF StandsFor, SkipTagForward
  <2> QED
    BY <2>1, <2>3, <1>1
<1>3. CASE p # End(m)
  <2>0. p \in 1..Len(m.list)
    BY <1>1, <1>3
  <2>1. g \in 1..Len(gs) /\ i \in 1..Len(gs[g].keys)
        /\ SkipTagForward(m, p) = bounds[g] + i
    BY <1>3 DEF StandsFor
  <2>2. bounds[g] \in Int /\ bounds[g] >= 1 /\ i \in Int /\ i >= 1 /\ g \in 1..(Len(gs) + 1)
        /\ g + 1 \in 1..(Len(gs) + 1)
    BY SMTT(30), <2>1, <1>1
  <2>3. ASSUME NEW x \in Int, IsTag(m, x), x = bounds[g] + (i - 1) PROVE i = 1 /\ x = bounds[g]
    <3>1. i # 1 => i - 1 \in 1..Len(gs[g].keys)
      <4>1. Len(gs[g].keys) \in Nat
        BY <2>1, <1>1
      <4> QED
        BY ONLY SMTT(30), <2>1, <2>2, <4>1
    <3>2. i # 1 => ~IsTag(m, bounds[g] + (i - 1))
      BY <3>1, <2>1, KeyOfGroup
    <3> QED
      BY <2>2, <2>3, <3>2
  <2>4. CASE p = 1
    <3>1. q = 1 /\ IsTag(m, 1) /\ SkipTagForward(m, p) = 2
      BY <2>0, <2>4, <1>3, Neighbours DEF NewListPos, SkipTagForward
    <3>2. i = 1 /\ 1 = bounds[g]
      BY <3>1, <2>1, <2>2, <2>3
    <3> QED
      BY <3>1, <3>2, <2>2
  <2>5. CASE p # 1 /\ IsTag(m, p-1)
    <3>1. q = p - 1
      BY <2>5, <1>3 DEF NewListPos
    <3>2. ~IsTag(m, p)
      <4>1. p - 1 \in 1..Len(m.list) /\ (p - 1) + 1 = p
        BY <2>0, <2>5, <1>1
      <4> QED
        BY <4>1, <2>5 DEF MapInv, MapNonEmpty
    <3>3. p = bounds[g] + i
      BY <3>2, <2>1 DEF SkipTagForward
    <3>4. i = 1 /\ p - 1 = bounds[g]
      BY <3>3, <2>2, <2>3, <2>5
    <3> QED
      BY <3>1, <3>4, <2>2
  <2>6. CASE p # 1 /\ ~IsTag(m, p-1) /\ IsTag(m, p)
    <3>1. NextTag(m, p, q)
      BY <2>6, <1>3 DEF NewListPos
    <3>2. q = p
      <4>1. q >= p /\ \A x \in p..(q-1) : ~IsTag(m, x)
        BY <3>1 DEF NextTag
      <4>2. q # p => p \in p..(q-1)
        BY <4>1, <1>1, <2>0
      <4> QED
        BY <4>1, <4>2, <2>6
    <3>3. p + 1 = bounds[g] + i
      BY <2>6, <2>1 DEF SkipTagForward
    <3>4. i = 1 /\ p = bounds[g]
      BY <3>3, <2>0, <2>2, <2>3, <2>6
    <3> QED
      BY <3>2, <3>4, <2>2
  <2>7. CASE p # 1 /\ ~IsTag(m, p-1) /\ ~IsTag(m, p)
    <3>1. NextTag(m, p, q)
      BY <2>7, <1>3 DEF NewListPos
    <3>2. p = bounds[g] + i
      BY <2>7, <2>1 DEF SkipTagForward
    <3>3. i # 1
      <4>1. i = 1 => p - 1 = bounds[g]
        BY <3>2, <2>2
      <4> QED
        BY <4>1, <2>1, <2>7, <1>1
    <3>4. q = bounds[g+1]
      BY <3>1, <3>2, <2>1, NextBound
    <3> QED
      BY <3>3, <3>4, <2>2
  <2> QED
    BY <2>4, <2>5, <2>6, <2>7
<1> QED
  BY <1>2, <1>3

\* insert() adds a group of the key alone between two groups, at a new address.
LEMMA InsertAddsGroup ==
    ASSUME NEW m, MapInv(m), NEW bounds, NEW gs, Lays(m, bounds, gs),
           NEW g \in 1..(Len(gs) + 1), NEW q, q = bounds[g],
           NEW k \in Key, m.index[k] = Null, NEW v \in Val, Room2(m)
    PROVE  \E a \in Node \ Abs!AddrsIn(gs) :
              \E b2 : Lays(InsertGroup(m, q, k, v), b2,
                           InsertAt(gs, g, [addr |-> a, val |-> v, keys |-> <<k>>]))
<1>1. /\ MapTypeOK(m) /\ Len(gs) \in Nat /\ Len(m.list) \in Nat
      /\ End(m) = Len(m.list) + 1
  BY LaysFacts DEF MapInv, Core
<1> DEFINE a == NewNode(m)
<1>4. a \in Node /\ a \notin Live(m)
  BY NewNodeFresh DEF Room, Room2
<1>5. Abs!AddrsIn(gs) \subseteq Live(m)
  <2> SUFFICES ASSUME NEW x \in Abs!AddrsIn(gs) PROVE x \in Live(m)
    OBVIOUS
  <2>1. PICK h \in DOMAIN gs : x = gs[h].addr
    BY DEF Abs!AddrsIn
  <2>2. h \in 1..Len(gs)
    BY DEF Lays
  <2>3. bounds[h] \in 1..Len(m.list) /\ GroupHere(m, gs[h], bounds[h], bounds[h+1])
    BY <1>1, <2>2, LaysFacts
  <2> QED
    BY <2>1, <2>3 DEF GroupHere, Live
<1>6. \E b2 : Lays(InsertGroup(m, q, k, v), b2,
                   InsertAt(gs, g, [addr |-> a, val |-> v, keys |-> <<k>>]))
  BY InsertGroupAddsGroup
<1> HIDE DEF a
<1> QED
  BY <1>4, <1>5, <1>6

\* eraseAll() takes the group of the tag.
LEMMA EraseGroupDrops ==
    ASSUME NEW m, MapInv(m), NEW bounds, NEW gs, Lays(m, bounds, gs),
           NEW a \in 1..Len(m.list), IsTag(m, a),
           NEW b \in 1..End(m), NextTag(m, a + 1, b),
           NEW g \in 1..Len(gs), a = bounds[g]
    PROVE  \E b2 : Lays(EraseGroup(m, a, b), b2, RemoveAt(gs, g))
<1> DEFINE N == Len(m.list)
           d == b - a
           Gone == {m.list[i] : i \in a..(b-1)}
           r == EraseGroup(m, a, b)
<1>1. /\ MapTypeOK(m) /\ N \in Nat /\ End(m) = N + 1
      /\ m.list \in Seq(Node) /\ m.item \in [Node -> CellT]
      /\ \A i, j \in 1..N : m.list[i] = m.list[j] => i = j
      /\ \A i \in 1..N : m.list[i] \in Node
  BY Shape DEF MapTypeOK, MapInv, Core
<1>2. /\ b \in (a+1)..(N+1) /\ d \in 1..N
      /\ b = N + 1 \/ IsTag(m, b)
      /\ \A x \in (a+1)..(b-1) : ~IsTag(m, x)
  BY <1>1 DEF NextTag
<1>3. /\ r.list = Cut(m.list, a, b)
      /\ r.item = [n \in Node |-> IF n \in Gone THEN FreeCell ELSE m.item[n]]
  BY DEF EraseGroup
<1>4. MapTypeOK(r)
  BY EraseGroupInv DEF MapInv, Core
<1> HIDE DEF r
<1>5. /\ Len(r.list) = N - d
      /\ \A j \in 1..(a-1) : r.list[j] = m.list[j]
      /\ \A j \in a..(N-d) : r.list[j] = m.list[j+d]
  <2>1. a \in 1..(N+1) /\ b \in a..(N+1) /\ m.list \in Seq(Node)
    BY <1>1, <1>2
  <2>2. ASSUME NEW s \in Seq(Node), NEW x \in 1..(Len(s)+1), NEW y \in x..(Len(s)+1)
        PROVE  /\ Len(Cut(s, x, y)) = Len(s) - (y - x)
               /\ \A j \in 1..(x-1) : Cut(s, x, y)[j] = s[j]
               /\ \A j \in x..(Len(s) - (y - x)) : Cut(s, x, y)[j] = s[j + (y - x)]
    BY CutElements
  <2>3. /\ Len(Cut(m.list, a, b)) = N - (b - a)
        /\ \A j \in 1..(a-1) : Cut(m.list, a, b)[j] = m.list[j]
        /\ \A j \in a..(N - (b - a)) : Cut(m.list, a, b)[j] = m.list[j + (b - a)]
    BY <2>1, <2>2
  <2> QED
    BY <2>3, <1>3
<1>6. \A j \in 1..N : j \notin a..(b-1) => r.item[m.list[j]] = m.item[m.list[j]]
  BY SMTT(30), <1>1, <1>2, <1>3
<1>7. Widened(r, m, a, d)
  <2>1. End(m) = End(r) + d
    BY <1>1, <1>2, <1>5 DEF End
  <2>2. ASSUME NEW j \in 1..(a-1) PROVE SameCell(r, j, m, j)
    <3>1. j \in 1..N /\ j \notin a..(b-1)
      BY <1>1
    <3> QED
      BY <3>1, <1>5, <1>6 DEF SameCell, At
  <2>3. ASSUME NEW j \in a..Len(r.list) PROVE SameCell(r, j, m, j + d)
    <3>1. j \in a..(N-d) /\ j + d \in 1..N /\ j + d \notin a..(b-1)
      <4>1. N \in Nat /\ b \in (a+1)..(N+1) /\ Len(r.list) = N - d
        BY <1>1, <1>2, <1>5
      <4> QED
        BY ONLY <4>1, a \in 1..N, j \in a..Len(r.list)
    <3> QED
      BY <3>1, <1>5, <1>6 DEF SameCell, At
  <2> QED
    BY <2>1, <2>2, <2>3 DEF Widened
<1>8. a = bounds[g]
  OBVIOUS
<1> DEFINE u == bounds[g+1]
<1>9. /\ u \in 1..(N+1) /\ a < u
      /\ u = N + 1 \/ IsTag(m, u)
      /\ \A i \in 1..(u - a - 1) : ~IsTag(m, a + i)
  <2>1. /\ g + 1 \in 1..(Len(gs)+1) /\ a < u /\ GroupHere(m, gs[g], a, u)
        /\ u \in 1..End(m)
    BY <1>1, <1>8, LaysFacts
  <2> QED
    BY <2>1, <1>1, BoundsAreTags DEF GroupHere
<1> HIDE DEF u, N, d
<1>10. b = u
  <2>1. CASE b < u
    <3>1. b - a \in 1..(u - a - 1) /\ a + (b - a) = b /\ b # N + 1
      BY <2>1, <1>1, <1>2, <1>9
    <3> QED
      BY <3>1, <1>2, <1>9
  <2>2. CASE u < b
    <3>1. u \in (a+1)..(b-1) /\ u # N + 1
      BY <2>2, <1>1, <1>2, <1>9
    <3> QED
      BY <3>1, <1>2, <1>9
  <2> QED
    BY <2>1, <2>2, <1>1, <1>2, <1>9
<1>11. d = bounds[g+1] - a
  BY <1>10 DEF d, u
<1>12. \E b2 : Lays(r, b2, RemoveAt(gs, g))
  <2>1. /\ MapTypeOK(m) /\ MapTypeOK(r) /\ Widened(r, m, bounds[g], d)
        /\ d = bounds[g+1] - bounds[g]
    BY <1>1, <1>4, <1>7, <1>8, <1>11
  <2> QED
    BY <2>1, <1>8, LaysDropGroup
<1> QED
  BY <1>12 DEF r

\* operator[] writes the value of a group.
LEMMA AssignSetsValue ==
    ASSUME NEW m, MapInv(m), NEW bounds, NEW gs, Lays(m, bounds, gs),
           NEW k \in Key, m.index[k] # Null, NEW v \in Val,
           NEW r, r = Assigned(m, k, v)
    PROVE  \E g \in 1..Len(gs) :
              /\ k \in ToSet(gs[g].keys)
              /\ \E b2 : Lays(r, b2, [gs EXCEPT ![g].val = v])
<1> DEFINE N == Len(m.list)
<1>1. /\ MapTypeOK(m) /\ N \in Nat /\ End(m) = N + 1
      /\ m.item \in [Node -> CellT]
      /\ \A i, j \in 1..N : m.list[i] = m.list[j] => i = j
      /\ \A i \in 1..N : m.list[i] \in Node
  BY Shape DEF MapTypeOK, MapInv, Core
<1>2. MapTypeOK(r)
  BY AssignInv DEF MapInv, Core
<1>3. PICK g \in 1..Len(gs) : \E i \in 1..Len(gs[g].keys) :
          gs[g].keys[i] = k /\ Find(m, k) = bounds[g] + i
  BY PlaceOfKey
<1>4. PICK i \in 1..Len(gs[g].keys) :
          gs[g].keys[i] = k /\ Find(m, k) = bounds[g] + i
  BY <1>3
<1>5. bounds[g] + i \in 1..N /\ m.index[k] = m.list[bounds[g] + i]
  BY <1>4, KeyOfGroup
<1>6. bounds[g] \in 1..N /\ At(m, bounds[g] + i).TagIt = m.list[bounds[g]]
  <2>1. i \in 0..Len(gs[g].keys)
    BY <1>4
  <2> QED
    BY <2>1, TagOfGroup
<1> DEFINE t == bounds[g]
           n == m.list[t]
<1>7. r.list = m.list /\ r.item = [m.item EXCEPT ![n].Value = v]
  <2>1. m.item[m.index[k]].TagIt = n
    BY <1>5, <1>6 DEF At
  <2> HIDE DEF n
  <2> QED
    BY <2>1 DEF Assigned
<1> HIDE DEF t
<1>8. n \in Node /\ m.item[n] \in CellT /\ t \in 1..N
  BY <1>1, <1>6 DEF t
<1>9. r.item[n].Value = v /\ \A x \in Node : x # n => r.item[x] = m.item[x]
  BY <1>1, <1>7, <1>8 DEF CellT
<1>10. At(r, t).Value = v /\ \A j \in 1..N : j # t => At(r, j) = At(m, j)
  BY <1>1, <1>7, <1>8, <1>9 DEF At
<1>11. \E b2 : Lays(r, b2, [gs EXCEPT ![g].val = v])
  <2>1. /\ At(r, bounds[g]).Value = v /\ r.list = m.list /\ MapTypeOK(m)
        /\ \A j \in 1..Len(m.list) : j # bounds[g] => At(r, j) = At(m, j)
    BY <1>1, <1>7, <1>10 DEF t
  <2>2. Lays(r, bounds, [gs EXCEPT ![g].val = v])
    BY <2>1, <1>2, LaysAssign
  <2> QED
    BY <2>2
<1>12. k \in ToSet(gs[g].keys)
  <2>1. ToSet(gs[g].keys) = {gs[g].keys[x] : x \in 1..Len(gs[g].keys)}
    BY KeysOfGroups
  <2> QED
    BY ONLY <1>4, <2>1
<1> QED
  BY <1>11, <1>12

\* gs with the key new at the place i of the group g; with new for old anywhere.
KeyAt(gs, g, i, new) == [gs EXCEPT ![g].keys = [@ EXCEPT ![i] = new]]
Renamed(gs, old, new) ==
    [h \in DOMAIN gs |->
        [gs[h] EXCEPT !.keys = [j \in DOMAIN @ |-> IF @[j] = old THEN new ELSE @[j]]]]

\* A key renamed everywhere is renamed at its only place.
LEMMA RenamedKey ==
    ASSUME NEW m, MapInv(m), NEW bounds, NEW gs, Lays(m, bounds, gs),
           NEW g \in 1..Len(gs), NEW i \in 1..Len(gs[g].keys),
           NEW old, old = gs[g].keys[i], NEW new \in Key
    PROVE  KeyAt(gs, g, i, new) = Renamed(gs, old, new)
<1> DEFINE ren(h) == [j \in DOMAIN gs[h].keys |->
                        IF gs[h].keys[j] = old THEN new ELSE gs[h].keys[j]]
           f == [h \in DOMAIN gs |-> [gs[h] EXCEPT !.keys = ren(h)]]
           ks == [gs[g].keys EXCEPT ![i] = new]
           e == [gs EXCEPT ![g].keys = ks]
<1>1. /\ DOMAIN gs = 1..Len(gs)
      /\ \A h \in 1..Len(gs) : DOMAIN gs[h].keys = 1..Len(gs[h].keys)
  BY KeysOfGroups
<1>2. \A h \in 1..Len(gs) : gs[h] \in GroupT /\ gs[h].keys \in Seq(Key)
  <2>1. gs \in Seq(GroupT)
    BY DEF Lays
  <2>2. \A h \in 1..Len(gs) : gs[h] \in GroupT
    BY <2>1
  <2> QED
    BY <2>2 DEF GroupT
<1>3. ren(g) = ks
  <2> DEFINE s == gs[g].keys
  <2>1. DOMAIN s = 1..Len(s)
    BY <1>1
  <2>2. \A j \in DOMAIN s : s[j] = old <=> j = i
    BY <2>1, OnePlaceOfKey
  <2> HIDE DEF s
  <2>3. [j \in DOMAIN s |-> IF s[j] = old THEN new ELSE s[j]] = [s EXCEPT ![i] = new]
    BY <2>2
  <2> QED
    BY <2>3 DEF s
<1>4. ASSUME NEW h \in 1..Len(gs), h # g PROVE ren(h) = gs[h].keys
  <2> DEFINE s == gs[h].keys
  <2>1. DOMAIN s = 1..Len(s) /\ s \in Seq(Key)
    BY <1>1, <1>2
  <2>2. \A j \in DOMAIN s : s[j] # old
    BY <1>4, <2>1, OnePlaceOfKey
  <2> HIDE DEF s
  <2>3. [j \in DOMAIN s |-> s[j]] = s
    BY <2>1
  <2>4. [j \in DOMAIN s |-> IF s[j] = old THEN new ELSE s[j]] = [j \in DOMAIN s |-> s[j]]
    BY <2>2
  <2> QED
    BY <2>3, <2>4 DEF s
<1> HIDE DEF ren, ks
<1>5. ASSUME NEW h \in 1..Len(gs) PROVE f[h] = e[h]
  <2>1. CASE h = g
    <3>1. f[h] = [gs[g] EXCEPT !.keys = ks]
      BY <2>1, <1>1, <1>3
    <3> QED
      BY <2>1, <3>1, <1>1
  <2>2. CASE h # g
    <3>1. f[h] = [gs[h] EXCEPT !.keys = gs[h].keys]
      BY <2>2, <1>1, <1>4
    <3>2. [gs[h] EXCEPT !.keys = gs[h].keys] = gs[h]
      BY <1>2 DEF GroupT
    <3>3. e[h] = gs[h]
      BY <2>2, <1>1
    <3> QED
      BY <3>1, <3>2, <3>3
  <2> QED
    BY <2>1, <2>2
<1>6. f = e
  BY <1>1, <1>5
<1>7. e = KeyAt(gs, g, i, new)
  BY DEF ks, KeyAt
<1> QED
  BY <1>6, <1>7 DEF ren, Renamed

\* onRAUW() once the new key is out of the map: it takes the place of the old.
LEMMA RenameInPlace ==
    ASSUME NEW m, MapInv(m), NEW bounds, NEW gs, Lays(m, bounds, gs),
           NEW old \in Key, NEW new \in Key, old # new,
           m.index[old] # Null, m.index[new] = Null, Room(m),
           NEW m2, m2 = InsertRightAt(m, Find(m, old), new),
           NEW r, r = Erase(m2, Find(m2, old))
    PROVE  \E g \in 1..Len(gs) : \E i \in 1..Len(gs[g].keys) :
              /\ gs[g].keys[i] = old
              /\ Lays(r, bounds, KeyAt(gs, g, i, new))
<1> DEFINE N == Len(m.list)
           q == Find(m, old)
           t == At(m, q).TagIt
           m3 == SetIndex(UnlinkCell(m2, q + 1), old, Null)
<1>1. /\ MapTypeOK(m) /\ N \in Nat /\ End(m) = N + 1
  BY Shape DEF MapInv, Core
<1>2. q \in 1..N /\ ~IsTag(m, q) /\ At(m, q).Key = old /\ SkipTagForward(m, q) = q
  BY FindItem
<1>3. PICK g \in 1..Len(gs) : \E i \in 1..Len(gs[g].keys) :
          gs[g].keys[i] = old /\ q = bounds[g] + i
  BY PlaceOfKey
<1>4. PICK i \in 1..Len(gs[g].keys) : gs[g].keys[i] = old /\ q = bounds[g] + i
  BY <1>3
<1>5. m2 = LinkItem(m, q, new, t)
  BY <1>2 DEF InsertRightAt
<1>6. MapInv(m2) /\ m2.index[old] = m.index[old]
  <2>1. Find(m, old) \in 1..Len(m.list)
    BY <1>2
  <2> QED
    BY <2>1, InsertRightInv
<1> HIDE DEF q
<1>7. t \in Node \cup {Null}
  BY <1>1, <1>2, Shape DEF CellT
<1> HIDE DEF t
<1>8. Widened(m, m2, q, 1) /\ ~IsTag(m2, q) /\ At(m2, q).Key = new
  <2>1. q \in 1..End(m)
    BY <1>1, <1>2
  <2>2. MapTypeOK(m2)
    BY <1>6 DEF MapInv, Core
  <2> QED
    BY <2>1, <2>2, <1>1, <1>5, <1>7, LinkItemWidens
<1>9. /\ MapTypeOK(m2) /\ Len(m2.list) = N + 1 /\ End(m2) = N + 2
      /\ \A x, y \in 1..(N+1) : m2.list[x] = m2.list[y] => x = y
  <2>1. MapTypeOK(m2)
    BY <1>6 DEF MapInv, Core
  <2>2. End(m2) = N + 2
    BY <1>1, <1>8 DEF Widened
  <2>3. Len(m2.list) = N + 1
    BY <2>1, <2>2, <1>1, Shape
  <2> QED
    BY <2>1, <2>2, <2>3 DEF MapTypeOK
<1>10. q + 1 \in 1..Len(m2.list) /\ q \in 1..Len(m2.list) /\ q \in 1..((q+1)-1)
  BY <1>1, <1>2, <1>9
<1>11. At(m2, q + 1) = At(m, q) /\ ~IsTag(m2, q + 1)
  <2>1. SameCell(m, q, m2, q + 1)
    BY <1>1, <1>2, <1>8 DEF Widened
  <2> QED
    BY SMTT(30), <2>1, <1>1, <1>2, <1>9, <1>10, Shape DEF SameCell
<1>12. Find(m2, old) = q + 1 /\ SkipTagForward(m2, q + 1) = q + 1
  <2>1. At(m2, q + 1).Key = old
    BY <1>2, <1>11
  <2> QED
    BY <2>1, <1>6, <1>10, <1>11, KeyOfItem, SkipOnItem
<1>13. m3.list[q] # At(m2, q + 1).TagIt
  <2>1. PICK x \in 1..(q+1) : IsTag(m2, x) /\ At(m2, q + 1).TagIt = m2.list[x]
    BY <1>6, <1>10 DEF MapInv, Core, MapLinked
  <2>2. x # q /\ x \in 1..(N+1)
    BY <2>1, <1>8, <1>9, <1>10
  <2>3. m3.list[q] = m2.list[q]
    BY <1>9, <1>10, UnlinkCellAt DEF SetIndex
  <2> QED
    BY <2>1, <2>2, <2>3, <1>9, <1>10
<1>14. r = m3
  <2>1. At(m2, q + 1).Key = old
    BY <1>2, <1>11
  <2>2. (q + 1) - 1 = q
    BY <1>2
  <2> HIDE DEF m3
  <2>3. r = IF TagOrSentinel(m3, q + 1) /\ m3.list[(q+1)-1] = At(m2, q + 1).TagIt
            THEN UnlinkCell(m3, (q + 1) - 1) ELSE m3
    BY <1>12, <2>1 DEF Erase, m3
  <2> QED
    BY <2>2, <2>3, <1>13
<1>15. Widened(r, m2, q + 1, 1) /\ Len(r.list) = N
  <2>1. r.list = UnlinkCell(m2, q + 1).list /\ r.item = UnlinkCell(m2, q + 1).item
    BY <1>14 DEF SetIndex
  <2>2. Widened(r, m2, q + 1, 1) /\ Len(r.list) = Len(m2.list) - 1
    BY SMTT(30), <2>1, <1>9, <1>10, UnlinkWidens
  <2> QED
    BY <2>2, <1>1, <1>9
<1> HIDE DEF m3, N
<1>16. MapTypeOK(r)
  <2>1. Find(m2, old) \in 1..Len(m2.list)
    BY <1>10, <1>12
  <2> QED
    BY <2>1, <1>6, EraseInv DEF MapInv, Core
<1>17. End(r) = End(m)
  BY <1>1, <1>15 DEF End
<1>18. ~IsTag(r, q) /\ At(r, q).Key = new
  <2>1. SameCell(r, q, m2, q)
    BY <1>10, <1>15 DEF Widened
  <2>2. q \in 1..Len(r.list)
    BY <1>2, <1>15
  <2> QED
    BY SMTT(30), <2>1, <2>2, <1>8, <1>9, <1>10, <1>16, Shape DEF SameCell
<1>19. ASSUME NEW j \in 1..N, j # q PROVE SameCell(m, j, r, j)
  <2>1. CASE j < q
    <3>1. j \in 1..(q-1) /\ j \in 1..((q+1)-1)
      BY <2>1, <1>1, <1>2
    <3> QED
      BY <3>1, <1>8, <1>15 DEF Widened, SameCell
  <2>2. CASE j > q
    <3>1. j \in q..N /\ j \in (q+1)..N
      BY <2>2, <1>1, <1>2
    <3>2. SameCell(m, j, m2, j + 1)
      BY <3>1, <1>8 DEF Widened, N
    <3>3. SameCell(r, j, m2, j + 1)
      BY <3>1, <1>15 DEF Widened
    <3> QED
      BY <3>2, <3>3 DEF SameCell
  <2> QED
    BY <2>1, <2>2, <1>19, <1>1, <1>2
<1>20. Lays(r, bounds, KeyAt(gs, g, i, new))
  <2>1. \A j \in 1..Len(m.list) : j # q => SameCell(m, j, r, j)
    BY <1>19 DEF N
  <2>2. Lays(r, bounds, [gs EXCEPT ![g].keys = [@ EXCEPT ![i] = new]])
    BY <2>1, <1>1, <1>4, <1>16, <1>17, <1>18, LaysRenameKey
  <2> QED
    BY <2>2 DEF KeyAt
<1> QED
  BY <1>4, <1>20

\* onRAUW() gives the new key the place of the old.
LEMMA ReplaceKeyReplaces ==
    ASSUME NEW m, MapInv(m), NEW bounds, NEW gs, Lays(m, bounds, gs),
           NEW old \in Key, NEW new \in Key, old # new,
           m.index[old] # Null, Room(m), NEW w, w = Abs!Without(gs, new)
    PROVE  \E b2 : Lays(ReplaceKey(m, old, new), b2, Renamed(w, old, new))
<1> DEFINE m1 == IF m.index[new] = Null THEN m ELSE Erase(m, Find(m, new))
           m2 == InsertRightAt(m1, Find(m1, old), new)
           r == Erase(m2, Find(m2, old))
<1>1. /\ MapInv(m1) /\ m1.index[new] = Null /\ m1.index[old] # Null
      /\ Live(m1) \subseteq Live(m) /\ \E b1 : Lays(m1, b1, w)
  <2>1. CASE m.index[new] = Null
    <3>1. new \notin Abs!KeysIn(gs)
      BY <2>1, KeysOfGroups
    <3>2. w = gs
      BY <3>1 DEF Abs!Without
    <3> QED
      BY <2>1, <3>2
  <2>2. CASE m.index[new] # Null
    <3> DEFINE f == Find(m, new)
    <3>1. f \in 1..Len(m.list) /\ At(m, SkipTagForward(m, f)).Key = new
      BY <2>2, FindItem
    <3>2. m1 = Erase(m, f)
      BY <2>2
    <3> HIDE DEF f, m1
    <3>3. /\ MapInv(m1) /\ m1.index[new] = Null /\ m1.index[old] # Null
          /\ Live(m1) \subseteq Live(m)
      BY <3>1, <3>2, EraseInv
    <3>4. \E b1 : Lays(m1, b1, w)
      BY <3>1, <3>2, EraseDropsKey
    <3> QED
      BY <3>3, <3>4
  <2> QED
    BY <2>1, <2>2
<1>2. PICK b1 : Lays(m1, b1, w)
  BY <1>1
<1> HIDE DEF m1
<1>3. Room(m1)
  BY <1>1 DEF Room
<1>4. PICK g \in 1..Len(w) : \E i \in 1..Len(w[g].keys) :
          /\ w[g].keys[i] = old
          /\ Lays(r, b1, KeyAt(w, g, i, new))
  <2> HIDE DEF m2, r
  <2>1. m2 = InsertRightAt(m1, Find(m1, old), new) /\ r = Erase(m2, Find(m2, old))
    BY DEF m2, r
  <2> QED
    BY <2>1, <1>1, <1>2, <1>3, RenameInPlace
<1>5. PICK i \in 1..Len(w[g].keys) :
          /\ w[g].keys[i] = old
          /\ Lays(r, b1, KeyAt(w, g, i, new))
  BY <1>4
<1>6. KeyAt(w, g, i, new) = Renamed(w, old, new)
  BY <1>1, <1>2, <1>5, RenamedKey
<1> HIDE DEF r, m2
<1>7. Lays(r, b1, Renamed(w, old, new))
  BY <1>5, <1>6
<1>8. ReplaceKey(m, old, new) = r
  BY DEF ReplaceKey, m1, m2, r
<1> QED
  BY <1>7, <1>8

(***************************************************************************)
(* The invariant that goes with the refinement: the list lays out the      *)
(* groups it is read as.                                                   *)
(***************************************************************************)
GroupsLaid == \E bounds : Lays(Map, bounds, Groups)

\* Becoming a map that lays out gs makes gs the groups.
LEMMA BecomeLaid ==
    ASSUME NEW m, MapInv(m), BecomeInRange(m) \/ Become(m), NEW gs,
           \E b : Lays(m, b, gs)
    PROVE  Groups' = gs /\ GroupsLaid'
<1>1. /\ KeyList' = m.list /\ Item' = m.item /\ Index' = m.index
  BY DEF BecomeInRange, Become
<1>2. m = [list |-> m.list, item |-> m.item, index |-> m.index] /\ MapTypeOK(m)
  BY DEF MapInv, Core, MapTypeOK
<1>3. Map' = m
  BY <1>1, <1>2 DEF Map
<1>4. GroupsOf(m) = gs
  BY <1>2, LaysUnique
<1>5. Groups' = gs
  BY <1>3, <1>4 DEF Groups
<1> QED
  BY <1>3, <1>5 DEF GroupsLaid

\* The empty list lays out no groups.
LEMMA EmptyLaid ==
    ASSUME NEW m, MapTypeOK(m), m.list = <<>>
    PROVE  Lays(m, [g \in 1..1 |-> 1], <<>>)
<1>1. End(m) = 1 /\ <<>> \in Seq(GroupT) /\ Len(<<>>) = 0
  BY DEF End
<1> QED
  BY <1>1 DEF Lays

\* At the start there are no groups.
LEMMA InitLaid == Init => Abs!Init /\ GroupsLaid
<1> SUFFICES ASSUME Init PROVE Abs!Init /\ GroupsLaid
  OBVIOUS
<1>1. Map.list = <<>> /\ MapTypeOK(Map)
  BY InitIInv DEF Init, IInv, Map, MapInv, Core
<1> DEFINE b == [g \in 1..1 |-> 1]
<1>2. Lays(Map, b, <<>>)
  BY <1>1, EmptyLaid
<1> HIDE DEF b
<1>3. GroupsOf(Map) = <<>>
  BY <1>1, <1>2, LaysUnique
<1> QED
  BY <1>2, <1>3 DEF Abs!Init, GroupsLaid, Groups

\* PlaceOf() is the place the iterator stands for.
LEMMA PlaceOfIterator ==
    ASSUME MapInv(Map), NEW bounds, Lays(Map, bounds, Groups), NEW p \in 1..End(Map)
    PROVE  /\ StandsFor(Map, bounds, Groups, p, PlaceOf(p))
           /\ p = End(Map) => PlaceOf(p) = Abs!End
           /\ p # End(Map) =>
                 /\ PlaceOf(p) \in Abs!Places /\ PlaceOf(p) # Abs!End
                 /\ Abs!KeyAt(PlaceOf(p)) = At(Map, SkipTagForward(Map, p)).Key
<1> DEFINE q == SkipTagForward(Map, p)
           n == Len(Groups)
<1>1. /\ MapTypeOK(Map) /\ Len(Map.list) \in Nat /\ End(Map) = Len(Map.list) + 1
      /\ n \in Nat /\ DOMAIN Groups = 1..n
      /\ \A g \in 1..n : DOMAIN Groups[g].keys = 1..Len(Groups[g].keys)
  BY LaysFacts, KeysOfGroups DEF MapInv, Core
<1>2. CASE p = End(Map)
  <2>1. q = End(Map)
    BY <1>2 DEF SkipTagForward, IsTag
  <2>2. PlaceOf(p) = Abs!End
    BY <2>1 DEF PlaceOf
  <2>3. PlaceOf(p) = <<n + 1, 1>>
    BY <2>2 DEF Abs!End
  <2> QED
    BY <1>2, <2>1, <2>2, <2>3 DEF StandsFor
<1>3. CASE p # End(Map)
  <2>1. p \in 1..Len(Map.list)
    BY <1>1, <1>3
  <2>2. q \in 2..Len(Map.list) /\ ~IsTag(Map, q)
    BY <2>1, Neighbours
  <2>3. q \in 1..Len(Map.list) /\ q # End(Map)
    BY <2>2, <1>1
  <2> DEFINE K == At(Map, q).Key
             Q == CHOOSE P \in Abs!Places : Abs!KeyAt(P) = K
  <2>4. PlaceOf(p) = Q
    BY <2>3 DEF PlaceOf
  <2>5. PICK g \in 1..n : \E i \in 1..Len(Groups[g].keys) :
            q = bounds[g] + i /\ Groups[g].keys[i] = K
    BY <2>2, <2>3, PlaceOfItem
  <2>6. PICK i \in 1..Len(Groups[g].keys) :
            q = bounds[g] + i /\ Groups[g].keys[i] = K
    BY <2>5
  <2> HIDE DEF q, K
  <2>7. <<g, i>> \in Abs!Places /\ Abs!KeyAt(<<g, i>>) = K
    BY <2>6, <1>1 DEF Abs!Places, Abs!KeyAt
  <2>8. Q \in Abs!Places /\ Abs!KeyAt(Q) = K
    BY <2>7, Zenon
  <2> HIDE DEF Q
  <2>9. PICK h \in DOMAIN Groups : Q \in {h} \X DOMAIN Groups[h].keys
    BY <2>8 DEF Abs!Places
  <2>10. Q = <<Q[1], Q[2]>> /\ Q[1] \in 1..n /\ Q[2] \in 1..Len(Groups[Q[1]].keys)
    BY <2>9, <1>1
  <2>11. Groups[Q[1]].keys[Q[2]] = Groups[g].keys[i]
    BY <2>6, <2>8 DEF Abs!KeyAt
  <2>12. Q[1] = g /\ Q[2] = i
    BY <2>10, <2>11, OnePlaceOfKey
  <2>13. StandsFor(Map, bounds, Groups, p, Q)
    BY <2>3, <2>6, <2>10, <2>12, <1>3 DEF StandsFor, q
  <2>14. Q # Abs!End
    BY <2>10, <1>1 DEF Abs!End
  <2> QED
    BY <1>3, <2>4, <2>8, <2>13, <2>14 DEF K, q
<1> QED
  BY <1>2, <1>3

\* Every operation of the map is that of the collection, at its place, and
\* the list lays out the groups again.
LEMMA NextGroups ==
    IInv /\ GroupsLaid /\ [Next]_vars =>
        [EachAsPromised]_vars /\ [Abs!Next]_Groups /\ GroupsLaid'
<1> SUFFICES ASSUME IInv, GroupsLaid, [Next]_vars
             PROVE  [EachAsPromised]_vars /\ [Abs!Next]_Groups /\ GroupsLaid'
  OBVIOUS
<1>1. /\ Map.list = KeyList /\ Map.item = Item /\ Map.index = Index
      /\ Len(Map.list) \in Nat /\ End(Map) = Len(Map.list) + 1
      /\ MapInv(Map) /\ MapTypeOK(Map)
  BY Shape DEF IInv, Map, MapInv, Core
<1>2. PICK bounds : Lays(Map, bounds, Groups)
  BY DEF GroupsLaid
<1>3. /\ Len(Groups) \in Nat /\ DOMAIN Groups = 1..Len(Groups)
      /\ \A g \in 1..Len(Groups) :
            DOMAIN Groups[g].keys = 1..Len(Groups[g].keys)
      /\ \A k \in Key : k \in Abs!KeysIn(Groups) <=> Index[k] # Null
  <2>1. Len(Groups) \in Nat
    BY <1>1, <1>2, LaysFacts
  <2> QED
    BY <2>1, <1>1, <1>2, KeysOfGroups
<1>4. ASSUME NEW p \in 1..End(Map), NEW k \in Key, NEW v \in Val, Insert(p, k, v)
      PROVE  Abs!InsertGroup(PlaceOf(p), k, v) /\ GroupsLaid'
  <2>1. PICK q \in 1..End(Map) : NewListPos(Map, p, q)
                                 /\ BecomeInRange(InsertGroup(Map, q, k, v))
    BY <1>4 DEF Insert
  <2>2. q = End(Map) \/ IsTag(Map, q)
    BY <1>1, <2>1, NewListPosBoundary
  <2>3. Index[k] = Null /\ Map.index[k] = Null /\ Room2(Map)
    BY <1>1, <1>4 DEF Insert
  <2> DEFINE r == InsertGroup(Map, q, k, v)
             P == PlaceOf(p)
             g == IF P[2] = 1 THEN P[1] ELSE P[1] + 1
  <2>4. MapInv(r)
    BY <1>1, <2>2, <2>3, InsertGroupInv
  <2> HIDE DEF P
  <2>5. StandsFor(Map, bounds, Groups, p, P)
    BY <1>1, <1>2, PlaceOfIterator DEF P
  <2>6. g \in 1..(Len(Groups) + 1) /\ q = bounds[g]
    BY <1>1, <1>2, <2>1, <2>5, NewListGroup
  <2> HIDE DEF g
  <2>7. PICK a \in Node \ Abs!AddrsIn(Groups) :
            \E b2 : Lays(r, b2, InsertAt(Groups, g, [addr |-> a, val |-> v, keys |-> <<k>>]))
    BY <1>1, <1>2, <2>3, <2>6, InsertAddsGroup
  <2> DEFINE gs == InsertAt(Groups, g, [addr |-> a, val |-> v, keys |-> <<k>>])
  <2>8. BecomeInRange(r)
    BY <2>1
  <2> HIDE DEF r
  <2>9. Groups' = gs /\ GroupsLaid'
    <3> HIDE DEF gs
    <3>1. \E b2 : Lays(r, b2, gs)
      BY <2>7 DEF gs
    <3> QED
      BY <3>1, <2>4, <2>8, BecomeLaid
  <2>10. Groups' = Abs!InsertAt(Groups, g, [addr |-> a, val |-> v, keys |-> <<k>>])
    BY <2>9, SameOperators
  <2>11. k \notin Abs!KeysIn(Groups)
    BY <2>3, <1>3
  <2>12. Abs!InsertGroup(P, k, v)
    BY <2>10, <2>11 DEF Abs!InsertGroup, g
  <2> QED
    BY <2>9, <2>12 DEF P
<1>5. ASSUME NEW k \in Key, NEW r, Index[k] = Null, MapInv(r), BecomeInRange(r),
             NEW g, NEW i,
             \E b2 : Lays(r, b2, [Groups EXCEPT ![g].keys = InsertAt(@, i, k)])
      PROVE  Abs!Join(g, i, k) /\ GroupsLaid'
  <2>1. Groups' = [Groups EXCEPT ![g].keys = InsertAt(@, i, k)] /\ GroupsLaid'
    BY <1>5, BecomeLaid
  <2>2. Groups' = [Groups EXCEPT ![g].keys = Abs!InsertAt(@, i, k)]
    BY <2>1, SameOperators
  <2>3. k \notin Abs!KeysIn(Groups)
    BY <1>3, <1>5
  <2> QED
    BY <2>1, <2>2, <2>3 DEF Abs!Join
<1>6. ASSUME NEW p \in 1..End(Map), NEW k \in Key, InsertRight(p, k)
      PROVE  Abs!InsertRight(PlaceOf(p), k) /\ GroupsLaid'
  <2> DEFINE r == InsertRightAt(Map, p, k)
             P == PlaceOf(p)
  <2>1. /\ p \in 1..Len(Map.list) /\ Index[k] = Null /\ Map.index[k] = Null
        /\ Room(Map) /\ BecomeInRange(r) /\ p # End(Map)
    BY <1>1, <1>6 DEF InsertRight
  <2>2. MapInv(r)
    BY <1>1, <2>1, InsertRightInv
  <2> HIDE DEF P
  <2>3. P # Abs!End /\ StandsFor(Map, bounds, Groups, p, P)
    BY <1>1, <1>2, <2>1, PlaceOfIterator DEF P
  <2>4. /\ P[1] \in 1..Len(Groups) /\ P[2] \in 1..Len(Groups[P[1]].keys)
        /\ SkipTagForward(Map, p) = bounds[P[1]] + P[2]
    BY <2>1, <2>3 DEF StandsFor
  <2>5. \E b2 : Lays(r, b2, [Groups EXCEPT ![P[1]].keys = InsertAt(@, P[2], k)])
    BY <1>1, <1>2, <2>1, <2>4, InsertRightJoins
  <2> HIDE DEF r
  <2>6. Abs!Join(P[1], P[2], k) /\ GroupsLaid'
    BY <2>1, <2>2, <2>5, <1>5
  <2> QED
    BY <2>3, <2>6 DEF Abs!InsertRight, P
<1>7. ASSUME NEW p0 \in 1..End(Map), NEW k \in Key, InsertLeft(p0, k)
      PROVE  Abs!InsertLeft(PlaceOf(p0), k) /\ GroupsLaid'
  <2> DEFINE p == SkipTagForward(Map, p0)
             r == InsertLeftAt(Map, p, k)
             P == PlaceOf(p0)
  <2>1. p \in 2..End(Map)
    BY <1>1, <1>7, LeftOfStart DEF InsertLeft
  <2>2. /\ Index[k] = Null /\ Map.index[k] = Null /\ Room(Map) /\ BecomeInRange(r)
        /\ p # SkipTagForward(Map, 1)
    BY <1>1, <1>7 DEF InsertLeft
  <2>3. ~IsTag(Map, p) /\ SkipTagForward(Map, p) = p /\ (p = End(Map) <=> p0 = End(Map))
    <3>1. CASE p0 = End(Map)
      BY <3>1 DEF SkipTagForward, IsTag
    <3>2. CASE p0 # End(Map)
      <4>1. p0 \in 1..Len(Map.list)
        BY <3>2, <1>1
      <4>2. p \in 2..Len(Map.list) /\ ~IsTag(Map, p)
        BY <4>1, <1>1, Neighbours
      <4> HIDE DEF p
      <4> QED
        BY <4>2, <3>2, <1>1 DEF SkipTagForward
    <3> QED
      BY <3>1, <3>2
  <2> HIDE DEF P
  <2>4. StandsFor(Map, bounds, Groups, p, P)
    <3>1. StandsFor(Map, bounds, Groups, p0, P)
      BY <1>1, <1>2, PlaceOfIterator DEF P
    <3> QED
      BY <3>1, <2>3 DEF StandsFor
  <2>5. P # <<1, 1>>
    <3> SUFFICES ASSUME P = <<1, 1>> PROVE FALSE
      OBVIOUS
    <3>1. P[1] = 1 /\ P[2] = 1
      OBVIOUS
    <3>2. bounds[1] = 1
      BY <1>2 DEF Lays
    <3>3. CASE p = End(Map)
      <4>1. Len(Groups) = 0 /\ bounds[Len(Groups) + 1] = End(Map)
        BY <3>1, <3>3, <2>3, <2>4, <1>2, <1>3 DEF StandsFor, Lays
      <4> QED
        BY <4>1, <3>2, <3>3, <2>1
    <3>4. CASE p # End(Map)
      <4>1. p = 2 /\ 1 \in 1..Len(Map.list)
        BY <3>1, <3>2, <3>4, <2>3, <2>4, <1>1, <2>1 DEF StandsFor
      <4>2. IsTag(Map, 1)
        BY <4>1, <1>1, Neighbours
      <4>3. SkipTagForward(Map, 1) = 2
        BY <4>2 DEF SkipTagForward
      <4> QED
        BY <4>1, <4>3, <2>2
    <3> QED
      BY <3>3, <3>4
  <2> HIDE DEF p
  <2>6. MapInv(r)
    BY <1>1, <2>1, <2>2, InsertLeftInv
  <2> DEFINE h == LeftGroup(P)
             j == LeftPlace(Groups, P)
  <2>7. \E b2 : Lays(r, b2, [Groups EXCEPT ![h].keys = InsertAt(@, j, k)])
    BY <1>1, <1>2, <2>1, <2>2, <2>3, <2>4, <2>5, InsertLeftJoins
  <2> HIDE DEF r, h, j
  <2>8. Abs!Join(h, j, k) /\ GroupsLaid'
    BY <2>2, <2>6, <2>7, <1>5
  <2>9. Abs!InsertLeft(P, k)
    BY <2>5, <2>8 DEF Abs!InsertLeft, Abs!Begin, h, j, LeftGroup, LeftPlace
  <2> QED
    BY <2>8, <2>9 DEF P
<1>8. ASSUME NEW p \in 1..Len(Map.list), Become(Erase(Map, p)),
             NEW k, k = At(Map, SkipTagForward(Map, p)).Key
      PROVE  k \in Key /\ Abs!RemoveKey(k) /\ GroupsLaid'
  <2> DEFINE r == Erase(Map, p)
  <2>1. MapInv(r)
    BY <1>1, EraseInv
  <2>2. /\ \E b2 : Lays(r, b2, Abs!Without(Groups, k))
        /\ k \in Key /\ Map.index[k] # Null
    BY <1>1, <1>2, <1>8, EraseDropsKey
  <2>3. Become(r)
    BY <1>8
  <2> HIDE DEF r
  <2>4. Groups' = Abs!Without(Groups, k) /\ GroupsLaid'
    BY <2>1, <2>2, <2>3, BecomeLaid
  <2>5. k \in Abs!KeysIn(Groups)
    BY <2>2, <1>1, <1>3
  <2> QED
    BY <2>2, <2>4, <2>5 DEF Abs!RemoveKey
<1>9. ASSUME NEW p \in 1..Len(KeyList), EraseAt(p)
      PROVE  /\ Abs!KeyAt(PlaceOf(p)) \in Key
             /\ Abs!RemoveKey(Abs!KeyAt(PlaceOf(p))) /\ GroupsLaid'
  <2>1. p \in 1..Len(Map.list) /\ p \in 1..End(Map) /\ p # End(Map) /\ Become(Erase(Map, p))
    BY <1>1, <1>9 DEF EraseAt
  <2>2. Abs!KeyAt(PlaceOf(p)) = At(Map, SkipTagForward(Map, p)).Key
    BY <2>1, <1>1, <1>2, PlaceOfIterator
  <2> QED
    BY <2>1, <2>2, <1>8
<1>10. ASSUME NEW k \in Key, Delete(k)
       PROVE  Abs!RemoveKey(k) /\ GroupsLaid'
  <2>1. /\ Find(Map, k) \in 1..Len(Map.list) /\ Become(Erase(Map, Find(Map, k)))
        /\ At(Map, SkipTagForward(Map, Find(Map, k))).Key = k
    BY <1>1, <1>10, FindItem DEF Delete
  <2> QED
    BY <2>1, <1>8
<1>11. ASSUME NEW p \in 1..Len(KeyList), EraseAll(p)
       PROVE  /\ PlaceOf(p) \in Abs!Places
              /\ Abs!RemoveGroup(PlaceOf(p)) /\ GroupsLaid'
  <2>1. p \in 1..Len(Map.list) /\ p # End(Map) /\ p \in 1..End(Map)
    BY <1>1, <1>11 DEF EraseAll
  <2>2. PICK a \in 1..Len(KeyList), b \in 1..End(Map) :
            /\ KeyList[a] = At(Map, p).TagIt
            /\ NextTag(Map, a + 1, b)
            /\ Become(EraseGroup(Map, a, b))
    BY <1>11 DEF EraseAll
  <2>3. IsTag(Map, a) /\ a \in 1..Len(Map.list)
    <3>1. PICK t \in 1..p : IsTag(Map, t) /\ At(Map, p).TagIt = Map.list[t]
      BY <1>1, <2>1 DEF MapInv, Core, MapLinked
    <3>2. t \in 1..Len(Map.list) /\ Map.list[a] = Map.list[t]
      BY <2>1, <2>2, <3>1, <1>1
    <3>3. a = t
      BY <3>2, <1>1 DEF MapTypeOK
    <3> QED
      BY <3>1, <3>2, <3>3
  <2> DEFINE P == PlaceOf(p)
             g == P[1]
             i == P[2]
  <2>4. P \in Abs!Places /\ P # Abs!End /\ StandsFor(Map, bounds, Groups, p, P)
    BY <1>1, <1>2, <2>1, PlaceOfIterator
  <2> HIDE DEF P
  <2>5. g \in 1..Len(Groups) /\ i \in 1..Len(Groups[g].keys)
        /\ SkipTagForward(Map, p) = bounds[g] + i
    BY <2>1, <2>4 DEF StandsFor
  <2>6. Len(Groups[g].keys) \in Nat /\ bounds[g] \in 1..Len(Map.list)
    BY <2>5, <1>1, <1>2, LaysFacts
  <2>7. a = bounds[g]
    <3>1. \E x \in 0..Len(Groups[g].keys) : p = bounds[g] + x
      <4>1. i - 1 \in 0..Len(Groups[g].keys) /\ i \in 0..Len(Groups[g].keys)
        BY SMTT(30), <2>5, <2>6
      <4>2. CASE IsTag(Map, p)
        <5>1. p + 1 = bounds[g] + i
          BY <4>2, <2>5 DEF SkipTagForward
        <5>2. p = bounds[g] + (i - 1)
          BY SMTT(30), <5>1, <4>1, <2>1, <2>6
        <5> QED
          BY <5>2, <4>1
      <4>3. CASE ~IsTag(Map, p)
        BY <4>1, <4>3, <2>5 DEF SkipTagForward
      <4> QED
        BY <4>2, <4>3
    <3>2. At(Map, p).TagIt = Map.list[bounds[g]]
      <4>1. PICK x \in 0..Len(Groups[g].keys) : p = bounds[g] + x
        BY <3>1
      <4>2. ASSUME NEW h \in 1..Len(Groups), NEW y \in 0..Len(Groups[h].keys)
            PROVE  At(Map, bounds[h] + y).TagIt = Map.list[bounds[h]]
        <5>1. MapInv(Map)
          BY <1>1
        <5> QED
          BY ONLY <5>1, <1>2, TagOfGroup, h \in 1..Len(Groups), y \in 0..Len(Groups[h].keys)
      <4>3. At(Map, bounds[g] + x).TagIt = Map.list[bounds[g]]
        BY ONLY <2>5, <4>2, x \in 0..Len(Groups[g].keys)
      <4> QED
        BY <4>1, <4>3
    <3>3. Map.list[a] = Map.list[bounds[g]]
      BY <3>2, <2>2, <1>1
    <3> QED
      BY <3>3, <2>3, <2>6, <1>1 DEF MapTypeOK
  <2> DEFINE r == EraseGroup(Map, a, b)
  <2>8. MapInv(r)
    BY <1>1, <2>2, <2>3, EraseGroupInv
  <2>9. \E b2 : Lays(r, b2, RemoveAt(Groups, g))
    BY <1>1, <1>2, <2>2, <2>3, <2>5, <2>7, EraseGroupDrops
  <2>10. Become(r)
    BY <2>2
  <2> HIDE DEF r
  <2>11. Groups' = RemoveAt(Groups, g) /\ GroupsLaid'
    BY <2>8, <2>9, <2>10, BecomeLaid
  <2>12. Groups' = Abs!RemoveAt(Groups, g)
    BY <2>11, SameOperators
  <2>13. Abs!RemoveGroup(P)
    BY <2>4, <2>12 DEF Abs!RemoveGroup
  <2> QED
    BY <2>4, <2>11, <2>13 DEF P
<1>12. ASSUME NEW k \in Key, NEW v \in Val, Assign(k, v)
       PROVE  Abs!Assign(k, v) /\ GroupsLaid'
  <2> DEFINE r == [list |-> KeyList,
                   item |-> [Item EXCEPT ![Item[Index[k]].TagIt].Value = v],
                   index |-> Index]
  <2>1. r = Assigned(Map, k, v)
    BY <1>1 DEF Assigned
  <2>2. Map.index[k] # Null
    BY <1>1, <1>12 DEF Assign
  <2>3. Become(r)
    BY <1>12 DEF Assign, Become
  <2> HIDE DEF r
  <2>4. MapInv(r)
    BY <1>1, <2>1, <2>2, AssignInv
  <2>5. PICK g \in 1..Len(Groups) :
            /\ k \in ToSet(Groups[g].keys)
            /\ \E b2 : Lays(r, b2, [Groups EXCEPT ![g].val = v])
    BY <1>1, <1>2, <2>1, <2>2, AssignSetsValue
  <2>6. Groups' = [Groups EXCEPT ![g].val = v] /\ GroupsLaid'
    BY <2>3, <2>4, <2>5, BecomeLaid
  <2>7. k \in Abs!ToSet(Groups[g].keys)
    BY <2>5, SameOperators
  <2> QED
    BY <2>6, <2>7, <1>3 DEF Abs!Assign
<1>13. ASSUME NEW old \in Key, NEW new \in Key, Rauw(old, new)
       PROVE  Abs!Replace(old, new) /\ GroupsLaid'
  <2> DEFINE r == ReplaceKey(Map, old, new)
             w == Abs!Without(Groups, new)
  <2>1. old # new /\ Index[old] # Null /\ Map.index[old] # Null /\ Room(Map)
        /\ BecomeInRange(r)
    BY <1>1, <1>13 DEF Rauw
  <2>2. MapInv(r)
    BY <1>1, <2>1, ReplaceKeyInv
  <2>3. \E b2 : Lays(r, b2, Renamed(w, old, new))
    <3> HIDE DEF w
    <3>1. w = Abs!Without(Groups, new)
      BY DEF w
    <3> QED
      BY <3>1, <1>1, <1>2, <2>1, ReplaceKeyReplaces
  <2> HIDE DEF r
  <2>4. Groups' = Renamed(w, old, new) /\ GroupsLaid'
    <3> HIDE DEF w
    <3> QED
      BY <2>1, <2>2, <2>3, BecomeLaid
  <2>5. old \in Abs!KeysIn(Groups)
    BY <2>1, <1>3
  <2> QED
    BY <2>1, <2>4, <2>5 DEF Abs!Replace, Renamed
<1>14. ASSUME Clear PROVE Abs!Clear /\ GroupsLaid'
  <2> DEFINE r == [list |-> <<>>, item |-> [n \in Node |-> FreeCell],
                   index |-> [k \in Key |-> Null]]
             b == [g \in 1..1 |-> 1]
  <2>1. Become(r)
    BY <1>14 DEF Clear, Become
  <2>2. MapInv(r) /\ r.list = <<>>
    BY EmptyInv
  <2> HIDE DEF r
  <2>3. Lays(r, b, <<>>)
    BY <2>2, EmptyLaid DEF MapInv, Core
  <2> HIDE DEF b
  <2>4. Groups' = <<>> /\ GroupsLaid'
    BY <2>1, <2>2, <2>3, BecomeLaid
  <2> QED
    BY <2>4 DEF Abs!Clear
<1>15. EachAsPromised
  BY <1>4, <1>6, <1>7, <1>9, <1>10, <1>11, <1>12, <1>13, <1>14 DEF EachAsPromised
<1>16. \A p \in 1..End(Map) : PlaceOf(p) \in Abs!Places \cup {Abs!End}
  BY <1>1, <1>2, PlaceOfIterator
<1>17. ASSUME NEW p \in 1..End(Map), EraseAt(p) \/ EraseAll(p) PROVE p \in 1..Len(KeyList)
  BY <1>1, <1>17 DEF EraseAt, EraseAll
<1>18. CASE UNCHANGED vars
  <2>1. Map' = Map
    BY <1>18 DEF vars, Map
  <2>2. Groups' = Groups
    BY <2>1 DEF Groups
  <2> QED
    BY <1>18, <2>1, <2>2 DEF GroupsLaid
<1>19. CASE \E p \in 1..End(Map) :
               \/ \E k \in Key : \/ \E v \in Val : Insert(p, k, v)
                                 \/ InsertRight(p, k)
                                 \/ InsertLeft(p, k)
               \/ EraseAt(p)
               \/ EraseAll(p)
  <2>1. PICK p \in 1..End(Map) :
               \/ \E k \in Key : \/ \E v \in Val : Insert(p, k, v)
                                 \/ InsertRight(p, k)
                                 \/ InsertLeft(p, k)
               \/ EraseAt(p)
               \/ EraseAll(p)
    BY <1>19
  <2>2. PlaceOf(p) \in Abs!Places \cup {Abs!End}
    BY <1>16
  <2>3. CASE \E k \in Key : \E v \in Val : Insert(p, k, v)
    BY <2>2, <2>3, <1>4, <1>15 DEF Abs!Next
  <2>4. CASE \E k \in Key : InsertRight(p, k)
    BY <2>2, <2>4, <1>6, <1>15 DEF Abs!Next
  <2>5. CASE \E k \in Key : InsertLeft(p, k)
    BY <2>2, <2>5, <1>7, <1>15 DEF Abs!Next
  <2>6. CASE EraseAt(p)
    BY <2>6, <1>9, <1>15, <1>17 DEF Abs!Next
  <2>7. CASE EraseAll(p)
    BY <2>2, <2>7, <1>11, <1>15, <1>17 DEF Abs!Next
  <2> QED
    BY <2>1, <2>3, <2>4, <2>5, <2>6, <2>7
<1>20. CASE \E k \in Key : \/ \E v \in Val : Assign(k, v)
                           \/ Delete(k)
                           \/ \E new \in Key : Rauw(k, new)
  BY <1>20, <1>10, <1>12, <1>13, <1>15 DEF Abs!Next
<1>21. CASE Clear
  BY <1>21, <1>14, <1>15 DEF Abs!Next
<1> QED
  BY <1>18, <1>19, <1>20, <1>21 DEF Next

(***************************************************************************)
(* ... and the list of tags and items, whatever the bookkeeping of its     *)
(* TagIt and Index, implements the ordered groups of keys that the header  *)
(* promises, operation for operation.                                      *)
(***************************************************************************)
THEOREM ImplementsGroups == Spec => ImplementsOrderedGroups /\ Abs!Spec
<1>1. Init => IInv /\ GroupsLaid /\ Abs!Init
  BY InitIInv, InitLaid
<1>2. IInv /\ GroupsLaid /\ [Next]_vars =>
          IInv' /\ GroupsLaid' /\ [EachAsPromised]_vars /\ [Abs!Next]_Groups
  BY NextIInv, NextGroups
<1> QED
  BY <1>1, <1>2, PTL DEF Spec, ImplementsOrderedGroups, Abs!Spec
=============================================================================
