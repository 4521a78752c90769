---------------------------- MODULE OrderedGroups ----------------------------
(***************************************************************************)
(* What MultiValueMap promises to its clients: an ordered collection of    *)
(* groups of keys.  A group maps its keys to one value, kept at an address *)
(* that never changes, and a key is in at most one group.  Operations      *)
(* insert and remove keys and groups and never move the others.            *)
(*                                                                         *)
(* An iterator is a place <<g, i>>: it points at the key i of the group g, *)
(* between that key and the one in front of it, or is the End.             *)
(***************************************************************************)
EXTENDS Integers, Sequences, SequencesExt

CONSTANTS
    Key,    \* the keys
    Val,    \* the mapped values
    Addr    \* where a group keeps its value

VARIABLE groups     \* a sequence of [addr, val, keys], keys a sequence

KeysIn(gs) == UNION {ToSet(gs[g].keys) : g \in DOMAIN gs}
AddrsIn(gs) == {gs[g].addr : g \in DOMAIN gs}

Places == UNION {{g} \X DOMAIN groups[g].keys : g \in DOMAIN groups}
KeyAt(P) == groups[P[1]].keys[P[2]]

Begin == <<1, 1>>
End == <<Len(groups) + 1, 1>>

\* gs without the key k, and without its group when k was alone there.
Without(gs, k) ==
    IF k \notin KeysIn(gs) THEN gs
    ELSE LET g == CHOOSE h \in DOMAIN gs : k \in ToSet(gs[h].keys)
             i == CHOOSE j \in DOMAIN gs[g].keys : gs[g].keys[j] = k
         IN  IF Len(gs[g].keys) = 1 THEN RemoveAt(gs, g)
             ELSE [gs EXCEPT ![g].keys = RemoveAt(@, i)]

Init == groups = <<>>

\* A new group, in front of the group that begins at P or behind P's group.
InsertGroup(P, k, v) ==
    /\ k \notin KeysIn(groups)
    /\ \E a \in Addr \ AddrsIn(groups) :
          groups' = InsertAt(groups, IF P[2] = 1 THEN P[1] ELSE P[1] + 1,
                             [addr |-> a, val |-> v, keys |-> <<k>>])

\* The key k becomes the key i of the group g.
Join(g, i, k) ==
    /\ k \notin KeysIn(groups)
    /\ groups' = [groups EXCEPT ![g].keys = InsertAt(@, i, k)]

\* Between two groups the key joins the group on the right ...
InsertRight(P, k) ==
    /\ P # End
    /\ Join(P[1], P[2], k)

\* ... or the one on the left.
InsertLeft(P, k) ==
    /\ P # Begin
    /\ IF P[2] = 1 THEN Join(P[1] - 1, Len(groups[P[1] - 1].keys) + 1, k)
                   ELSE Join(P[1], P[2], k)

RemoveKey(k) ==
    /\ k \in KeysIn(groups)
    /\ groups' = Without(groups, k)

RemoveGroup(P) ==
    /\ P # End
    /\ groups' = RemoveAt(groups, P[1])

\* v becomes the value of k's group.
Assign(k, v) ==
    \E g \in DOMAIN groups :
        k \in ToSet(groups[g].keys) /\ groups' = [groups EXCEPT ![g].val = v]

\* new takes the place of old; where new was before, it leaves.
Replace(old, new) ==
    LET gs == Without(groups, new)
        Rename(k) == IF k = old THEN new ELSE k
    IN  /\ old # new /\ old \in KeysIn(groups)
        /\ groups' = [g \in DOMAIN gs |->
              [gs[g] EXCEPT !.keys = [i \in DOMAIN @ |-> Rename(@[i])]]]

Clear == groups' = <<>>

Next ==
    \/ \E P \in Places \cup {End} :
          \/ \E k \in Key : \/ \E v \in Val : InsertGroup(P, k, v)
                            \/ InsertRight(P, k)
                            \/ InsertLeft(P, k)
          \/ RemoveGroup(P)
    \/ \E k \in Key : \/ RemoveKey(k)
                      \/ \E v \in Val : Assign(k, v)
                      \/ \E new \in Key : Replace(k, new)
    \/ Clear

Spec == Init /\ [][Next]_groups
=============================================================================
