-------------------------- MODULE MCConversionQueue --------------------------
(* ConversionQueue on small programs, for TLC: five values with up to two  *)
(* operands each, in the order of their definition.                        *)
EXTENDS ConversionQueue, TLC

\* The sets of at most two values below v as sequences.
Operands(v) ==
    {<<>>} \cup {<<u>> : u \in 1..(v-1)}
    \cup UNION {{<<t, u>> : t \in 1..(u-1)} : u \in 1..(v-1)}

\* Value 4 may use value 5, as the phi node at the head of a loop does.
\* Values without operands, like constants, are used.
Graphs ==
    {g \in {<<<<>>>> \o o : o \in Operands(2) \X Operands(3)
                                 \X (Operands(4) \cup {<<1, 5>>, <<3, 5>>}) \X Operands(5)} :
        \A v \in 2..5 : g[v] = <<>> => \E u \in Value : v \in ToSet(g[u])}

\* The use lists, newest user first, as the front end leaves them, or the
\* other way round.
UseLists(ops) ==
    {[v \in Value |-> SelectSeq(order, LAMBDA u : v \in ToSet(ops[u]))] :
        order \in {<<5, 4, 3, 2, 1>>, <<1, 2, 3, 4, 5>>}}

\* The special kinds of value: a phi node, an address, a store.
Kinds == {[phi |-> {}, gep |-> {}, malloc |-> {}],
          [phi |-> {}, gep |-> {4}, malloc |-> {}],
          [phi |-> {4}, gep |-> {2}, malloc |-> {5}],
          [phi |-> {4}, gep |-> {2}, malloc |-> {}]}

\* They are not constants, nothing uses a store, and only a phi node uses a
\* later value.
Fits(k, ops) ==
    /\ \A v \in k.phi \cup k.gep \cup k.malloc : ops[v] # <<>>
    /\ \A v \in Value : ToSet(ops[v]) \cap k.malloc = {}
    /\ 5 \in ToSet(ops[4]) => 4 \in k.phi

\* Values 1 and 3 are annotated, both with backtracking or neither, 1 not to
\* be converted.
SmallPrograms ==
    UNION {{[ops |-> ops, users |-> us, phi |-> k.phi, gep |-> k.gep, malloc |-> k.malloc,
             roots |-> rs, depth |-> (1 :> 2 * d @@ 3 :> d), off |-> {1}] :
              us \in UseLists(ops), k \in {k \in Kinds : Fits(k, ops)},
              rs \in {<<1, 3>>, <<3, 1>>}, d \in {0, 1}} :
           ops \in Graphs}

\* float a __attribute((annotate("backtracking scalar()"))), and b scalar():
\* a = b * c
ProductPrograms ==
    {[ops |-> <<<<>>, <<>>, <<>>, <<2, 3>>, <<4, 1>>>>,
      users |-> <<<<5>>, <<4>>, <<4>>, <<5>>, <<>>>>, phi |-> {}, gep |-> {},
      malloc |-> {}, roots |-> <<1, 2>>, depth |-> <<4, 0>>, off |-> {}]}

ASSUME MCAssumption == ShallowAnnotations
=============================================================================
