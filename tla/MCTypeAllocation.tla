--------------------------- MODULE MCTypeAllocation ---------------------------
(* TypeAllocation on small programs, for TLC: seven data-flow graphs of   *)
(* four values.                                                            *)
EXTENDS TypeAllocation, TLC

Between(lo, hi) == [lo |-> lo, hi |-> hi, finite |-> TRUE]

\* Bounds in quarters.  The types of the first four are similar, at least in
\* pairs; of the others two leave no bits behind the point, and 0 has no logarithm.
Unbounded == [lo |-> -1, hi |-> 0, finite |-> FALSE]
Similar == {Unbounded, Between(0, 8), Between(-9, 4), Between(2, 20)}
Apart == {Between(0, 1000), Between(-500, 500), Between(0, 0)}

Scalars == [v \in Value |-> "scalar"]
Graph(users, kind, bare, disabled, args, calls) ==
    [users |-> users, kind |-> kind, bare |-> bare, enabled |-> Value \ disabled,
     args |-> args, calls |-> calls]

Graphs ==
    { \* a value used twice and in two ways
      Graph(<<<<3, 2>>, <<4, 4>>, <<4>>, <<>>>>, Scalars, {}, {}, {}, {}),
      \* a loop: 2 is a phi node of 1 and 3, without a range
      Graph(<<<<2>>, <<3>>, <<4, 2>>, <<>>>>, Scalars, {2}, {}, {}, {}),
      \* 1 is a pointer, 2 loads from it, 3 is a struct, 4 is not converted
      Graph(<<<<2, 3>>, <<4>>, <<2>>, <<>>>>,
            [Scalars EXCEPT ![1] = "pointer", ![3] = "struct"], {2}, {4}, {}, {}),
      \* 1 is passed for the formal argument 2
      Graph(<<<<4>>, <<3>>, <<>>, <<>>>>, Scalars, {}, {}, {2}, {<<1, 2>>}),
      \* so is 1 here, an argument of a function that is not called
      Graph(<<<<4>>, <<3>>, <<>>, <<>>>>, Scalars, {}, {}, {1, 2}, {<<1, 2>>}),
      \* 1 and 4 are passed for 2
      Graph(<<<<3>>, <<3>>, <<>>, <<3>>>>, Scalars, {}, {}, {2}, {<<1, 2>>, <<4, 2>>}),
      \* 1 is passed for 2, and 2 for 3
      Graph(<<<<4>>, <<4>>, <<4>>, <<>>>>, Scalars, {}, {}, {2, 3}, {<<1, 2>>, <<2, 3>>}) }

SmallPrograms ==
    UNION {{[order |-> o, users |-> g.users, kind |-> g.kind,
             enabled |-> g.enabled, args |-> g.args, calls |-> g.calls,
             range |-> [v \in Value |-> IF v \in g.bare THEN NoRange ELSE r[v]]] :
              g \in Graphs, o \in {<<1, 2, 3, 4>>, <<4, 2, 3, 1>>}} :
           r \in [Value -> Similar] \cup [Value -> Apart]}
=============================================================================
