--------------------------- MODULE MCFloatToFixed ---------------------------
(* FloatToFixed for TLC: every program of a few values, with every set of   *)
(* metadata the data type allocation may leave, read in two orders.         *)
EXTENDS FloatToFixed, TLC

\* The instructions that each place of a program may have.
Slots ==
    <<{"alloca"}, {"gep", "call", "fixcall"}, {"load", "phi", "store"}, {"load", "op", "phi"},
      {"store", "fixcall"}, {"ret"}>>
Size == Len(Slots)
MCValue == 1..Size

\* One enumeration of each set, ascending, and its reverse.
Ascending(S) == SetToSortSeq(S, LAMBDA a, b : a < b)
TwoOrders == [S \in SUBSET MCValue |-> {Ascending(S), Reverse(Ascending(S))}]

-----------------------------------------------------------------------------
\* Programs as sequences of instructions.  Operands come first, but for those
\* of phi nodes.
FloatKinds == {"load", "op", "phi", "call", "fixcall"}
Floats(p) == {v \in DOMAIN p : p[v].kind \in FloatKinds}
Pointers(p) == {v \in DOMAIN p : p[v].kind \in {"alloca", "gep"}}

\* The operands of an instruction that follows the instructions p.
OperandsOf(kind, p) ==
    LET floats == Floats(p)
        later == {w \in DOMAIN Slots : w > Len(p) + 1 /\ Slots[w] \cap FloatKinds # {}}
    IN  CASE kind = "alloca" -> {<<>>}
          [] kind \in {"gep", "load"} -> {<<a>> : a \in Pointers(p)}
          [] kind = "store" -> {<<x, a>> : x \in floats \cup {Const}, a \in Pointers(p)}
          [] kind = "op" -> {<<x, Const>> : x \in floats}
                            \cup {o \in floats \X floats : o[1] > o[2]}
          [] kind = "phi" -> {<<Const, y>> : y \in later} \cup (floats \X later)
                             \cup {o \in floats \X floats : o[1] < o[2]}
          [] kind = "call" -> {<<x>> : x \in floats \cup {Const}}
          [] kind = "fixcall" -> {<<x>> : x \in floats \cup Pointers(p)}
          [] kind = "ret" -> {<<x>> : x \in floats}

Longer(p) ==
    UNION {{Append(p, [kind |-> k, ops |-> o]) : o \in OperandsOf(k, p)} : k \in Slots[Len(p) + 1]}
Grown[n \in 0..Size] == IF n = 0 THEN {<<>>} ELSE UNION {Longer(p) : p \in Grown[n - 1]}

IsUsed(p, v) == \E w \in DOMAIN p : \E k \in DOMAIN p[w].ops : p[w].ops[k] = v

\* Nothing is dead, and there is at most one call.
Sensible(p) ==
    /\ \A v \in DOMAIN p : IsUsed(p, v) \/ p[v].kind \in {"store", "call", "fixcall", "ret"}
    /\ \A v \in DOMAIN p : p[v].kind = "phi" =>
          \A k \in 1..2 : p[v].ops[k] = Const \/ p[p[v].ops[k]].kind \in FloatKinds
    /\ \A k \in {"call", "fixcall"} : Cardinality({v \in DOMAIN p : p[v].kind = k}) <= 1

Bodies == {p \in Grown[Size] : Sensible(p)}

-----------------------------------------------------------------------------
UsersIn(p, v) == {w \in DOMAIN p : v \in ToSet(p[w].ops)}
PhisOf(p) == {v \in DOMAIN p : p[v].kind = "phi"}

\* The metadata the data type allocation leaves on a program.  What uses a
\* value with metadata has it, but for a phi node with an incoming instruction
\* that has none.  Users of such phi nodes have it, from before the phi was
\* made of a variable.
Metadata(p) ==
    {m \in SUBSET DOMAIN p :
        /\ m # {}
        /\ \A f \in PhisOf(p) \ m :
              \E x \in ToSet(p[f].ops) : x \notin m \cup PhisOf(p) \cup {Const}
        /\ \A v \in DOMAIN p : \A u \in UsersIn(p, v) :
              IF v \in PhisOf(p)
              THEN v \in m \/ ToSet(p[v].ops) \cap m # {} => u \in m
              ELSE v \in m => u \in m \cup PhisOf(p)
        /\ \A v \in m : p[v].kind \in {"store", "ret", "fixcall", "gep", "load"} =>
              ToSet(p[v].ops) \cap m # {}}

Fits(p, m, unfit, readnone) ==
    [kind |-> [v \in MCValue |-> p[v].kind], ops |-> [v \in MCValue |-> p[v].ops],
     meta |-> m, unfit |-> unfit, readnone |-> readnone]

\* Calls that do not fit, and among them those that use no memory.
Unfit(p, m) == {v \in m : p[v].kind = "fixcall"}
Pure(p, calls) == {v \in calls : ToSet(p[v].ops) \cap Pointers(p) = {}}

FullPrograms ==
    UNION {UNION {UNION {{Fits(p, m, unfit, r) : r \in {{}, Pure(p, unfit)}} :
                         unfit \in {{}, Unfit(p, m)}} :
                  m \in Metadata(p)} : p \in Bodies}

ASSUME MCAssumption == UsersMarked
=============================================================================
